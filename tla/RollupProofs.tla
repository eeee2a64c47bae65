---------------------------- MODULE RollupProofs ----------------------------
(***************************************************************************)
(* The safety of the rollup manager and of what it drives, for any number  *)
(* of rollups, batches, forced batches, roots and fees, in three parts.    *)
(*                                                                         *)
(* The first is about the manager against whatever a consensus contract    *)
(* reports and pays and any proof: the exit roots on their own, for any    *)
(* leaves and any roots the manager reports; the chain of sequences of one *)
(* rollup, what adding a sequence and walking back to a target do to it;   *)
(* the inductive invariant of the manager; what no step may do; and the    *)
(* manager, the bridge and the exit root manager together.                 *)
(*                                                                         *)
(* The second adds PolygonRollupBaseEtrog.  Every step of the composition  *)
(* is a step of the manager, so the manager's invariant is inherited; what *)
(* is added relates the two copies of a rollup's history, its states, its  *)
(* queue of forced batches and the POL for them.                           *)
(*                                                                         *)
(* The third is about the trees whose roots the others take for the list   *)
(* of leaves they commit to, for every depth: the branch and the counter   *)
(* of DepositContractBase, its proof check and getRollupExitRoot all mean  *)
(* the complete tree.                                                      *)
(***************************************************************************)
EXTENDS RollupSystem, DepositTree, SumProofs, SequenceTheorems, FiniteSetTheorems, TLAPS

-----------------------------------------------------------------------------
(* The manager.  First the exit roots of L1. *)

\* The L1 info tree and what the exit root manager derives from it.
InfoOK ==
    /\ l1InfoTree \in Seq(GlobalExitRoots)
    /\ l1InfoRootMap \in [0..Len(l1InfoTree) -> Seq(GlobalExitRoots)]
    /\ L1InfoHistory

\* The bridge and the exit root manager agree on what is published.
PublishedOK ==
    /\ exitTree \in Seq(ExitLeaves)
    /\ Len(exitTree) <= MaxDeposits
    /\ lastUpdatedDepositCount \in 0..Len(exitTree)
    /\ bridgeEmergencyState \in BOOLEAN
    /\ lastMainnetExitRoot \in MainnetExitRoots
    /\ lastRollupExitRoot \in RollupExitRoots \cup {ZeroHash}
    /\ PublishedRootIsCurrent

\* The mainnet root of a leaf of the L1 info tree that has one.
HasMainnet(i) == l1InfoTree[i].mainnet # ZeroHash

(***************************************************************************)
(* Why MainnetRootsNested is not inductive as it stands: the next leaf is  *)
(* cut from the deposit tree, so every leaf so far must be a prefix of     *)
(* that tree, and not longer than what is published.                       *)
(***************************************************************************)
PrefixesOK ==
    /\ \A i \in 1..Len(l1InfoTree) : HasMainnet(i) =>
          /\ l1InfoTree[i].mainnet \in Seq(ExitLeaves)
          /\ 0 < Len(l1InfoTree[i].mainnet)
          /\ Len(l1InfoTree[i].mainnet) <= lastUpdatedDepositCount
          /\ l1InfoTree[i].mainnet = SubSeq(exitTree, 1, Len(l1InfoTree[i].mainnet))
    /\ \A i, j \in 1..Len(l1InfoTree) : i < j /\ HasMainnet(i) =>
          /\ HasMainnet(j)
          /\ Len(l1InfoTree[i].mainnet) <= Len(l1InfoTree[j].mainnet)

ExitIInv == InfoOK /\ PublishedOK /\ PrefixesOK

\* Recording a pair keeps every root handed out and adds the pair at most once.
LEMMA RecordKeepsInfo ==
    ASSUME InfoOK, NEW ger \in GlobalExitRoots, RecordGlobalExitRoot(ger)
    PROVE  /\ InfoOK'
           /\ ger \in globalExitRootMap'
           /\ l1InfoTree' \in {l1InfoTree, Append(l1InfoTree, ger)}
<1>1. CASE ger \in globalExitRootMap
  <2>1. UNCHANGED <<globalExitRootMap, l1InfoTree, l1InfoRootMap>>
    BY <1>1 DEF RecordGlobalExitRoot
  <2>2. InfoOK'
    BY <2>1 DEF InfoOK, L1InfoHistory
  <2> QED BY <1>1, <2>1, <2>2
<1>2. CASE ger \notin globalExitRootMap
  <2>1. /\ globalExitRootMap' = globalExitRootMap \cup {ger}
        /\ l1InfoTree' = Append(l1InfoTree, ger)
        /\ RecordL1InfoRoot
    BY <1>2 DEF RecordGlobalExitRoot
  <2>2. /\ l1InfoTree \in Seq(GlobalExitRoots) /\ Len(l1InfoTree) \in Nat
        /\ DOMAIN l1InfoRootMap = 0..Len(l1InfoTree)
        /\ \A n \in 0..Len(l1InfoTree) : l1InfoRootMap[n] = SubSeq(l1InfoTree, 1, n)
        /\ globalExitRootMap = {l1InfoTree[i] : i \in 1..Len(l1InfoTree)}
        /\ \A i, j \in 1..Len(l1InfoTree) : l1InfoTree[i] = l1InfoTree[j] => i = j
    <3>1. /\ l1InfoTree \in Seq(GlobalExitRoots) /\ L1InfoHistory
          /\ DOMAIN l1InfoRootMap = 0..Len(l1InfoTree)
      BY DEF InfoOK
    <3>2. Len(l1InfoTree) \in Nat
      BY <3>1, LenProperties
    <3> QED BY <3>1, <3>2 DEF L1InfoHistory
  <2>3. /\ l1InfoTree' \in Seq(GlobalExitRoots)
        /\ Len(l1InfoTree') = Len(l1InfoTree) + 1
        /\ \A i \in 1..Len(l1InfoTree) : l1InfoTree'[i] = l1InfoTree[i]
        /\ l1InfoTree'[Len(l1InfoTree) + 1] = ger
    BY <2>1, <2>2
  <2>4. 0..Len(l1InfoTree) \cup {Len(l1InfoTree')} = 0..Len(l1InfoTree')
    BY <2>2, <2>3
  <2>5. l1InfoRootMap' = [n \in 0..Len(l1InfoTree') |->
                             IF n = Len(l1InfoTree') THEN l1InfoTree' ELSE l1InfoRootMap[n]]
    BY <2>1, <2>2, <2>4 DEF RecordL1InfoRoot
  <2>6. ASSUME NEW n \in 0..Len(l1InfoTree')
        PROVE  l1InfoRootMap'[n] = SubSeq(l1InfoTree', 1, n)
    <3>1. CASE n = Len(l1InfoTree')
      BY <2>3, <2>5, <3>1
    <3>2. CASE n # Len(l1InfoTree')
      <4>1. n \in 0..Len(l1InfoTree)
        BY <2>2, <2>3, <3>2
      <4>2. l1InfoRootMap'[n] = SubSeq(l1InfoTree, 1, n)
        BY <2>2, <2>5, <3>2, <4>1
      <4>3. SubSeq(Append(l1InfoTree, ger), 1, n) = SubSeq(l1InfoTree, 1, n)
        BY <2>2, <4>1
      <4> QED BY <2>1, <4>2, <4>3
    <3> QED BY <3>1, <3>2
  <2>7. l1InfoRootMap' \in [0..Len(l1InfoTree') -> Seq(GlobalExitRoots)]
    <3>1. \A n \in 0..Len(l1InfoTree') :
              SubSeq(l1InfoTree', 1, n) \in Seq(GlobalExitRoots)
      BY <2>3
    <3> QED BY <2>5, <2>6, <3>1
  <2>8. globalExitRootMap' = {l1InfoTree'[i] : i \in 1..Len(l1InfoTree')}
    <3>1. 1..Len(l1InfoTree') = 1..Len(l1InfoTree) \cup {Len(l1InfoTree) + 1}
      BY <2>2, <2>3
    <3> QED BY <2>1, <2>2, <2>3, <3>1
  <2>9. \A i, j \in 1..Len(l1InfoTree') : l1InfoTree'[i] = l1InfoTree'[j] => i = j
    <3>1. \A i \in 1..Len(l1InfoTree') : i \in 1..Len(l1InfoTree) \/ i = Len(l1InfoTree) + 1
      BY <2>2, <2>3
    <3>2. \A i \in 1..Len(l1InfoTree) : l1InfoTree[i] # ger
      BY <1>2, <2>2
    <3> QED BY <2>2, <2>3, <3>1, <3>2
  <2>10. DOMAIN l1InfoRootMap' = 0..Len(l1InfoTree')
    BY <2>5
  <2>11. InfoOK'
    BY <2>3, <2>6, <2>7, <2>8, <2>9, <2>10 DEF InfoOK, L1InfoHistory
  <2> QED BY <2>1, <2>11
<1> QED BY <1>1, <1>2

(***************************************************************************)
(* A pair whose mainnet root is a longer prefix than any recorded one      *)
(* keeps the roots nested.                                                 *)
(***************************************************************************)
LEMMA RecordKeepsPrefixes ==
    ASSUME l1InfoTree \in Seq(GlobalExitRoots), PrefixesOK,
           NEW ger, l1InfoTree' \in {l1InfoTree, Append(l1InfoTree, ger)},
           NEW root, ger.mainnet = root,
           root # ZeroHash =>
               /\ root \in Seq(ExitLeaves)
               /\ Len(root) = lastUpdatedDepositCount' /\ 0 < Len(root)
               /\ root = SubSeq(exitTree', 1, Len(root)),
           root = ZeroHash => \A i \in 1..Len(l1InfoTree) : ~HasMainnet(i),
           lastUpdatedDepositCount \in 0..Len(exitTree),
           lastUpdatedDepositCount' \in Nat,
           lastUpdatedDepositCount <= lastUpdatedDepositCount',
           exitTree \in Seq(ExitLeaves),
           exitTree' = exitTree \/ \E leaf \in ExitLeaves : exitTree' = Append(exitTree, leaf)
    PROVE  PrefixesOK'
<1>1. ASSUME NEW i \in 1..Len(l1InfoTree), HasMainnet(i)
      PROVE  /\ l1InfoTree[i].mainnet \in Seq(ExitLeaves)
             /\ 0 < Len(l1InfoTree[i].mainnet)
             /\ Len(l1InfoTree[i].mainnet) <= lastUpdatedDepositCount'
             /\ l1InfoTree[i].mainnet = SubSeq(exitTree', 1, Len(l1InfoTree[i].mainnet))
  <2>1. PICK m \in Seq(ExitLeaves) :
            /\ m = l1InfoTree[i].mainnet
            /\ 0 < Len(m) /\ Len(m) <= lastUpdatedDepositCount
            /\ m = SubSeq(exitTree, 1, Len(m))
    BY <1>1 DEF PrefixesOK
  <2>2. Len(m) \in 0..Len(exitTree) /\ Len(m) <= lastUpdatedDepositCount'
    BY <2>1
  <2>3. SubSeq(exitTree', 1, Len(m)) = SubSeq(exitTree, 1, Len(m))
    BY <2>2
  <2> QED BY <2>1, <2>2, <2>3
<1>2. ASSUME NEW i \in 1..Len(l1InfoTree), NEW j \in 1..Len(l1InfoTree), i < j,
             HasMainnet(i)
      PROVE  /\ HasMainnet(j)
             /\ Len(l1InfoTree[i].mainnet) <= Len(l1InfoTree[j].mainnet)
  BY <1>2 DEF PrefixesOK
<1>3. CASE l1InfoTree' = l1InfoTree
  BY <1>1, <1>2, <1>3 DEF PrefixesOK, HasMainnet
<1>4. CASE l1InfoTree' = Append(l1InfoTree, ger)
  <2>1. /\ Len(l1InfoTree) \in Nat /\ Len(l1InfoTree') = Len(l1InfoTree) + 1
        /\ \A i \in 1..Len(l1InfoTree) : l1InfoTree'[i] = l1InfoTree[i]
        /\ l1InfoTree'[Len(l1InfoTree) + 1] = ger
    BY <1>4
  <2>2. \A i \in 1..Len(l1InfoTree') : i \in 1..Len(l1InfoTree) \/ l1InfoTree'[i] = ger
    BY <2>1
  <2>3. \A i, j \in 1..Len(l1InfoTree') : i < j =>
            /\ i \in 1..Len(l1InfoTree)
            /\ j \in 1..Len(l1InfoTree) \/ l1InfoTree'[j] = ger
    <3> SUFFICES ASSUME NEW i \in 1..Len(l1InfoTree'), NEW j \in 1..Len(l1InfoTree'), i < j
                 PROVE  i \in 1..Len(l1InfoTree)
      BY <2>2
    <3>1. Len(l1InfoTree) \in Nat /\ Len(l1InfoTree') = Len(l1InfoTree) + 1
      BY <2>1
    <3> QED BY <3>1
  <2>4. \A i \in 1..Len(l1InfoTree') : HasMainnet(i)' =>
            /\ l1InfoTree'[i].mainnet \in Seq(ExitLeaves)
            /\ 0 < Len(l1InfoTree'[i].mainnet)
            /\ Len(l1InfoTree'[i].mainnet) <= lastUpdatedDepositCount'
            /\ l1InfoTree'[i].mainnet = SubSeq(exitTree', 1, Len(l1InfoTree'[i].mainnet))
    <3> SUFFICES ASSUME NEW i \in 1..Len(l1InfoTree'), l1InfoTree'[i].mainnet # ZeroHash
                 PROVE  /\ l1InfoTree'[i].mainnet \in Seq(ExitLeaves)
                        /\ 0 < Len(l1InfoTree'[i].mainnet)
                        /\ Len(l1InfoTree'[i].mainnet) <= lastUpdatedDepositCount'
                        /\ l1InfoTree'[i].mainnet
                               = SubSeq(exitTree', 1, Len(l1InfoTree'[i].mainnet))
      BY DEF HasMainnet
    <3>1. CASE i \in 1..Len(l1InfoTree)
      BY <1>1, <2>1, <3>1 DEF HasMainnet
    <3>2. CASE l1InfoTree'[i] = ger
      BY <3>2
    <3> QED BY <2>2, <3>1, <3>2
  <2>5. \A i, j \in 1..Len(l1InfoTree') : i < j /\ HasMainnet(i)' =>
            /\ HasMainnet(j)'
            /\ Len(l1InfoTree'[i].mainnet) <= Len(l1InfoTree'[j].mainnet)
    <3> SUFFICES ASSUME NEW i \in 1..Len(l1InfoTree'), NEW j \in 1..Len(l1InfoTree'),
                        i < j, l1InfoTree'[i].mainnet # ZeroHash
                 PROVE  /\ l1InfoTree'[j].mainnet # ZeroHash
                        /\ Len(l1InfoTree'[i].mainnet) <= Len(l1InfoTree'[j].mainnet)
      BY DEF HasMainnet
    <3>1. i \in 1..Len(l1InfoTree) /\ HasMainnet(i) /\ l1InfoTree'[i] = l1InfoTree[i]
      BY <2>1, <2>3 DEF HasMainnet
    <3>2. CASE j \in 1..Len(l1InfoTree)
      BY <1>2, <2>1, <3>1, <3>2 DEF HasMainnet
    <3>3. CASE l1InfoTree'[j] = ger
      <4>1. root # ZeroHash
        BY <3>1
      <4> QED BY <1>1, <3>1, <3>3, <4>1
    <3> QED BY <2>3, <3>2, <3>3
  <2> QED BY <2>4, <2>5 DEF PrefixesOK
<1> QED BY <1>3, <1>4

-----------------------------------------------------------------------------
(* The steps. *)

LEMMA ExitInitInvariant ==
    ASSUME ExitInit
    PROVE  ExitIInv
<1>1. /\ exitTree = <<>> /\ l1InfoTree = <<>> /\ globalExitRootMap = {}
      /\ l1InfoRootMap = [n \in {0} |-> <<>>]
      /\ Len(l1InfoTree) = 0 /\ Len(exitTree) = 0
      /\ 0..0 = {0} /\ 1..0 = {}
  BY DEF ExitInit
<1>2. InfoOK
  <2>1. l1InfoRootMap \in [0..Len(l1InfoTree) -> Seq(GlobalExitRoots)]
    BY <1>1
  <2>2. L1InfoHistory
    BY <1>1 DEF L1InfoHistory
  <2> QED BY <1>1, <2>1, <2>2 DEF InfoOK
<1>3. PublishedOK
  <2>1. /\ lastUpdatedDepositCount = 0 /\ lastMainnetExitRoot = ZeroHash
        /\ lastRollupExitRoot = ZeroHash /\ bridgeEmergencyState = FALSE
    BY DEF ExitInit
  <2>2. PublishedRootIsCurrent
    BY <1>1, <2>1 DEF PublishedRootIsCurrent
  <2>3. /\ exitTree \in Seq(ExitLeaves) /\ Len(exitTree) <= MaxDeposits
        /\ lastUpdatedDepositCount \in 0..Len(exitTree)
    BY <1>1, <2>1, ExitAssumption
  <2> QED BY <2>1, <2>2, <2>3 DEF PublishedOK, MainnetExitRoots
<1>4. PrefixesOK
  BY <1>1 DEF PrefixesOK
<1> QED BY <1>2, <1>3, <1>4 DEF ExitIInv

(***************************************************************************)
(* _updateGlobalExitRoot, right after a deposit or later: the whole tree   *)
(* is published.                                                           *)
(***************************************************************************)
LEMMA PublishInvariant ==
    ASSUME ExitIInv, PublishMainnetExitRoot,
           \/ exitTree' = exitTree /\ lastUpdatedDepositCount < Len(exitTree)
           \/ /\ \E leaf \in ExitLeaves : exitTree' = Append(exitTree, leaf)
              /\ Len(exitTree) < MaxDeposits,
           UNCHANGED bridgeEmergencyState
    PROVE  ExitIInv'
<1>1. /\ exitTree \in Seq(ExitLeaves) /\ Len(exitTree) \in Nat
      /\ Len(exitTree) <= MaxDeposits
      /\ lastUpdatedDepositCount \in 0..Len(exitTree)
  BY DEF ExitIInv, PublishedOK
<1>2. /\ exitTree' \in Seq(ExitLeaves) /\ Len(exitTree') \in Nat \ {0}
      /\ Len(exitTree') <= MaxDeposits
      /\ lastUpdatedDepositCount <= Len(exitTree')
  <2>1. CASE exitTree' = exitTree /\ lastUpdatedDepositCount < Len(exitTree)
    BY <1>1, <2>1
  <2>2. CASE /\ \E leaf \in ExitLeaves : exitTree' = Append(exitTree, leaf)
             /\ Len(exitTree) < MaxDeposits
    <3>1. exitTree' \in Seq(ExitLeaves) /\ Len(exitTree') = Len(exitTree) + 1
      BY <1>1, <2>2
    <3> QED BY <1>1, <2>2, <3>1, ExitAssumption
  <2> QED BY <2>1, <2>2
<1>3. /\ lastUpdatedDepositCount' = Len(exitTree')
      /\ lastMainnetExitRoot' = exitTree'
      /\ UNCHANGED lastRollupExitRoot
      /\ RecordGlobalExitRoot(GlobalExitRoot(exitTree', lastRollupExitRoot))
  BY DEF PublishMainnetExitRoot, UpdateMainnetExitRoot
<1>4. PICK ger \in GlobalExitRoots :
          /\ ger = GlobalExitRoot(exitTree', lastRollupExitRoot)
          /\ ger.mainnet = exitTree'
  <2>1. /\ exitTree' \in MainnetExitRoots
        /\ lastRollupExitRoot \in RollupExitRoots \cup {ZeroHash}
    BY <1>2 DEF ExitIInv, PublishedOK, MainnetExitRoots
  <2>2. GlobalExitRoot(exitTree', lastRollupExitRoot) \in GlobalExitRoots
    BY <2>1 DEF GlobalExitRoots, GlobalExitRoot
  <2>3. GlobalExitRoot(exitTree', lastRollupExitRoot).mainnet = exitTree'
    BY DEF GlobalExitRoot
  <2> QED BY <2>2, <2>3
<1>5. /\ InfoOK'
      /\ ger \in globalExitRootMap'
      /\ l1InfoTree' \in {l1InfoTree, Append(l1InfoTree, ger)}
  BY <1>3, <1>4, RecordKeepsInfo DEF ExitIInv
<1>6. SubSeq(exitTree', 1, Len(exitTree')) = exitTree'
  BY <1>2
<1>7. PublishedOK'
  <2>1. GetLastGlobalExitRoot' = ger
    BY <1>3, <1>4 DEF GetLastGlobalExitRoot, GlobalExitRoot
  <2>2. PublishedRootIsCurrent'
    BY <1>2, <1>3, <1>5, <1>6, <2>1 DEF PublishedRootIsCurrent
  <2>3. /\ lastUpdatedDepositCount' \in 0..Len(exitTree')
        /\ lastMainnetExitRoot' \in MainnetExitRoots
    BY <1>2, <1>3 DEF MainnetExitRoots
  <2> QED BY <1>2, <1>3, <2>2, <2>3 DEF ExitIInv, PublishedOK
<1>8. PrefixesOK'
  <2>1. exitTree' # ZeroHash
    BY <1>2, ExitAssumption
  <2>2. l1InfoTree \in Seq(GlobalExitRoots) /\ PrefixesOK
    BY DEF ExitIInv, InfoOK
  <2>3. exitTree' = exitTree \/ \E leaf \in ExitLeaves : exitTree' = Append(exitTree, leaf)
    OBVIOUS
  <2> QED BY <1>1, <1>2, <1>3, <1>4, <1>5, <1>6, <2>1, <2>2, <2>3, RecordKeepsPrefixes
<1> QED BY <1>5, <1>7, <1>8 DEF ExitIInv

\* A deposit that is not published yet, or a change of the emergency state.
LEMMA UnpublishedInvariant ==
    ASSUME ExitIInv, UNCHANGED <<lastUpdatedDepositCount, gerVars>>,
           bridgeEmergencyState' \in BOOLEAN,
           \/ exitTree' = exitTree
           \/ /\ \E leaf \in ExitLeaves : exitTree' = Append(exitTree, leaf)
              /\ Len(exitTree) < MaxDeposits
    PROVE  ExitIInv'
<1>1. /\ exitTree \in Seq(ExitLeaves) /\ Len(exitTree) \in Nat
      /\ Len(exitTree) <= MaxDeposits
      /\ lastUpdatedDepositCount \in 0..Len(exitTree)
  BY DEF ExitIInv, PublishedOK
<1>2. UNCHANGED <<lastUpdatedDepositCount, lastMainnetExitRoot, lastRollupExitRoot,
                  globalExitRootMap, l1InfoTree, l1InfoRootMap>>
  BY DEF gerVars
<1>3. /\ exitTree' \in Seq(ExitLeaves) /\ Len(exitTree') <= MaxDeposits
      /\ lastUpdatedDepositCount \in 0..Len(exitTree')
      /\ \A n \in 0..Len(exitTree) : SubSeq(exitTree', 1, n) = SubSeq(exitTree, 1, n)
  <2>1. CASE exitTree' = exitTree
    BY <1>1, <2>1
  <2>2. CASE /\ \E leaf \in ExitLeaves : exitTree' = Append(exitTree, leaf)
             /\ Len(exitTree) < MaxDeposits
    <3>1. exitTree' \in Seq(ExitLeaves) /\ Len(exitTree') = Len(exitTree) + 1
      BY <1>1, <2>2
    <3>2. \A n \in 0..Len(exitTree) : SubSeq(exitTree', 1, n) = SubSeq(exitTree, 1, n)
      BY <1>1, <2>2
    <3> QED BY <1>1, <2>2, <3>1, <3>2, ExitAssumption
  <2> QED BY <2>1, <2>2
<1>4. InfoOK'
  BY <1>2 DEF ExitIInv, InfoOK, L1InfoHistory
<1>5. PublishedOK'
  <2>1. PublishedRootIsCurrent'
    BY <1>1, <1>2, <1>3 DEF ExitIInv, PublishedOK, PublishedRootIsCurrent,
                            GetLastGlobalExitRoot
  <2> QED BY <1>2, <1>3, <2>1 DEF ExitIInv, PublishedOK
<1>6. PrefixesOK'
  <2>1. ASSUME NEW i \in 1..Len(l1InfoTree), HasMainnet(i)
        PROVE  /\ l1InfoTree[i].mainnet \in Seq(ExitLeaves)
               /\ 0 < Len(l1InfoTree[i].mainnet)
               /\ Len(l1InfoTree[i].mainnet) <= lastUpdatedDepositCount
               /\ l1InfoTree[i].mainnet = SubSeq(exitTree', 1, Len(l1InfoTree[i].mainnet))
    <3>1. PICK m \in Seq(ExitLeaves) :
              /\ m = l1InfoTree[i].mainnet
              /\ 0 < Len(m) /\ Len(m) <= lastUpdatedDepositCount
              /\ m = SubSeq(exitTree, 1, Len(m))
      BY <2>1 DEF ExitIInv, PrefixesOK
    <3>2. Len(m) \in 0..Len(exitTree)
      BY <1>1, <3>1
    <3>3. SubSeq(exitTree', 1, Len(m)) = SubSeq(exitTree, 1, Len(m))
      BY <1>3, <3>2
    <3> QED BY <3>1, <3>3
  <2> QED BY <1>2, <2>1 DEF ExitIInv, PrefixesOK, HasMainnet
<1> QED BY <1>4, <1>5, <1>6 DEF ExitIInv

\* The rollup manager's root does not touch the mainnet one.
LEMMA ReportInvariant ==
    ASSUME ExitIInv, NEW root \in RollupExitRoots, ReportRollupExitRoot(root)
    PROVE  ExitIInv'
<1>1. /\ UNCHANGED <<exitTree, lastUpdatedDepositCount, bridgeEmergencyState,
                     lastMainnetExitRoot>>
      /\ lastRollupExitRoot' = root
      /\ RecordGlobalExitRoot(GlobalExitRoot(lastMainnetExitRoot, root))
  BY DEF ReportRollupExitRoot, UpdateRollupExitRoot, bridgeVars
<1>2. /\ exitTree \in Seq(ExitLeaves) /\ Len(exitTree) \in Nat
      /\ lastUpdatedDepositCount \in 0..Len(exitTree)
      /\ lastMainnetExitRoot \in MainnetExitRoots
      /\ PublishedRootIsCurrent /\ PublishedOK
      /\ l1InfoTree \in Seq(GlobalExitRoots) /\ PrefixesOK /\ InfoOK
  BY DEF ExitIInv, PublishedOK, InfoOK
<1>3. PICK ger \in GlobalExitRoots :
          /\ ger = GlobalExitRoot(lastMainnetExitRoot, root)
          /\ ger.mainnet = lastMainnetExitRoot
  <2>1. GlobalExitRoot(lastMainnetExitRoot, root) \in GlobalExitRoots
    BY <1>2 DEF GlobalExitRoots, GlobalExitRoot
  <2>2. GlobalExitRoot(lastMainnetExitRoot, root).mainnet = lastMainnetExitRoot
    BY DEF GlobalExitRoot
  <2> QED BY <2>1, <2>2
<1>4. /\ InfoOK'
      /\ ger \in globalExitRootMap'
      /\ l1InfoTree' \in {l1InfoTree, Append(l1InfoTree, ger)}
  BY <1>1, <1>2, <1>3, RecordKeepsInfo
<1>5. PublishedOK'
  <2>1. GetLastGlobalExitRoot' = ger
    BY <1>1, <1>3 DEF GetLastGlobalExitRoot, GlobalExitRoot
  <2>2. PublishedRootIsCurrent'
    BY <1>1, <1>2, <1>4, <2>1 DEF PublishedRootIsCurrent
  <2> QED BY <1>1, <1>2, <2>2 DEF PublishedOK
<1>6. PrefixesOK'
  <2>1. CASE lastUpdatedDepositCount = 0
    <3>1. lastMainnetExitRoot = ZeroHash
      BY <1>2, <2>1 DEF PublishedRootIsCurrent
    <3>2. \A i \in 1..Len(l1InfoTree) : ~HasMainnet(i)
      <4> SUFFICES ASSUME NEW i \in 1..Len(l1InfoTree), HasMainnet(i) PROVE FALSE
        OBVIOUS
      <4>1. PICK m \in Seq(ExitLeaves) :
                m = l1InfoTree[i].mainnet /\ 0 < Len(m) /\ Len(m) <= 0
        BY <1>2, <2>1 DEF PrefixesOK
      <4> QED BY <4>1
    <3>3. lastUpdatedDepositCount' \in Nat /\ lastUpdatedDepositCount <= lastUpdatedDepositCount'
      BY <1>1, <1>2
    <3> QED BY <1>1, <1>2, <1>3, <1>4, <3>1, <3>2, <3>3, RecordKeepsPrefixes
  <2>2. CASE lastUpdatedDepositCount # 0
    <3>1. /\ lastMainnetExitRoot = SubSeq(exitTree, 1, lastUpdatedDepositCount)
          /\ lastMainnetExitRoot \in Seq(ExitLeaves)
          /\ Len(lastMainnetExitRoot) = lastUpdatedDepositCount
      BY <1>2, <2>2 DEF PublishedRootIsCurrent
    <3>2. lastMainnetExitRoot # ZeroHash
      <4>1. lastMainnetExitRoot # <<>>
        BY <2>2, <3>1
      <4> QED BY <3>1, <4>1, ExitAssumption
    <3>3. /\ lastUpdatedDepositCount' \in Nat
          /\ lastUpdatedDepositCount <= lastUpdatedDepositCount'
          /\ 0 < Len(lastMainnetExitRoot)
      BY <1>1, <1>2, <2>2, <3>1
    <3>4. PICK m : /\ m = lastMainnetExitRoot /\ m # ZeroHash
                   /\ m \in Seq(ExitLeaves)
                   /\ Len(m) = lastUpdatedDepositCount' /\ 0 < Len(m)
                   /\ m = SubSeq(exitTree', 1, Len(m))
      BY <1>1, <3>1, <3>2, <3>3
    <3>5. ger.mainnet = m
      BY <1>3, <3>4
    <3>6. exitTree' = exitTree \/ \E leaf \in ExitLeaves : exitTree' = Append(exitTree, leaf)
      BY <1>1
    <3>7. /\ m # ZeroHash =>
                 /\ m \in Seq(ExitLeaves)
                 /\ Len(m) = lastUpdatedDepositCount' /\ 0 < Len(m)
                 /\ m = SubSeq(exitTree', 1, Len(m))
          /\ m = ZeroHash => \A i \in 1..Len(l1InfoTree) : ~HasMainnet(i)
      BY <3>4
    <3> HIDE <3>4
    <3> QED BY <1>2, <1>4, <3>3, <3>5, <3>6, <3>7, RecordKeepsPrefixes
  <2> QED BY <2>1, <2>2
<1> QED BY <1>4, <1>5, <1>6 DEF ExitIInv

\* Every step of the exit roots keeps the invariant.
LEMMA ExitNextInvariant ==
    ASSUME ExitIInv, [ExitNext]_exitVars
    PROVE  ExitIInv'
<1>1. ASSUME NEW leaf \in ExitLeaves, NEW force \in BOOLEAN, BridgeExit(leaf, force)
      PROVE  ExitIInv'
  <2>1. /\ exitTree' = Append(exitTree, leaf) /\ Len(exitTree) < MaxDeposits
        /\ UNCHANGED bridgeEmergencyState
    BY <1>1 DEF BridgeExit, AddExit, DepositCount
  <2>2. CASE PublishMainnetExitRoot
    BY <2>1, <2>2, PublishInvariant
  <2>3. CASE UNCHANGED <<lastUpdatedDepositCount, gerVars>>
    <3>1. bridgeEmergencyState' \in BOOLEAN
      BY <2>1 DEF ExitIInv, PublishedOK
    <3> QED BY <2>1, <2>3, <3>1, UnpublishedInvariant
  <2> QED BY <1>1, <2>2, <2>3 DEF BridgeExit, AddExit
<1>2. CASE UpdateGlobalExitRoot
  <2>1. UNCHANGED <<exitTree, bridgeEmergencyState>> /\ bridgeEmergencyState' \in BOOLEAN
    BY <1>2 DEF UpdateGlobalExitRoot, ExitIInv, PublishedOK
  <2>2. CASE lastUpdatedDepositCount < Len(exitTree) /\ PublishMainnetExitRoot
    BY <2>1, <2>2, PublishInvariant
  <2>3. CASE UNCHANGED <<lastUpdatedDepositCount, gerVars>>
    BY <2>1, <2>3, UnpublishedInvariant
  <2> QED BY <1>2, <2>2, <2>3 DEF UpdateGlobalExitRoot, DepositCount
<1>3. ASSUME NEW root \in RollupExitRoots, ReportRollupExitRoot(root)
      PROVE  ExitIInv'
  BY <1>3, ReportInvariant
<1>4. CASE SetBridgeEmergency
  <2>1. /\ UNCHANGED <<exitTree, lastUpdatedDepositCount, gerVars>>
        /\ bridgeEmergencyState' \in BOOLEAN
    BY <1>4 DEF SetBridgeEmergency, ActivateBridgeEmergency, DeactivateBridgeEmergency
  <2> QED BY <2>1, UnpublishedInvariant
<1>5. CASE UNCHANGED exitVars
  <2>1. UNCHANGED <<exitTree, lastUpdatedDepositCount, gerVars, bridgeEmergencyState>>
    BY <1>5 DEF exitVars, gerVars
  <2>2. bridgeEmergencyState' \in BOOLEAN
    BY <2>1 DEF ExitIInv, PublishedOK
  <2> QED BY <2>1, <2>2, UnpublishedInvariant
<1> QED BY <1>1, <1>2, <1>3, <1>4, <1>5 DEF ExitNext, BridgeStep

(***************************************************************************)
(* The pairs recorded are pairs of roots, and the cached count is in range:*)
(* the type invariant follows.                                             *)
(***************************************************************************)
LEMMA ExitIInvTypeOK ==
    ASSUME ExitIInv
    PROVE  ExitTypeOK
<1>1. globalExitRootMap \subseteq GlobalExitRoots
  BY DEF ExitIInv, InfoOK, L1InfoHistory
<1>2. lastUpdatedDepositCount \in 0..MaxDeposits
  <2>1. /\ Len(exitTree) \in Nat /\ Len(exitTree) <= MaxDeposits
        /\ lastUpdatedDepositCount \in 0..Len(exitTree)
    BY DEF ExitIInv, PublishedOK
  <2> QED BY <2>1, ExitAssumption
<1> QED BY <1>1, <1>2 DEF ExitIInv, InfoOK, PublishedOK, ExitTypeOK

\* Two prefixes of one deposit tree are nested.
LEMMA ExitIInvNested ==
    ASSUME ExitIInv
    PROVE  MainnetRootsNested
<1> SUFFICES ASSUME NEW i \in 1..Len(l1InfoTree), NEW j \in 1..Len(l1InfoTree),
                    i < j, HasMainnet(i)
             PROVE  /\ HasMainnet(j)
                    /\ SubSeq(l1InfoTree[j].mainnet, 1, Len(l1InfoTree[i].mainnet))
                           = l1InfoTree[i].mainnet
  BY DEF MainnetRootsNested, HasMainnet
<1>1. HasMainnet(j) /\ Len(l1InfoTree[i].mainnet) <= Len(l1InfoTree[j].mainnet)
  BY DEF ExitIInv, PrefixesOK
<1>2. PICK m \in Seq(ExitLeaves) :
          m = l1InfoTree[i].mainnet /\ m = SubSeq(exitTree, 1, Len(m))
  BY DEF ExitIInv, PrefixesOK
<1>3. PICK k \in Seq(ExitLeaves) :
          /\ k = l1InfoTree[j].mainnet /\ k = SubSeq(exitTree, 1, Len(k))
          /\ Len(k) <= lastUpdatedDepositCount
  BY <1>1 DEF ExitIInv, PrefixesOK
<1>4. /\ exitTree \in Seq(ExitLeaves) /\ Len(k) <= Len(exitTree) /\ Len(m) <= Len(k)
  BY <1>1, <1>2, <1>3 DEF ExitIInv, PublishedOK
<1>5. SubSeq(k, 1, Len(m)) = m
  <2>1. \A n \in 1..Len(m) : k[n] = exitTree[n] /\ m[n] = exitTree[n]
    BY <1>2, <1>3, <1>4
  <2>2. /\ SubSeq(k, 1, Len(m)) \in Seq(ExitLeaves)
        /\ Len(SubSeq(k, 1, Len(m))) = Len(m)
        /\ \A n \in 1..Len(m) : SubSeq(k, 1, Len(m))[n] = k[n]
    BY <1>4
  <2> QED BY <2>1, <2>2
<1> QED BY <1>1, <1>2, <1>3, <1>5

-----------------------------------------------------------------------------
\* The inductive invariant holds in every state.
THEOREM ExitInvariant == ExitSpec => []ExitIInv
<1>1. ExitInit => ExitIInv
  BY ExitInitInvariant
<1>2. ExitIInv /\ [ExitNext]_exitVars => ExitIInv'
  BY ExitNextInvariant
<1> QED BY <1>1, <1>2, PTL DEF ExitSpec

\* Every variable of the bridge's tree and of the exit root manager keeps its type.
THEOREM ExitTypeCorrect == ExitSpec => []ExitTypeOK
<1>1. ExitIInv => ExitTypeOK
  BY ExitIInvTypeOK
<1> QED BY <1>1, ExitInvariant, PTL

(***************************************************************************)
(* An L1 info root once handed out stays the root of the tree at its leaf  *)
(* count, and no pair is recorded twice (updateExitRoot).                  *)
(***************************************************************************)
THEOREM L1InfoRootsStay == ExitSpec => []L1InfoHistory
<1>1. ExitIInv => L1InfoHistory
  BY DEF ExitIInv, InfoOK
<1> QED BY <1>1, ExitInvariant, PTL

\* The bridge's cached deposit count and the manager's mainnet root agree.
THEOREM PublishedCountIsRight == ExitSpec => []PublishedRootIsCurrent
<1>1. ExitIInv => PublishedRootIsCurrent
  BY DEF ExitIInv, PublishedOK
<1> QED BY <1>1, ExitInvariant, PTL

\* A deposit covered by a leaf of the L1 info tree is covered by every later one.
THEOREM MainnetRootsAreNested == ExitSpec => []MainnetRootsNested
<1>1. ExitIInv => MainnetRootsNested
  BY ExitIInvNested
<1> QED BY <1>1, ExitInvariant, PTL

(***************************************************************************)
(* Recorded pairs, published count and nesting stay in agreement, for any  *)
(* number of deposits and any rollup roots (updateExitRoot).               *)
(***************************************************************************)
THEOREM ExitRootsStayConsistent == ExitSpec => []ExitRootsConsistent
<1>1. L1InfoHistory /\ PublishedRootIsCurrent /\ MainnetRootsNested => ExitRootsConsistent
  BY DEF ExitRootsConsistent
<1> QED BY <1>1, L1InfoRootsStay, PublishedCountIsRight, MainnetRootsAreNested, PTL

-----------------------------------------------------------------------------
(* The chain of one rollup. *)

\* The part of SequenceChain about one rollup, over its ledger.
EndsOf(seq) == {b \in Batches : b = 0 \/ seq[b].accInputHash # ZeroHash}

Chained(seq, last) ==
    \A b \in EndsOf(seq) \ {0} :
        /\ b <= last
        /\ seq[b].previousLastBatchSequenced \in EndsOf(seq)
        /\ seq[b].previousLastBatchSequenced < b
        /\ \A e \in EndsOf(seq) : e <= seq[b].previousLastBatchSequenced \/ b <= e

\* Slots without a sequence hold nothing.
Blank(seq) ==
    \A b \in Batches : seq[b].accInputHash = ZeroHash => seq[b] = NoSequencedBatch

Ledger == [Batches -> SequencedBatchData]

\* SequenceChain says of every rollup that its ledger is chained.
LEMMA SequenceChainByRollup ==
    SequenceChain <=>
        \A r \in RollupIDs :
            /\ {lastBatchSequenced[r], lastVerifiedBatch[r],
                lastVerifiedBatchBeforeUpgrade[r]} \subseteq EndsOf(sequencedBatches[r])
            /\ Chained(sequencedBatches[r], lastBatchSequenced[r])
BY DEF SequenceChain, Chained, EndsOf, SequenceEnds, IsSequenced

(***************************************************************************)
(* A sequence added above the last one is a new link of the chain.         *)
(***************************************************************************)
LEMMA ChainAppend ==
    ASSUME NEW seq \in Ledger, NEW last \in Batches, NEW new \in Batches,
           NEW acc \in AccInputHashes, last < new,
           last \in EndsOf(seq), Chained(seq, last), Blank(seq),
           NEW longer,
           \A b \in Batches :
               longer[b] = IF b = new THEN SequencedBatch(acc, last) ELSE seq[b]
    PROVE  /\ EndsOf(longer) = EndsOf(seq) \cup {new}
           /\ Chained(longer, new)
           /\ Blank(longer)
<1>1. /\ \A b \in Batches : b \in Nat
      /\ 0 \in Batches /\ last \in Nat /\ new \in Nat
      /\ acc # ZeroHash
  BY ManagerAssumption DEF Batches
<1>2. \A b \in Batches :
          longer[b] = IF b = new THEN SequencedBatch(acc, last) ELSE seq[b]
  OBVIOUS
<1>3. /\ longer[new].accInputHash = acc
      /\ \A b \in Batches : b # new => longer[b] = seq[b]
  BY <1>2 DEF SequencedBatch
<1>4. EndsOf(longer) = EndsOf(seq) \cup {new}
  BY <1>1, <1>3 DEF EndsOf
<1>5. Blank(longer)
  BY <1>1, <1>2 DEF Blank, SequencedBatch
<1>6. \A e \in EndsOf(seq) : e \in Batches /\ e <= last
  BY <1>1 DEF EndsOf, Chained
<1>7. ASSUME NEW b \in EndsOf(longer) \ {0}
      PROVE  /\ b <= new
             /\ longer[b].previousLastBatchSequenced \in EndsOf(longer)
             /\ longer[b].previousLastBatchSequenced < b
             /\ \A e \in EndsOf(longer) :
                    e <= longer[b].previousLastBatchSequenced \/ b <= e
  <2>1. CASE b = new
    <3>1. longer[b].previousLastBatchSequenced = last
      BY <2>1, <1>2 DEF SequencedBatch
    <3>2. ASSUME NEW e \in EndsOf(longer) PROVE e <= last \/ new <= e
      <4>1. CASE e = new
        BY <4>1, <1>1
      <4>2. CASE e # new
        BY <4>2, <1>4, <1>6
      <4> QED BY <4>1, <4>2
    <3>3. last \in EndsOf(longer)
      BY <1>4
    <3>5. b <= new /\ last < b
      BY <2>1, <1>1
    <3>4. \A e \in EndsOf(longer) : e <= last \/ new <= e
      BY <3>2
    <3> QED BY <3>1, <3>3, <3>4, <3>5, <2>1
  <2>2. CASE b # new
    <3>1. b \in EndsOf(seq) \ {0} /\ longer[b] = seq[b] /\ b \in Batches
      BY <2>2, <1>2, <1>4, <1>6
    <3>2. /\ b <= last
          /\ seq[b].previousLastBatchSequenced \in EndsOf(seq)
          /\ seq[b].previousLastBatchSequenced < b
          /\ \A e \in EndsOf(seq) : e <= seq[b].previousLastBatchSequenced \/ b <= e
      BY <3>1 DEF Chained
    <3>3. b \in Nat
      BY <3>1, <1>1
    <3>4. b <= new
      BY <3>2, <3>3, <1>1
    <3>5. \A e \in EndsOf(longer) : e \in EndsOf(seq) \/ b <= e
      BY <3>4, <1>4
    <3> QED BY <3>1, <3>2, <3>4, <3>5, <1>4
  <2> QED BY <2>1, <2>2
<1> QED BY <1>4, <1>5, <1>7 DEF Chained

\* What the loop of rollbackBatches deletes, over the ledger of one rollup.
Walked(seq, last, target, ends) ==
    /\ last \in ends
    /\ \A b \in ends : seq[b].previousLastBatchSequenced \in ends \cup {target}
    /\ \A b \in ends \ {last} :
          \E later \in ends : seq[later].previousLastBatchSequenced = b

(***************************************************************************)
(* The walk visits every end above the target, and reaches the target only *)
(* if the target is an end itself.                                         *)
(***************************************************************************)
LEMMA WalkFindsEnds ==
    ASSUME NEW seq \in Ledger, NEW last \in Batches, NEW target \in Batches,
           target < last, last \in EndsOf(seq), Chained(seq, last), Blank(seq),
           NEW ends \in SUBSET (target + 1 .. last),
           Walked(seq, last, target, ends)
    PROVE  /\ target \in EndsOf(seq)
           /\ \A b \in Batches : b \in ends <=> b \in EndsOf(seq) /\ b > target
<1>1. /\ \A b \in Batches : b \in Nat
      /\ 0 \in Batches /\ last \in Nat /\ target \in Nat
      /\ \A e \in ends : e \in Batches /\ e \in Nat /\ target < e /\ e <= last
  BY ManagerAssumption DEF Batches
<1>2. ASSUME NEW e \in ends PROVE e \in EndsOf(seq) \ {0}
  <2>1. e # 0 /\ e \in Batches
    BY <1>1
  <2>2. CASE e = last
    BY <2>1, <2>2
  <2>3. CASE e # last
    <3>1. PICK later \in ends : seq[later].previousLastBatchSequenced = e
      BY <2>3 DEF Walked
    <3>2. later \in Batches /\ later # 0
      BY <1>1
    <3>3. seq[later] # NoSequencedBatch
      BY <3>1, <2>1 DEF NoSequencedBatch, SequencedBatch
    <3>4. later \in EndsOf(seq) \ {0}
      BY <3>2, <3>3 DEF Blank, EndsOf
    <3> QED BY <3>1, <3>4, <2>1 DEF Chained
  <2> QED BY <2>2, <2>3
<1>3. ASSUME NEW e \in ends
      PROVE  /\ seq[e].previousLastBatchSequenced < e
             /\ seq[e].previousLastBatchSequenced \in EndsOf(seq)
             /\ \A b \in EndsOf(seq) :
                   b <= seq[e].previousLastBatchSequenced \/ e <= b
             /\ seq[e].previousLastBatchSequenced \in ends \cup {target}
  BY <1>2 DEF Chained, Walked
<1>4. target \in EndsOf(seq)
  <2>1. ends \in SUBSET Nat /\ ends # {}
    BY <1>1 DEF Walked
  <2>2. PICK m \in ends : \A k \in ends : m <= k
    BY <2>1, LeastElement
  <2>3. seq[m].previousLastBatchSequenced \notin ends
    <3>1. seq[m].previousLastBatchSequenced < m
      BY <1>3
    <3> SUFFICES ASSUME seq[m].previousLastBatchSequenced \in ends
                 PROVE  FALSE
      OBVIOUS
    <3>2. /\ m \in Nat /\ seq[m].previousLastBatchSequenced \in Nat
          /\ m <= seq[m].previousLastBatchSequenced
      BY <1>1, <2>2
    <3> QED BY <3>1, <3>2
  <2> QED BY <2>3, <1>3
<1>5. ASSUME NEW b \in EndsOf(seq), b > target, b \notin ends PROVE FALSE
  <2> DEFINE above == {e \in ends : b < e}
  <2>1. b \in Nat /\ b < last
    <3>1. b \in Batches /\ b # 0
      BY <1>1, <1>5 DEF EndsOf
    <3>2. b <= last /\ b # last
      BY <3>1, <1>5 DEF Chained, Walked
    <3> QED BY <3>1, <3>2, <1>1
  <2>2. above \in SUBSET Nat /\ last \in above
    BY <2>1, <1>1 DEF Walked
  <2> HIDE DEF above
  <2>3. PICK m \in above : \A k \in above : m <= k
    BY <2>2, LeastElement
  <2>4. m \in ends /\ b < m /\ m \in Nat
    BY <2>2, <2>3 DEF above
  <2> DEFINE p == seq[m].previousLastBatchSequenced
  <2>5. p < m /\ (b <= p \/ m <= b) /\ p \in ends \cup {target} /\ p \in Nat
    BY <1>1, <1>3, <2>4 DEF EndsOf
  <2>6. b <= p
    BY <2>4, <2>5, <2>1
  <2>7. p \in ends /\ b # p
    BY <2>5, <2>6, <1>5, <2>1
  <2>8. p \in above
    BY <2>1, <2>5, <2>6, <2>7 DEF above
  <2> QED BY <2>3, <2>4, <2>5, <2>8
<1>6. \A e \in ends : e > target
  BY <1>1
<1> QED BY <1>1, <1>2, <1>4, <1>5, <1>6

(***************************************************************************)
(* Without the ends above the target the chain is still one, and it ends   *)
(* at the target.                                                          *)
(***************************************************************************)
LEMMA ChainTruncate ==
    ASSUME NEW seq \in Ledger, NEW last \in Batches, NEW target \in Batches,
           target \in EndsOf(seq), Chained(seq, last), Blank(seq),
           NEW ends, \A b \in Batches : b \in ends <=> b \in EndsOf(seq) /\ b > target,
           NEW shorter,
           \A b \in Batches :
               shorter[b] = IF b \in ends THEN NoSequencedBatch ELSE seq[b]
    PROVE  /\ EndsOf(shorter) = {e \in EndsOf(seq) : e <= target}
           /\ target \in EndsOf(shorter)
           /\ Chained(shorter, target)
           /\ Blank(shorter)
<1>1. /\ \A b \in Batches : b \in Nat
      /\ 0 \in Batches /\ target \in Nat
  BY ManagerAssumption DEF Batches
<1>2. \A b \in Batches : b \in ends <=> b \in EndsOf(seq) /\ b > target
  OBVIOUS
<1>3. NoSequencedBatch \in SequencedBatchData /\ NoSequencedBatch.accInputHash = ZeroHash
  BY <1>1 DEF NoSequencedBatch, SequencedBatch, SequencedBatchData
<1>5. \A b \in Batches : shorter[b] = IF b \in ends THEN NoSequencedBatch ELSE seq[b]
  OBVIOUS
<1>6. EndsOf(shorter) = {e \in EndsOf(seq) : e <= target}
  <2>1. ASSUME NEW b \in Batches
        PROVE  b \in EndsOf(shorter) <=> b \in EndsOf(seq) /\ b <= target
    <3>1. CASE b \in ends
      <4>1. b > target
        BY <3>1, <1>2
      <4>3. b # 0 /\ ~(b <= target)
        BY <4>1, <1>1
      <4>2. shorter[b].accInputHash = ZeroHash
        BY <3>1, <1>3, <1>5
      <4> QED BY <4>2, <4>3 DEF EndsOf
    <3>2. CASE b \notin ends
      <4>1. shorter[b] = seq[b]
        BY <3>2, <1>5
      <4>2. b \in EndsOf(seq) => b <= target
        BY <3>2, <1>1, <1>2
      <4> QED BY <4>1, <4>2 DEF EndsOf
    <3> QED BY <3>1, <3>2
  <2> QED BY <2>1 DEF EndsOf
<1>7. target \in EndsOf(shorter)
  BY <1>1, <1>2, <1>6
<1>8. Blank(shorter)
  BY <1>5 DEF Blank
<1>9. ASSUME NEW b \in EndsOf(shorter) \ {0}
      PROVE  /\ b <= target
             /\ shorter[b].previousLastBatchSequenced \in EndsOf(shorter)
             /\ shorter[b].previousLastBatchSequenced < b
             /\ \A e \in EndsOf(shorter) :
                    e <= shorter[b].previousLastBatchSequenced \/ b <= e
  <2>1. b \in EndsOf(seq) \ {0} /\ b <= target /\ b \in Batches /\ b \notin ends
    <3>1. b \in EndsOf(seq) \ {0} /\ b <= target
      BY <1>6
    <3>2. b \in Batches /\ b \in Nat
      BY <3>1, <1>1 DEF EndsOf
    <3> QED BY <3>1, <3>2, <1>1, <1>2
  <2>2. shorter[b] = seq[b]
    BY <2>1, <1>5
  <2>3. /\ seq[b].previousLastBatchSequenced \in EndsOf(seq)
        /\ seq[b].previousLastBatchSequenced < b
        /\ \A e \in EndsOf(seq) : e <= seq[b].previousLastBatchSequenced \/ b <= e
    BY <2>1 DEF Chained
  <2>4. seq[b].previousLastBatchSequenced <= target
    <3>1. seq[b].previousLastBatchSequenced \in Nat /\ b \in Nat
      BY <2>1, <2>3, <1>1 DEF EndsOf
    <3> QED BY <3>1, <2>1, <2>3, <1>1
  <2> QED BY <2>1, <2>2, <2>3, <2>4, <1>6
<1> QED BY <1>6, <1>7, <1>8, <1>9 DEF Chained

-----------------------------------------------------------------------------
(* The manager. *)

(***************************************************************************)
(* The inductive invariant.  LedgerOK gathers what must hold of one        *)
(* rollup's ledger, Blank included: an entry without a hash keeps no link, *)
(* or a new sequence could meet a stale one.  StandingOK adds that a slot  *)
(* not yet given to a rollup is empty, or a new rollup would inherit it.   *)
(***************************************************************************)
LedgerOK(seq, last, verified, before, roots) ==
    /\ {last, verified, before} \subseteq EndsOf(seq)
    /\ before <= verified /\ verified <= last
    /\ Chained(seq, last)
    /\ Blank(seq)
    /\ \A b \in Batches : roots[b] # ZeroHash => b \in EndsOf(seq) /\ b <= verified

RollupLedgerOK(r) ==
    LedgerOK(sequencedBatches[r], lastBatchSequenced[r], lastVerifiedBatch[r],
             lastVerifiedBatchBeforeUpgrade[r], batchNumToStateRoot[r])

Fresh(r) ==
    /\ lastBatchSequenced[r] = 0
    /\ lastVerifiedBatch[r] = 0
    /\ lastVerifiedBatchBeforeUpgrade[r] = 0
    /\ rollupVerifierType[r] = "StateTransition"
    /\ ~isRollupMigrating[r]
    /\ \A b \in Batches : batchNumToStateRoot[r][b] = ZeroHash

Standing(r) ==
    /\ rollupVerifierType[r] = "StateTransition" =>
          batchNumToStateRoot[r][lastVerifiedBatch[r]] # ZeroHash
    /\ isRollupMigrating[r] =>
          /\ rollupVerifierType[r] # "StateTransition"
          /\ lastBatchSequenced[r] = lastVerifiedBatch[r]

StandingOK(r) ==
    /\ r \in Rollups => Standing(r)
    /\ r \notin Rollups => Fresh(r)

IInv ==
    /\ TypeOK
    /\ TotalsMatch
    /\ \A r \in RollupIDs : RollupLedgerOK(r) /\ StandingOK(r)

\* Batch numbers are natural numbers, and 0 is one.
LEMMA BatchesAreNat ==
    /\ \A b \in Batches : b \in Nat
    /\ 0 \in Batches
    /\ MaxRollups \in Nat
    /\ RollupIDs = 1..MaxRollups
BY ManagerAssumption DEF Batches, RollupIDs

\* The entries of the rollup type map are of a known type.
LEMMA TypesAreKnown ==
    ASSUME IInv, NEW t \in TypeIDs
    PROVE  t \in Nat /\ VerifierTypeOf(t) \in VerifierTypes
<1>1. rollupTypeMap \in Seq(RollupTypes) /\ t \in 1..Len(rollupTypeMap)
  BY DEF IInv, TypeOK, TypeIDs
<1>2. rollupTypeMap[t] \in RollupTypes /\ t \in Nat
  BY <1>1
<1> QED BY <1>2 DEF RollupTypes, VerifierTypeOf

\* The ids of the registered rollups are rollup ids.
LEMMA RollupsAreIDs ==
    ASSUME TypeOK
    PROVE  \A r \in Rollups : r \in RollupIDs
BY ManagerAssumption DEF Rollups, RollupIDs, TypeOK

\* The inductive invariant implies the invariants the runs check.
LEMMA InvariantsHold ==
    ASSUME IInv
    PROVE  /\ OrderedBatches
           /\ SequenceChain
           /\ StateRootsAreVerified
           /\ MigrationIsClean
<1>1. OrderedBatches
  BY DEF IInv, RollupLedgerOK, LedgerOK, OrderedBatches
<1>2. SequenceChain
  BY SequenceChainByRollup DEF IInv, RollupLedgerOK, LedgerOK
<1>3. StateRootsAreVerified
  <2>1. \A r \in RollupIDs : SequenceEnds(r) = EndsOf(sequencedBatches[r])
    BY DEF SequenceEnds, IsSequenced, EndsOf
  <2>2. \A r \in RollupIDs, b \in Batches :
            batchNumToStateRoot[r][b] # ZeroHash =>
                b \in SequenceEnds(r) /\ b <= lastVerifiedBatch[r]
    BY <2>1 DEF IInv, RollupLedgerOK, LedgerOK
  <2>3. \A r \in Rollups : r \in RollupIDs
    BY RollupsAreIDs DEF IInv
  <2>4. \A r \in Rollups : Standing(r)
    BY <2>3 DEF IInv, StandingOK
  <2> QED BY <2>2, <2>4 DEF StateRootsAreVerified, Standing
<1>4. MigrationIsClean
  BY DEF IInv, StandingOK, Standing, Fresh, MigrationIsClean
<1> QED BY <1>1, <1>2, <1>3, <1>4

(***************************************************************************)
(* Init: no rollup, no batch.                                              *)
(***************************************************************************)
LEMMA InitInvariant ==
    ASSUME Init
    PROVE  IInv
<1>1. rollupTypeMap \in Seq(RollupTypes)
  BY ManagerAssumption DEF Init, RollupTypes
<1>2. NoSequencedBatch \in SequencedBatchData /\ NoSequencedBatch.accInputHash = ZeroHash
  BY BatchesAreNat DEF NoSequencedBatch, SequencedBatch, SequencedBatchData
<1>3. TypeOK
  <2>1. sequencedBatches \in [RollupIDs -> [Batches -> SequencedBatchData]]
    BY <1>2 DEF Init
  <2>2. /\ now \in Times /\ rollupCount \in 0..MaxRollups
        /\ chainIDToRollupID \in [ChainIDs -> 0..MaxRollups]
        /\ rollupTypeID \in [RollupIDs -> Nat]
        /\ rollupVerifierType \in [RollupIDs -> VerifierTypes]
        /\ isRollupMigrating \in [RollupIDs -> BOOLEAN]
    BY ManagerAssumption DEF Init, Times, VerifierTypes
  <2>3. /\ lastBatchSequenced \in [RollupIDs -> Batches]
        /\ lastVerifiedBatch \in [RollupIDs -> Batches]
        /\ lastVerifiedBatchBeforeUpgrade \in [RollupIDs -> Batches]
        /\ batchNumToStateRoot \in [RollupIDs -> [Batches -> StateRoots \cup {ZeroHash}]]
    BY BatchesAreNat DEF Init
  <2>4. /\ lastLocalExitRoot \in [RollupIDs -> LocalExitRoots]
        /\ lastPessimisticRoot \in [RollupIDs -> PessimisticRoots \cup {ZeroHash}]
    BY ManagerAssumption DEF Init
  <2>5. /\ totalSequencedBatches \in Nat /\ totalVerifiedBatches \in Nat
        /\ lastAggregationTimestamp \in Times
        /\ lastDeactivatedEmergencyStateTimestamp \in Times
        /\ polBalance \in Nat
    BY ManagerAssumption DEF Init, Times
  <2>6. isEmergencyState \in BOOLEAN /\ batchFee \in BatchFees
    BY DEF Init
  <2> QED BY <1>1, <2>1, <2>2, <2>3, <2>4, <2>5, <2>6 DEF TypeOK
<1>4. TotalsMatch
  BY BatchesAreNat, SumToZero DEF Init, TotalsMatch
<1>5. ASSUME NEW r \in RollupIDs PROVE RollupLedgerOK(r) /\ StandingOK(r)
  <2>1. /\ sequencedBatches[r] = [b \in Batches |-> NoSequencedBatch]
        /\ lastBatchSequenced[r] = 0 /\ lastVerifiedBatch[r] = 0
        /\ lastVerifiedBatchBeforeUpgrade[r] = 0
        /\ batchNumToStateRoot[r] = [b \in Batches |-> ZeroHash]
        /\ rollupVerifierType[r] = "StateTransition" /\ ~isRollupMigrating[r]
    BY DEF Init
  <2>2. EndsOf(sequencedBatches[r]) = {0}
    BY <1>2, <2>1, BatchesAreNat DEF EndsOf
  <2>3. RollupLedgerOK(r)
    BY <2>1, <2>2, BatchesAreNat DEF RollupLedgerOK, LedgerOK, Chained, Blank
  <2>4. Fresh(r)
    BY <2>1 DEF Fresh
  <2>5. r \notin Rollups
    BY DEF Init, Rollups, RollupIDs
  <2> QED BY <2>3, <2>4, <2>5 DEF StandingOK
<1> QED BY <1>3, <1>4, <1>5 DEF IInv

-----------------------------------------------------------------------------
(* Steps that leave the ledger and the standing of every rollup alone. *)

LEMMA LedgerUntouched ==
    ASSUME IInv, TypeOK',
           UNCHANGED <<ledgerVars, rollupCount, rollupVerifierType, isRollupMigrating>>
    PROVE  IInv'
<1>1. TotalsMatch'
  BY DEF IInv, TotalsMatch, ledgerVars
<1>2. ASSUME NEW r \in RollupIDs PROVE RollupLedgerOK(r)' /\ StandingOK(r)'
  BY DEF IInv, ledgerVars, RollupLedgerOK, StandingOK, Standing, Fresh, Rollups
<1> QED BY <1>1, <1>2 DEF IInv

LEMMA AddNewRollupTypeInvariant ==
    ASSUME IInv, NEW vt \in VerifierTypes, AddNewRollupType(vt)
    PROVE  IInv'
<1>1. TypeOK'
  <2>1. rollupTypeMap' \in Seq(RollupTypes)
    BY DEF IInv, TypeOK, AddNewRollupType, RollupTypes
  <2> QED BY <2>1 DEF IInv, TypeOK, AddNewRollupType, ledgerVars, rootVars,
                      emergencyVars, polVars
<1> QED BY <1>1, LedgerUntouched DEF AddNewRollupType

LEMMA ObsoleteRollupTypeInvariant ==
    ASSUME IInv, NEW t \in TypeIDs, ObsoleteRollupType(t)
    PROVE  IInv'
<1>1. TypeOK'
  <2>1. rollupTypeMap' \in Seq(RollupTypes)
    <3>1. rollupTypeMap \in Seq(RollupTypes) /\ t \in 1..Len(rollupTypeMap)
      BY DEF IInv, TypeOK, TypeIDs
    <3> DEFINE type == [rollupTypeMap[t] EXCEPT !.obsolete = TRUE]
    <3>2. type \in RollupTypes
      <4>1. rollupTypeMap[t] \in RollupTypes
        BY <3>1
      <4> QED BY <4>1 DEF RollupTypes
    <3>3. rollupTypeMap' = [rollupTypeMap EXCEPT ![t] = type]
      BY DEF ObsoleteRollupType
    <3> HIDE DEF type
    <3> QED BY <3>1, <3>2, <3>3
  <2> QED BY <2>1 DEF IInv, TypeOK, ObsoleteRollupType, ledgerVars, rootVars,
                      emergencyVars, polVars
<1> QED BY <1>1, LedgerUntouched DEF ObsoleteRollupType

LEMMA EmergencyInvariant ==
    ASSUME IInv,
           DeactivateEmergencyState \/ \E b \in BOOLEAN : ActivateEmergencyState(b)
    PROVE  IInv'
<1>1. TypeOK'
  BY DEF IInv, TypeOK, ActivateEmergencyState, DeactivateEmergencyState,
         registryVars, ledgerVars, rootVars, polVars
<1> QED BY <1>1, LedgerUntouched
        DEF ActivateEmergencyState, DeactivateEmergencyState, registryVars

LEMMA OtherAdministrationInvariant ==
    ASSUME IInv,
           Tick \/ Bridging \/ \E fee \in BatchFees : SetBatchFee(fee)
    PROVE  IInv'
<1>1. TypeOK'
  <2>1. CASE Tick
    <3>1. now' \in Times
      BY <2>1, ManagerAssumption DEF IInv, TypeOK, Tick, Times
    <3> QED BY <2>1, <3>1 DEF IInv, TypeOK, Tick, registryVars, ledgerVars, rootVars,
                              emergencyVars, polVars
  <2>2. CASE Bridging
    BY <2>2 DEF IInv, TypeOK, Bridging, registryVars, ledgerVars, rootVars,
                emergencyVars, polVars
  <2>3. CASE \E fee \in BatchFees : SetBatchFee(fee)
    BY <2>3 DEF IInv, TypeOK, SetBatchFee, registryVars, ledgerVars, rootVars,
                emergencyVars
  <2> QED BY <2>1, <2>2, <2>3
<1> QED BY <1>1, LedgerUntouched DEF Tick, Bridging, SetBatchFee, registryVars

\* A pessimistic proof can only end a migration.
LEMMA VerifyPessimisticInvariant ==
    ASSUME IInv, NEW r \in RollupIDs, NEW n,
           NEW ler \in LocalExitRoots, NEW pp \in PessimisticRoots,
           VerifyPessimistic(r, n, ler, pp)
    PROVE  IInv'
<1>1. TypeOK'
  BY DEF IInv, TypeOK, VerifyPessimistic, ledgerVars, polVars
<1>2. TotalsMatch'
  BY DEF IInv, TotalsMatch, VerifyPessimistic, ledgerVars
<1>3. ASSUME NEW q \in RollupIDs PROVE RollupLedgerOK(q)' /\ StandingOK(q)'
  <2>1. RollupLedgerOK(q)'
    BY DEF IInv, VerifyPessimistic, ledgerVars, RollupLedgerOK
  <2>2. isRollupMigrating'[q] => isRollupMigrating[q]
    BY DEF IInv, TypeOK, VerifyPessimistic
  <2>3. StandingOK(q)'
    BY <2>2 DEF IInv, VerifyPessimistic, ledgerVars, StandingOK, Standing, Fresh, Rollups
  <2> QED BY <2>1, <2>3
<1> QED BY <1>1, <1>2, <1>3 DEF IInv

-----------------------------------------------------------------------------
(* Rollups that join. *)

\* The slot a joining rollup takes, and what the others keep.
LEMMA RegisterRollupFacts ==
    ASSUME IInv, NEW c \in ChainIDs, NEW t \in Nat,
           NEW vt \in VerifierTypes, RegisterRollup(c, t, vt)
    PROVE  /\ rollupCount + 1 \in RollupIDs
           /\ rollupCount + 1 \notin Rollups
           /\ rollupCount' = rollupCount + 1
           /\ Rollups' = Rollups \cup {rollupCount + 1}
           /\ rollupCount' \in 0..MaxRollups
           /\ chainIDToRollupID' \in [ChainIDs -> 0..MaxRollups]
           /\ rollupTypeID' \in [RollupIDs -> Nat]
           /\ rollupVerifierType' \in [RollupIDs -> VerifierTypes]
           /\ rollupVerifierType'[rollupCount + 1] = vt
           /\ \A q \in RollupIDs \ {rollupCount + 1} :
                  rollupVerifierType'[q] = rollupVerifierType[q]
           /\ Fresh(rollupCount + 1)
<1>1. rollupCount \in 0..MaxRollups /\ rollupCount < MaxRollups /\ MaxRollups \in Nat
  BY ManagerAssumption DEF IInv, TypeOK, RegisterRollup
<1>2. /\ rollupCount + 1 \in RollupIDs /\ rollupCount + 1 \notin Rollups
      /\ rollupCount + 1 \in 0..MaxRollups
      /\ rollupCount' = rollupCount + 1
  BY <1>1 DEF RollupIDs, Rollups, RegisterRollup
<1>3. Rollups' = Rollups \cup {rollupCount + 1}
  BY <1>1, <1>2 DEF Rollups
<1>4. /\ chainIDToRollupID' \in [ChainIDs -> 0..MaxRollups]
      /\ rollupTypeID' \in [RollupIDs -> Nat]
      /\ rollupVerifierType' \in [RollupIDs -> VerifierTypes]
      /\ rollupVerifierType'[rollupCount + 1] = vt
      /\ \A q \in RollupIDs \ {rollupCount + 1} :
             rollupVerifierType'[q] = rollupVerifierType[q]
  BY <1>2 DEF IInv, TypeOK, RegisterRollup
<1> QED BY <1>2, <1>3, <1>4 DEF IInv, StandingOK

(***************************************************************************)
(* A rollup whose entries of every array are left alone stays in order     *)
(* when another one moves or joins.                                        *)
(***************************************************************************)
LEMMA OtherRollup ==
    ASSUME IInv, NEW q \in RollupIDs,
           q \in Rollups' <=> q \in Rollups,
           rollupVerifierType'[q] = rollupVerifierType[q],
           isRollupMigrating'[q] = isRollupMigrating[q],
           lastBatchSequenced'[q] = lastBatchSequenced[q],
           lastVerifiedBatch'[q] = lastVerifiedBatch[q],
           lastVerifiedBatchBeforeUpgrade'[q] = lastVerifiedBatchBeforeUpgrade[q],
           sequencedBatches'[q] = sequencedBatches[q],
           batchNumToStateRoot'[q] = batchNumToStateRoot[q]
    PROVE  RollupLedgerOK(q)' /\ StandingOK(q)'
<1>1. RollupLedgerOK(q) /\ StandingOK(q)
  BY DEF IInv
<1>2. RollupLedgerOK(q)'
  BY <1>1 DEF RollupLedgerOK
<1>3. StandingOK(q)'
  BY <1>1 DEF StandingOK, Standing, Fresh
<1> QED BY <1>2, <1>3

\* What onSequenceBatches writes keeps the total and the chain.
LEMMA RecordSequenceFacts ==
    ASSUME IInv, NEW r \in RollupIDs, NEW n \in Nat \ {0},
           NEW acc \in AccInputHashes, RecordSequence(r, n, acc)
    PROVE  /\ totalSequencedBatches' \in Nat
           /\ lastBatchSequenced' \in [RollupIDs -> Batches]
           /\ sequencedBatches' \in [RollupIDs -> [Batches -> SequencedBatchData]]
           /\ totalSequencedBatches' = SumTo(lastBatchSequenced', MaxRollups)
           /\ lastBatchSequenced'[r] = lastBatchSequenced[r] + n
           /\ \A q \in RollupIDs \ {r} :
                  /\ lastBatchSequenced'[q] = lastBatchSequenced[q]
                  /\ sequencedBatches'[q] = sequencedBatches[q]
           /\ EndsOf(sequencedBatches'[r])
                  = EndsOf(sequencedBatches[r]) \cup {lastBatchSequenced'[r]}
           /\ Chained(sequencedBatches'[r], lastBatchSequenced'[r])
           /\ Blank(sequencedBatches'[r])
<1> DEFINE last == lastBatchSequenced[r]
           new == lastBatchSequenced[r] + n
           seq == sequencedBatches[r]
           longer == [seq EXCEPT ![new] = SequencedBatch(acc, last)]
<1>1. /\ seq \in Ledger /\ last \in Batches /\ last \in Nat
      /\ totalSequencedBatches \in Nat
      /\ lastBatchSequenced \in [RollupIDs -> Batches]
      /\ sequencedBatches \in [RollupIDs -> Ledger]
  BY BatchesAreNat DEF IInv, TypeOK, Ledger
<1>2. new \in Batches /\ new \in Nat /\ last < new
  BY <1>1, ManagerAssumption DEF RecordSequence, Batches
<1>3. last \in EndsOf(seq) /\ Chained(seq, last) /\ Blank(seq)
  BY DEF IInv, RollupLedgerOK, LedgerOK
<1>4. /\ longer \in Ledger
      /\ EndsOf(longer) = EndsOf(seq) \cup {new}
      /\ Chained(longer, new)
      /\ Blank(longer)
  <2>1. longer \in Ledger
    BY <1>1, <1>2, BatchesAreNat DEF Ledger, SequencedBatch, SequencedBatchData
  <2>2. \A b \in Batches :
            longer[b] = IF b = new THEN SequencedBatch(acc, last) ELSE seq[b]
    BY <1>1 DEF Ledger
  <2>3. seq \in Ledger /\ last \in Batches /\ new \in Batches /\ last < new
    BY <1>1, <1>2
  <2> HIDE DEF last, new, seq, longer
  <2> QED BY <1>3, <2>1, <2>2, <2>3, ChainAppend
<1>5. lastBatchSequenced' = [lastBatchSequenced EXCEPT ![r] = new]
  BY DEF RecordSequence
<1>6. sequencedBatches' = [sequencedBatches EXCEPT ![r] = longer]
  BY DEF RecordSequence
<1>7. /\ lastBatchSequenced' \in [RollupIDs -> Batches]
      /\ lastBatchSequenced'[r] = new
      /\ \A q \in RollupIDs \ {r} : lastBatchSequenced'[q] = lastBatchSequenced[q]
  <2> HIDE DEF new
  <2> QED BY <1>1, <1>2, <1>5
<1>8. /\ sequencedBatches' \in [RollupIDs -> Ledger]
      /\ sequencedBatches'[r] = longer
      /\ \A q \in RollupIDs \ {r} : sequencedBatches'[q] = sequencedBatches[q]
  <2> HIDE DEF longer
  <2> QED BY <1>1, <1>4, <1>6
<1>9. totalSequencedBatches' = SumTo(lastBatchSequenced', MaxRollups)
  <2>1. r \in 1..MaxRollups /\ MaxRollups \in Nat
    BY BatchesAreNat
  <2>2. SumTo(lastBatchSequenced', MaxRollups)
            = SumTo(lastBatchSequenced, MaxRollups) + new - last
    <3> HIDE DEF new
    <3>1. /\ \A i \in 1..MaxRollups :
                 lastBatchSequenced[i] \in Nat /\ lastBatchSequenced'[i] \in Nat
          /\ \A i \in 1..MaxRollups \ {r} : lastBatchSequenced'[i] = lastBatchSequenced[i]
      BY <1>1, <1>7, <2>1, BatchesAreNat
    <3>2. SumTo(lastBatchSequenced', MaxRollups)
            = SumTo(lastBatchSequenced, MaxRollups) + lastBatchSequenced'[r]
              - lastBatchSequenced[r]
      BY <2>1, <3>1, SumToExcept
    <3> QED BY <1>7, <3>2
  <2>3. totalSequencedBatches = SumTo(lastBatchSequenced, MaxRollups)
    BY DEF IInv, TotalsMatch
  <2>4. totalSequencedBatches' = totalSequencedBatches + n
    BY DEF RecordSequence
  <2> QED BY <1>1, <2>2, <2>3, <2>4
<1>10. totalSequencedBatches' \in Nat
  BY <1>1 DEF RecordSequence
<1> HIDE DEF longer
<1> QED BY <1>4, <1>7, <1>8, <1>9, <1>10 DEF Ledger

\* A new sequence leaves everything else of the ledger of its rollup in order.
LEMMA SequenceKeepsLedger ==
    ASSUME IInv, NEW r \in RollupIDs, NEW n \in Nat \ {0},
           NEW acc \in AccInputHashes, RecordSequence(r, n, acc),
           lastVerifiedBatch'[r] = lastVerifiedBatch[r],
           lastVerifiedBatchBeforeUpgrade'[r] = lastVerifiedBatchBeforeUpgrade[r],
           \A b \in Batches \ {0} : batchNumToStateRoot'[r][b] = batchNumToStateRoot[r][b],
           batchNumToStateRoot'[r][0] = batchNumToStateRoot[r][0] \/ lastVerifiedBatch[r] = 0
    PROVE  RollupLedgerOK(r)'
<1>1. /\ EndsOf(sequencedBatches'[r])
             = EndsOf(sequencedBatches[r]) \cup {lastBatchSequenced'[r]}
      /\ Chained(sequencedBatches'[r], lastBatchSequenced'[r])
      /\ Blank(sequencedBatches'[r])
      /\ lastBatchSequenced'[r] = lastBatchSequenced[r] + n
  BY RecordSequenceFacts
<1>2. LedgerOK(sequencedBatches[r], lastBatchSequenced[r], lastVerifiedBatch[r],
               lastVerifiedBatchBeforeUpgrade[r], batchNumToStateRoot[r])
  BY DEF IInv, RollupLedgerOK
<1>3. /\ lastBatchSequenced[r] \in Nat /\ lastVerifiedBatch[r] \in Nat
      /\ lastBatchSequenced[r] <= lastBatchSequenced'[r]
  BY <1>1, BatchesAreNat DEF IInv, TypeOK
<1>4. lastVerifiedBatch'[r] <= lastBatchSequenced'[r]
  BY <1>1, <1>2, <1>3 DEF LedgerOK
<1>5. 0 \in EndsOf(sequencedBatches'[r])
  BY BatchesAreNat DEF EndsOf
<1>6. \A b \in Batches : batchNumToStateRoot'[r][b] # ZeroHash =>
          b \in EndsOf(sequencedBatches'[r]) /\ b <= lastVerifiedBatch[r]
  <2> SUFFICES ASSUME NEW b \in Batches, batchNumToStateRoot'[r][b] # ZeroHash
               PROVE  b \in EndsOf(sequencedBatches'[r]) /\ b <= lastVerifiedBatch[r]
    OBVIOUS
  <2>1. CASE b = 0
    BY <2>1, <1>3, <1>5
  <2>2. CASE b # 0
    BY <2>2, <1>1, <1>2 DEF LedgerOK
  <2> QED BY <2>1, <2>2
<1> QED BY <1>1, <1>2, <1>4, <1>6 DEF LedgerOK, RollupLedgerOK

LEMMA AttachAggchainInvariant ==
    ASSUME IInv, NEW t \in TypeIDs, NEW c \in ChainIDs, NEW genesis \in StateRoots,
           NEW acc \in AccInputHashes, AttachAggchainToAL(t, c, genesis, acc)
    PROVE  IInv'
<1>1. PICK vt \in VerifierTypes : vt = VerifierTypeOf(t)
  BY TypesAreKnown
<1>2. t \in Nat /\ RegisterRollup(c, t, vt)
  BY <1>1, TypesAreKnown DEF AttachAggchainToAL
<1>3. PICK r \in RollupIDs :
      /\ r = rollupCount + 1
      /\ r \notin Rollups /\ rollupCount' = r
      /\ Rollups' = Rollups \cup {r}
      /\ rollupCount' \in 0..MaxRollups
      /\ chainIDToRollupID' \in [ChainIDs -> 0..MaxRollups]
      /\ rollupTypeID' \in [RollupIDs -> Nat]
      /\ rollupVerifierType' \in [RollupIDs -> VerifierTypes]
      /\ rollupVerifierType'[r] = vt
      /\ \A q \in RollupIDs \ {r} : rollupVerifierType'[q] = rollupVerifierType[q]
      /\ Fresh(r)
  BY <1>2, RegisterRollupFacts
<1>4. UNCHANGED <<rollupTypeMap, isRollupMigrating, now, rootVars, emergencyVars,
                  polVars>>
  BY <1>2 DEF AttachAggchainToAL, RegisterRollup
<1>5. TypeOK /\ TotalsMatch /\ RollupLedgerOK(r) /\ genesis # ZeroHash
  BY <1>3, ManagerAssumption DEF IInv
<1>6. CASE vt = "StateTransition"
  <2>1. /\ RecordSequence(r, 1, acc)
        /\ batchNumToStateRoot' = [batchNumToStateRoot EXCEPT ![r][0] = genesis]
        /\ UNCHANGED <<totalVerifiedBatches, lastVerifiedBatch,
                       lastVerifiedBatchBeforeUpgrade>>
    BY <1>1, <1>3, <1>6 DEF AttachAggchainToAL
  <2>2. /\ totalSequencedBatches' \in Nat
        /\ lastBatchSequenced' \in [RollupIDs -> Batches]
        /\ sequencedBatches' \in [RollupIDs -> [Batches -> SequencedBatchData]]
        /\ totalSequencedBatches' = SumTo(lastBatchSequenced', MaxRollups)
        /\ \A q \in RollupIDs \ {r} :
               /\ lastBatchSequenced'[q] = lastBatchSequenced[q]
               /\ sequencedBatches'[q] = sequencedBatches[q]
    BY <1>3, <2>1, RecordSequenceFacts
  <2>3. /\ batchNumToStateRoot' \in [RollupIDs -> [Batches -> StateRoots \cup {ZeroHash}]]
        /\ \A q \in RollupIDs \ {r} : batchNumToStateRoot'[q] = batchNumToStateRoot[q]
        /\ batchNumToStateRoot'[r][0] = genesis
        /\ \A b \in Batches \ {0} : batchNumToStateRoot'[r][b] = batchNumToStateRoot[r][b]
    BY <1>3, <1>5, <2>1, BatchesAreNat DEF TypeOK
  <2>4. TypeOK'
    BY <1>3, <1>4, <1>5, <2>1, <2>2, <2>3 DEF TypeOK, rootVars, emergencyVars, polVars
  <2>5. TotalsMatch'
    BY <1>5, <2>1, <2>2 DEF TotalsMatch
  <2>6. ASSUME NEW q \in RollupIDs PROVE RollupLedgerOK(q)' /\ StandingOK(q)'
    <3>1. CASE q # r
      BY <3>1, <1>3, <1>4, <2>1, <2>2, <2>3, OtherRollup
    <3>2. CASE q = r
      <4>1. lastVerifiedBatch[r] = 0 /\ ~isRollupMigrating[r]
        BY <1>3 DEF Fresh
      <4>2. RollupLedgerOK(r)'
        BY <1>3, <2>1, <2>3, <4>1, SequenceKeepsLedger
      <4>3. StandingOK(r)'
        BY <1>3, <1>4, <1>5, <2>1, <2>3, <4>1 DEF StandingOK, Standing
      <4> QED BY <3>2, <4>2, <4>3
              DEF RollupLedgerOK, StandingOK, Standing, Fresh
    <3> QED BY <3>1, <3>2
  <2> QED BY <2>4, <2>5, <2>6 DEF IInv
<1>7. CASE vt # "StateTransition"
  <2>1. UNCHANGED ledgerVars
    BY <1>1, <1>7 DEF AttachAggchainToAL
  <2>2. TypeOK'
    BY <1>3, <1>4, <1>5, <2>1 DEF TypeOK, ledgerVars, rootVars, emergencyVars, polVars
  <2>3. TotalsMatch'
    BY <1>5, <2>1 DEF TotalsMatch, ledgerVars
  <2>4. ASSUME NEW q \in RollupIDs PROVE RollupLedgerOK(q)' /\ StandingOK(q)'
    <3>1. CASE q # r
      BY <3>1, <1>3, <1>4, <2>1, OtherRollup DEF ledgerVars
    <3>2. CASE q = r
      <4>1. RollupLedgerOK(r)'
        BY <1>5, <2>1 DEF RollupLedgerOK, ledgerVars
      <4>2. StandingOK(r)'
        BY <1>3, <1>4, <1>7 DEF StandingOK, Standing, Fresh
      <4> QED BY <3>2, <4>1, <4>2
              DEF RollupLedgerOK, StandingOK, Standing, Fresh
    <3> QED BY <3>1, <3>2
  <2> QED BY <2>2, <2>3, <2>4 DEF IInv
<1> QED BY <1>6, <1>7

LEMMA AddExistingRollupInvariant ==
    ASSUME IInv, NEW c \in ChainIDs, NEW vt \in VerifierTypes, NEW genesis \in StateRoots,
           NEW ler \in LocalExitRoots, NEW pp \in PessimisticRoots \cup {ZeroHash},
           AddExistingRollup(c, vt, genesis, ler, pp)
    PROVE  IInv'
<1>1. RegisterRollup(c, 0, vt)
  BY DEF AddExistingRollup
<1>2. PICK r \in RollupIDs :
      /\ r = rollupCount + 1
      /\ r \notin Rollups
      /\ Rollups' = Rollups \cup {r}
      /\ rollupCount' \in 0..MaxRollups
      /\ chainIDToRollupID' \in [ChainIDs -> 0..MaxRollups]
      /\ rollupTypeID' \in [RollupIDs -> Nat]
      /\ rollupVerifierType' \in [RollupIDs -> VerifierTypes]
      /\ rollupVerifierType'[r] = vt
      /\ \A q \in RollupIDs \ {r} : rollupVerifierType'[q] = rollupVerifierType[q]
      /\ Fresh(r)
  <2>1. 0 \in Nat
    OBVIOUS
  <2> QED BY <1>1, <2>1, RegisterRollupFacts
<1>3. UNCHANGED <<rollupTypeMap, isRollupMigrating, now, totalSequencedBatches,
                  totalVerifiedBatches, lastBatchSequenced, lastVerifiedBatch,
                  lastVerifiedBatchBeforeUpgrade, sequencedBatches,
                  emergencyVars, polVars>>
  BY <1>1 DEF AddExistingRollup, RegisterRollup
<1>4. TypeOK /\ TotalsMatch /\ RollupLedgerOK(r) /\ genesis # ZeroHash
  BY ManagerAssumption DEF IInv
<1>5. TotalsMatch'
  BY <1>3, <1>4 DEF TotalsMatch
<1>6. CASE vt = "StateTransition"
  <2>1. /\ batchNumToStateRoot' = [batchNumToStateRoot EXCEPT ![r][0] = genesis]
        /\ UNCHANGED rootVars
    BY <1>2, <1>6 DEF AddExistingRollup
  <2>2. /\ batchNumToStateRoot' \in [RollupIDs -> [Batches -> StateRoots \cup {ZeroHash}]]
        /\ \A q \in RollupIDs \ {r} : batchNumToStateRoot'[q] = batchNumToStateRoot[q]
        /\ batchNumToStateRoot'[r][0] = genesis
        /\ \A b \in Batches \ {0} : batchNumToStateRoot'[r][b] = batchNumToStateRoot[r][b]
    BY <1>2, <1>4, <2>1, BatchesAreNat DEF TypeOK
  <2>3. TypeOK'
    BY <1>2, <1>3, <1>4, <2>1, <2>2 DEF TypeOK, rootVars, emergencyVars, polVars
  <2>4. ASSUME NEW q \in RollupIDs PROVE RollupLedgerOK(q)' /\ StandingOK(q)'
    <3>1. CASE q # r
      BY <3>1, <1>2, <1>3, <2>1, <2>2, OtherRollup
    <3>2. CASE q = r
      <4>1. lastVerifiedBatch[r] = 0 /\ ~isRollupMigrating[r]
        BY <1>2 DEF Fresh
      <4>2. RollupLedgerOK(r)'
        <5>1. 0 \in EndsOf(sequencedBatches[r]) /\ 0 <= 0
          BY BatchesAreNat DEF EndsOf
        <5>2. \A b \in Batches : batchNumToStateRoot'[r][b] # ZeroHash =>
                  b \in EndsOf(sequencedBatches[r]) /\ b <= lastVerifiedBatch[r]
          BY <1>2, <2>2, <4>1, <5>1 DEF Fresh
        <5> QED BY <1>3, <1>4, <5>2 DEF RollupLedgerOK, LedgerOK
      <4>3. StandingOK(r)'
        BY <1>2, <1>3, <1>4, <2>2, <4>1 DEF StandingOK, Standing
      <4> QED BY <3>2, <4>2, <4>3
              DEF RollupLedgerOK, StandingOK, Standing, Fresh
    <3> QED BY <3>1, <3>2
  <2> QED BY <2>3, <1>5, <2>4 DEF IInv
<1>7. CASE vt # "StateTransition"
  <2>1. /\ lastLocalExitRoot' = [lastLocalExitRoot EXCEPT ![r] = ler]
        /\ lastPessimisticRoot' = [lastPessimisticRoot EXCEPT ![r] = pp]
        /\ UNCHANGED batchNumToStateRoot
    BY <1>2, <1>7 DEF AddExistingRollup
  <2>2. TypeOK'
    BY <1>2, <1>3, <1>4, <2>1 DEF TypeOK, emergencyVars, polVars
  <2>3. ASSUME NEW q \in RollupIDs PROVE RollupLedgerOK(q)' /\ StandingOK(q)'
    <3>1. CASE q # r
      BY <3>1, <1>2, <1>3, <2>1, OtherRollup
    <3>2. CASE q = r
      <4>1. RollupLedgerOK(r)'
        BY <1>3, <1>4, <2>1 DEF RollupLedgerOK
      <4>2. StandingOK(r)'
        BY <1>2, <1>3, <1>7 DEF StandingOK, Standing, Fresh
      <4> QED BY <3>2, <4>1, <4>2
              DEF RollupLedgerOK, StandingOK, Standing, Fresh
    <3> QED BY <3>1, <3>2
  <2> QED BY <2>2, <1>5, <2>3 DEF IInv
<1> QED BY <1>6, <1>7

-----------------------------------------------------------------------------
(* Upgrades and migration. *)

(***************************************************************************)
(* A switch of type keeps the invariant when the new type is not a way     *)
(* back to StateTransition and a migration starts with nothing pending.    *)
(***************************************************************************)
LEMMA SwitchTypeInvariant ==
    ASSUME IInv, NEW r \in Rollups, NEW t \in TypeIDs, SwitchType(r, t),
           \/ VerifierTypeOf(t) = rollupVerifierType[r]
           \/ VerifierTypeOf(t) # "StateTransition",
           \/ UNCHANGED isRollupMigrating
           \/ /\ isRollupMigrating' = [isRollupMigrating EXCEPT ![r] = TRUE]
              /\ VerifierTypeOf(t) # "StateTransition"
              /\ AllSequencedVerified(r)
    PROVE  IInv'
<1>1. /\ r \in RollupIDs /\ t \in Nat /\ VerifierTypeOf(t) \in VerifierTypes
      /\ TypeOK /\ TotalsMatch
  <2>1. TypeOK /\ TotalsMatch
    BY DEF IInv
  <2>2. r \in RollupIDs
    BY <2>1, RollupsAreIDs
  <2> QED BY <2>1, <2>2, TypesAreKnown
<1>2. /\ UNCHANGED <<now, rollupTypeMap, rollupCount, chainIDToRollupID,
                     totalSequencedBatches, totalVerifiedBatches,
                     lastBatchSequenced, lastVerifiedBatch, sequencedBatches,
                     batchNumToStateRoot, rootVars, emergencyVars, polVars>>
      /\ Rollups' = Rollups
  BY DEF SwitchType, Rollups
<1>3. /\ rollupTypeID' \in [RollupIDs -> Nat]
      /\ rollupVerifierType' \in [RollupIDs -> VerifierTypes]
      /\ rollupVerifierType'[r] = VerifierTypeOf(t)
      /\ lastVerifiedBatchBeforeUpgrade' \in [RollupIDs -> Batches]
      /\ lastVerifiedBatchBeforeUpgrade'[r] = lastVerifiedBatch[r]
      /\ \A q \in RollupIDs \ {r} :
             /\ rollupVerifierType'[q] = rollupVerifierType[q]
             /\ lastVerifiedBatchBeforeUpgrade'[q] = lastVerifiedBatchBeforeUpgrade[q]
  BY <1>1 DEF SwitchType, TypeOK
<1>4. /\ isRollupMigrating' \in [RollupIDs -> BOOLEAN]
      /\ \A q \in RollupIDs \ {r} : isRollupMigrating'[q] = isRollupMigrating[q]
      /\ \/ isRollupMigrating'[r] = isRollupMigrating[r]
         \/ VerifierTypeOf(t) # "StateTransition" /\ AllSequencedVerified(r)
  BY <1>1 DEF TypeOK
<1>5. TypeOK'
  BY <1>1, <1>2, <1>3, <1>4 DEF TypeOK, rootVars, emergencyVars, polVars
<1>6. TotalsMatch'
  BY <1>1, <1>2 DEF TotalsMatch
<1>7. ASSUME NEW q \in RollupIDs PROVE RollupLedgerOK(q)' /\ StandingOK(q)'
  <2>1. CASE q # r
    BY <2>1, <1>2, <1>3, <1>4, OtherRollup
  <2>2. CASE q = r
    <3>1. RollupLedgerOK(r) /\ Standing(r)
      BY <1>1 DEF IInv, StandingOK
    <3>2. RollupLedgerOK(r)'
      <4>1. lastVerifiedBatch[r] <= lastVerifiedBatch[r]
        BY <1>1, BatchesAreNat DEF TypeOK
      <4> QED BY <1>2, <1>3, <3>1, <4>1 DEF RollupLedgerOK, LedgerOK
    <3>3. StandingOK(r)'
      BY <1>2, <1>3, <1>4, <3>1 DEF StandingOK, Standing, AllSequencedVerified
    <3> QED BY <2>2, <3>2, <3>3
            DEF RollupLedgerOK, StandingOK, Standing, Fresh
  <2> QED BY <2>1, <2>2
<1> QED BY <1>5, <1>6, <1>7 DEF IInv

LEMMA UpgradeInvariant ==
    ASSUME IInv, NEW r \in Rollups, NEW t \in TypeIDs,
           \/ UpdateRollupByRollupAdmin(r, t)
           \/ UpdateRollup(r, t)
           \/ InitMigration(r, t)
    PROVE  IInv'
<1>1. CASE UpdateRollupByRollupAdmin(r, t)
  BY <1>1, SwitchTypeInvariant DEF UpdateRollupByRollupAdmin
<1>2. CASE UpdateRollup(r, t)
  BY <1>2, SwitchTypeInvariant DEF UpdateRollup
<1>3. CASE InitMigration(r, t)
  BY <1>3, SwitchTypeInvariant DEF InitMigration
<1> QED BY <1>1, <1>2, <1>3

-----------------------------------------------------------------------------
(* Sequencing, rollback and verification. *)

LEMMA ConsensusSequencesInvariant ==
    ASSUME IInv, NEW r \in Rollups, NEW n \in Batches, NEW acc \in AccInputHashes,
           NEW payment \in 0..MaxPOL, ConsensusSequences(r, n, acc, payment)
    PROVE  IInv'
<1>1. /\ r \in RollupIDs /\ n \in Nat \ {0}
      /\ RecordSequence(r, n, acc)
      /\ TypeOK /\ TotalsMatch
  <2>1. TypeOK /\ TotalsMatch
    BY DEF IInv
  <2>2. n # 0 /\ RecordSequence(r, n, acc)
    BY DEF ConsensusSequences, ReportBatches, OnSequenceBatches
  <2> QED BY <2>1, <2>2, RollupsAreIDs, BatchesAreNat
<1>2. UNCHANGED <<now, registryVars, rootVars, emergencyVars, batchFee,
                  totalVerifiedBatches, lastVerifiedBatch,
                  lastVerifiedBatchBeforeUpgrade, batchNumToStateRoot>>
  BY DEF ConsensusSequences, ReportBatches, OnSequenceBatches
<1>3. polBalance' \in Nat
  <2>1. polBalance' = polBalance + payment
    BY DEF ConsensusSequences, ReportBatches
  <2>2. polBalance \in Nat /\ payment \in Nat
    BY <1>1, ManagerAssumption DEF TypeOK
  <2> QED BY <2>1, <2>2
<1>4. /\ totalSequencedBatches' \in Nat
      /\ lastBatchSequenced' \in [RollupIDs -> Batches]
      /\ sequencedBatches' \in [RollupIDs -> [Batches -> SequencedBatchData]]
      /\ totalSequencedBatches' = SumTo(lastBatchSequenced', MaxRollups)
      /\ \A q \in RollupIDs \ {r} :
             /\ lastBatchSequenced'[q] = lastBatchSequenced[q]
             /\ sequencedBatches'[q] = sequencedBatches[q]
  BY <1>1, RecordSequenceFacts
<1>5. TypeOK'
  BY <1>1, <1>2, <1>3, <1>4 DEF TypeOK, registryVars, rootVars, emergencyVars
<1>6. TotalsMatch'
  BY <1>1, <1>2, <1>4 DEF TotalsMatch
<1>7. Rollups' = Rollups
  BY <1>2 DEF Rollups, registryVars
<1>8. ASSUME NEW q \in RollupIDs PROVE RollupLedgerOK(q)' /\ StandingOK(q)'
  <2>1. CASE q # r
    BY <2>1, <1>2, <1>4, <1>7, OtherRollup DEF registryVars
  <2>2. CASE q = r
    <3>1. RollupLedgerOK(r)'
      BY <1>1, <1>2, SequenceKeepsLedger
    <3>2. rollupVerifierType[r] = "StateTransition" /\ Standing(r)
      BY <1>1 DEF ConsensusSequences, ReportBatches, OnSequenceBatches, IInv, StandingOK
    <3>3. StandingOK(r)'
      BY <1>2, <1>7, <3>2 DEF StandingOK, Standing, registryVars
    <3> QED BY <2>2, <3>1, <3>3
            DEF RollupLedgerOK, StandingOK, Standing, Fresh
  <2> QED BY <2>1, <2>2
<1> QED BY <1>5, <1>6, <1>8 DEF IInv

(***************************************************************************)
(* A rollback ends at an end of the chain and takes off exactly the ends   *)
(* above it: the loop of rollbackBatches skips none.                       *)
(***************************************************************************)
LEMMA RollbackFacts ==
    ASSUME IInv, NEW r \in Rollups, NEW target \in Batches, RollbackBatches(r, target)
    PROVE  /\ r \in RollupIDs
           /\ target < lastBatchSequenced[r] /\ lastVerifiedBatch[r] <= target
           /\ sequencedBatches' \in [RollupIDs -> Ledger]
           /\ EndsOf(sequencedBatches'[r])
                  = {e \in EndsOf(sequencedBatches[r]) : e <= target}
           /\ target \in EndsOf(sequencedBatches[r])
           /\ target \in EndsOf(sequencedBatches'[r])
           /\ \A b \in Batches : b <= target =>
                  sequencedBatches'[r][b] = sequencedBatches[r][b]
           /\ Chained(sequencedBatches'[r], target)
           /\ Blank(sequencedBatches'[r])
           /\ lastBatchSequenced' \in [RollupIDs -> Batches]
           /\ lastBatchSequenced'[r] = target
           /\ \A q \in RollupIDs \ {r} :
                  /\ sequencedBatches'[q] = sequencedBatches[q]
                  /\ lastBatchSequenced'[q] = lastBatchSequenced[q]
<1>1. /\ r \in RollupIDs /\ TypeOK /\ TotalsMatch
      /\ target < lastBatchSequenced[r] /\ lastVerifiedBatch[r] <= target
      /\ rollupVerifierType[r] = "StateTransition"
  <2>1. r \in RollupIDs /\ TypeOK /\ TotalsMatch
    BY ManagerAssumption DEF IInv, TypeOK, Rollups, RollupIDs
  <2>2. lastVerifiedBatch[r] \in Nat /\ target \in Nat
    BY <2>1, BatchesAreNat DEF TypeOK
  <2> QED BY <2>1, <2>2 DEF RollbackBatches, RollbackTarget
<1>2. PICK ends \in SUBSET (target + 1 .. lastBatchSequenced[r]) :
          /\ WalkedBack(r, target, ends)
          /\ sequencedBatches' = [sequencedBatches EXCEPT ![r] =
                 [b \in Batches |-> IF b \in ends THEN NoSequencedBatch
                                                  ELSE sequencedBatches[r][b]]]
  BY DEF RollbackBatches
<1>3. PICK last \in Batches, seq \in Ledger :
          last = lastBatchSequenced[r] /\ seq = sequencedBatches[r]
  BY <1>1 DEF TypeOK, Ledger
<1>4. LedgerOK(seq, last, lastVerifiedBatch[r], lastVerifiedBatchBeforeUpgrade[r],
               batchNumToStateRoot[r])
  BY <1>1, <1>3 DEF IInv, RollupLedgerOK
<1>5. target \in EndsOf(seq) /\ \A b \in Batches : b \in ends <=> b \in EndsOf(seq) /\ b > target
  <2>1. Walked(seq, last, target, ends)
    BY <1>2, <1>3 DEF WalkedBack, Walked
  <2>2. ends \in SUBSET (target + 1 .. last) /\ target < last
    BY <1>1, <1>2, <1>3
  <2>3. last \in EndsOf(seq) /\ Chained(seq, last) /\ Blank(seq)
    BY <1>4 DEF LedgerOK
  <2> QED BY <2>1, <2>2, <2>3, WalkFindsEnds
<1>6. /\ sequencedBatches' \in [RollupIDs -> Ledger]
      /\ \A b \in Batches : sequencedBatches'[r][b] =
             IF b \in ends THEN NoSequencedBatch ELSE seq[b]
      /\ \A q \in RollupIDs \ {r} : sequencedBatches'[q] = sequencedBatches[q]
  <2>1. NoSequencedBatch \in SequencedBatchData
    BY BatchesAreNat DEF NoSequencedBatch, SequencedBatch, SequencedBatchData
  <2>2. sequencedBatches \in [RollupIDs -> Ledger]
    BY <1>1 DEF TypeOK, Ledger
  <2> DEFINE shorter == [b \in Batches |-> IF b \in ends THEN NoSequencedBatch
                                                         ELSE seq[b]]
  <2>3. shorter \in Ledger
    BY <2>1 DEF Ledger
  <2>4. \A b \in Batches : shorter[b] = IF b \in ends THEN NoSequencedBatch ELSE seq[b]
    OBVIOUS
  <2>5. sequencedBatches' = [sequencedBatches EXCEPT ![r] = shorter]
    BY <1>2, <1>3
  <2> HIDE DEF shorter
  <2> QED BY <1>1, <2>2, <2>3, <2>4, <2>5
<1>7. /\ EndsOf(sequencedBatches'[r]) = {e \in EndsOf(seq) : e <= target}
      /\ target \in EndsOf(sequencedBatches'[r])
      /\ Chained(sequencedBatches'[r], target)
      /\ Blank(sequencedBatches'[r])
  <2>1. Chained(seq, last) /\ Blank(seq)
    BY <1>4 DEF LedgerOK
  <2>2. PICK shorter, gone :
          /\ shorter = sequencedBatches'[r]
          /\ \A b \in Batches : b \in gone <=> b \in EndsOf(seq) /\ b > target
          /\ \A b \in Batches : shorter[b] =
                 IF b \in gone THEN NoSequencedBatch ELSE seq[b]
    BY <1>5, <1>6
  <2>3. /\ EndsOf(shorter) = {e \in EndsOf(seq) : e <= target}
        /\ target \in EndsOf(shorter)
        /\ Chained(shorter, target)
        /\ Blank(shorter)
    BY <1>5, <2>1, <2>2, ChainTruncate
  <2> QED BY <2>2, <2>3
<1>8. /\ lastBatchSequenced' \in [RollupIDs -> Batches]
      /\ lastBatchSequenced'[r] = target
      /\ \A q \in RollupIDs \ {r} : lastBatchSequenced'[q] = lastBatchSequenced[q]
  BY <1>1 DEF RollbackBatches, TypeOK
<1>9. \A b \in Batches : b <= target => b \notin ends
  BY BatchesAreNat
<1>10. \A b \in Batches : b <= target => sequencedBatches'[r][b] = sequencedBatches[r][b]
  BY <1>3, <1>6, <1>9
<1> QED BY <1>1, <1>3, <1>5, <1>6, <1>7, <1>8, <1>10

(***************************************************************************)
(* A rollback ends at an end of the chain at or above the last verified    *)
(* batch, so that no root, link or upgrade mark is left without its batch. *)
(***************************************************************************)
LEMMA RollbackBatchesInvariant ==
    ASSUME IInv, NEW r \in Rollups, NEW target \in Batches, RollbackBatches(r, target)
    PROVE  IInv'
<1>1. /\ r \in RollupIDs /\ TypeOK /\ TotalsMatch
      /\ target < lastBatchSequenced[r] /\ lastVerifiedBatch[r] <= target
      /\ rollupVerifierType[r] = "StateTransition"
  <2>1. r \in RollupIDs /\ TypeOK /\ TotalsMatch
    BY ManagerAssumption DEF IInv, TypeOK, Rollups, RollupIDs
  <2>2. lastVerifiedBatch[r] \in Nat /\ target \in Nat
    BY <2>1, BatchesAreNat DEF TypeOK
  <2> QED BY <2>1, <2>2 DEF RollbackBatches, RollbackTarget
<1>2. UNCHANGED <<now, registryVars, totalVerifiedBatches, lastVerifiedBatch,
                  lastVerifiedBatchBeforeUpgrade, batchNumToStateRoot, rootVars,
                  emergencyVars, polVars>>
  BY DEF RollbackBatches
<1>3. /\ sequencedBatches' \in [RollupIDs -> Ledger]
      /\ EndsOf(sequencedBatches'[r]) = {e \in EndsOf(sequencedBatches[r]) : e <= target}
      /\ target \in EndsOf(sequencedBatches'[r])
      /\ Chained(sequencedBatches'[r], target)
      /\ Blank(sequencedBatches'[r])
      /\ lastBatchSequenced' \in [RollupIDs -> Batches]
      /\ lastBatchSequenced'[r] = target
      /\ \A q \in RollupIDs \ {r} :
             /\ sequencedBatches'[q] = sequencedBatches[q]
             /\ lastBatchSequenced'[q] = lastBatchSequenced[q]
  BY RollbackFacts
<1>4. LedgerOK(sequencedBatches[r], lastBatchSequenced[r], lastVerifiedBatch[r],
               lastVerifiedBatchBeforeUpgrade[r], batchNumToStateRoot[r])
  BY <1>1 DEF IInv, RollupLedgerOK
<1>5. totalSequencedBatches' = SumTo(lastBatchSequenced', MaxRollups)
       /\ totalSequencedBatches' \in Nat
  <2>1. /\ MaxRollups \in Nat /\ r \in 1..MaxRollups
        /\ \A i \in 1..MaxRollups :
               lastBatchSequenced[i] \in Nat /\ lastBatchSequenced'[i] \in Nat
        /\ \A i \in 1..MaxRollups \ {r} : lastBatchSequenced'[i] = lastBatchSequenced[i]
    BY <1>1, <1>3, BatchesAreNat DEF TypeOK
  <2>2. SumTo(lastBatchSequenced', MaxRollups)
            = SumTo(lastBatchSequenced, MaxRollups) + lastBatchSequenced'[r]
              - lastBatchSequenced[r]
    BY <2>1, SumToExcept
  <2>3. SumTo(lastBatchSequenced', MaxRollups) \in Nat
    BY <2>1, SumToNat
  <2>4. totalSequencedBatches
            = SumTo(lastBatchSequenced, MaxRollups) /\ totalSequencedBatches \in Nat
    BY <1>1 DEF TotalsMatch, TypeOK
  <2>5. totalSequencedBatches' = totalSequencedBatches - (lastBatchSequenced[r] - target)
    BY DEF RollbackBatches, BatchesRolledBack
  <2>6. target \in Nat /\ lastBatchSequenced[r] \in Nat
    BY <2>1, BatchesAreNat
  <2> QED BY <1>3, <2>2, <2>3, <2>4, <2>5, <2>6
<1>6. TypeOK'
  BY <1>1, <1>2, <1>3, <1>5
     DEF TypeOK, Ledger, registryVars, rootVars, emergencyVars, polVars
<1>7. TotalsMatch'
  BY <1>1, <1>2, <1>5 DEF TotalsMatch
<1>8. Rollups' = Rollups
  BY <1>2 DEF Rollups, registryVars
<1>9. ASSUME NEW q \in RollupIDs PROVE RollupLedgerOK(q)' /\ StandingOK(q)'
  <2>1. CASE q # r
    BY <2>1, <1>2, <1>3, <1>8, OtherRollup DEF registryVars
  <2>2. CASE q = r
    <3>1. /\ lastVerifiedBatch[r] \in Nat /\ target \in Nat
          /\ lastVerifiedBatchBeforeUpgrade[r] \in Nat
      BY <1>1, BatchesAreNat DEF TypeOK
    <3>2. lastVerifiedBatchBeforeUpgrade[r] <= target
      BY <1>1, <1>4, <3>1 DEF LedgerOK
    <3>3. \A b \in Batches : batchNumToStateRoot[r][b] # ZeroHash =>
              b \in EndsOf(sequencedBatches[r]) /\ b <= lastVerifiedBatch[r] /\ b <= target
      <4>1. \A b \in Batches : b <= lastVerifiedBatch[r] => b <= target
        BY <1>1, <3>1, BatchesAreNat
      <4> QED BY <1>4, <4>1 DEF LedgerOK
    <3>4. RollupLedgerOK(r)'
      BY <1>1, <1>2, <1>4, <1>3, <3>2, <3>3 DEF RollupLedgerOK, LedgerOK
    <3>5. Standing(r)
      BY <1>1 DEF IInv, StandingOK
    <3>6. StandingOK(r)'
      BY <1>1, <1>2, <1>8, <3>5 DEF StandingOK, Standing, registryVars
    <3> QED BY <2>2, <3>4, <3>6
            DEF RollupLedgerOK, StandingOK, Standing, Fresh
  <2> QED BY <2>1, <2>2
<1> QED BY <1>6, <1>7, <1>9 DEF IInv

\* calculateRewardPerBatch pays no more than the balance for any part of the
\* batches to verify.
LEMMA DivisionCovers ==
    ASSUME NEW pol \in Nat, NEW pending \in Nat \ {0}, NEW k \in 0..pending
    PROVE  pol \div pending \in Nat /\ (pol \div pending) * k <= pol
<1> DEFINE q == pol \div pending
<1>1. q \in Nat /\ q * pending <= pol
  OBVIOUS
<1> HIDE DEF q
<1>2. q * k <= q * pending
  BY <1>1
<1>3. q * k \in Nat /\ q * pending \in Nat
  BY <1>1
<1> QED BY <1>1, <1>2, <1>3 DEF q

\* The reward per batch is a natural number.
LEMMA RewardPerBatchIsNat ==
    ASSUME TypeOK, totalVerifiedBatches <= totalSequencedBatches
    PROVE  RewardPerBatch \in Nat
<1>1. /\ polBalance \in Nat /\ BatchesToVerify \in Nat
  BY DEF TypeOK, BatchesToVerify
<1>2. CASE BatchesToVerify = 0
  BY <1>2 DEF RewardPerBatch
<1>3. CASE BatchesToVerify # 0
  BY <1>1, <1>3, DivisionCovers DEF RewardPerBatch
<1> QED BY <1>2, <1>3

(***************************************************************************)
(* The new last verified batch is an end of the chain, above the last one  *)
(* and not above the last sequenced one; only a registered rollup has a    *)
(* root to start from.                                                     *)
(***************************************************************************)
LEMMA VerifiableBatch ==
    ASSUME IInv, NEW r \in RollupIDs, NEW init \in Batches, NEW final \in Batches,
           CanVerify(r, init, final)
    PROVE  /\ r \in Rollups
           /\ final \in EndsOf(sequencedBatches[r])
           /\ lastVerifiedBatch[r] < final
           /\ final <= lastBatchSequenced[r]
<1>1. LedgerOK(sequencedBatches[r], lastBatchSequenced[r], lastVerifiedBatch[r],
               lastVerifiedBatchBeforeUpgrade[r], batchNumToStateRoot[r])
  BY DEF IInv, RollupLedgerOK
<1>2. lastVerifiedBatch[r] \in Nat /\ final \in Nat
  BY BatchesAreNat DEF IInv, TypeOK
<1>3. lastVerifiedBatch[r] < final
  BY <1>2 DEF CanVerify
<1>4. final \in EndsOf(sequencedBatches[r]) \ {0}
  BY <1>2, <1>3 DEF CanVerify, IsSequenced, EndsOf
<1>5. r \in Rollups
  BY DEF IInv, StandingOK, Fresh, CanVerify
<1> QED BY <1>1, <1>3, <1>4, <1>5 DEF LedgerOK, Chained

LEMMA VerifyBatchesInvariant ==
    ASSUME IInv, NEW r \in RollupIDs, NEW init \in Batches, NEW final \in Batches,
           NEW ler \in LocalExitRoots, NEW root \in StateRoots,
           VerifyBatches(r, init, final, ler, root)
    PROVE  IInv'
<1>1. /\ r \in Rollups
      /\ final \in EndsOf(sequencedBatches[r])
      /\ lastVerifiedBatch[r] < final /\ final <= lastBatchSequenced[r]
      /\ TypeOK /\ TotalsMatch
      /\ lastVerifiedBatch[r] \in Nat /\ final \in Nat
      /\ rollupVerifierType[r] = "StateTransition"
      /\ root # ZeroHash
  <2>1. CanVerify(r, init, final)
    BY DEF VerifyBatches
  <2>2. TypeOK /\ TotalsMatch
    BY DEF IInv
  <2> QED BY <2>1, <2>2, VerifiableBatch, BatchesAreNat, ManagerAssumption
          DEF CanVerify, TypeOK
<1>2. UNCHANGED <<now, registryVars, totalSequencedBatches, lastBatchSequenced,
                  lastVerifiedBatchBeforeUpgrade, sequencedBatches,
                  lastPessimisticRoot, isEmergencyState,
                  lastDeactivatedEmergencyStateTimestamp, batchFee>>
  BY DEF VerifyBatches
<1>3. /\ lastVerifiedBatch' \in [RollupIDs -> Batches]
      /\ lastVerifiedBatch'[r] = final
      /\ \A q \in RollupIDs \ {r} : lastVerifiedBatch'[q] = lastVerifiedBatch[q]
  BY <1>1 DEF VerifyBatches, TypeOK
<1>4. /\ batchNumToStateRoot' \in [RollupIDs -> [Batches -> StateRoots \cup {ZeroHash}]]
      /\ batchNumToStateRoot'[r][final] = root
      /\ \A b \in Batches \ {final} :
             batchNumToStateRoot'[r][b] = batchNumToStateRoot[r][b]
      /\ \A q \in RollupIDs \ {r} : batchNumToStateRoot'[q] = batchNumToStateRoot[q]
  BY <1>1 DEF VerifyBatches, TypeOK
<1>5. polBalance' \in Nat
  <2>1. RewardPerBatch \in Nat
    BY <1>1, RewardPerBatchIsNat DEF VerifyBatches
  <2>2. Reward(r, final) \in Int
    BY <1>1, <2>1 DEF Reward
  <2>3. /\ polBalance \in Nat /\ Reward(r, final) <= polBalance
        /\ polBalance' = polBalance - Reward(r, final)
    BY <1>1 DEF VerifyBatches, TypeOK
  <2> QED BY <2>2, <2>3
<1>6. /\ totalVerifiedBatches' = SumTo(lastVerifiedBatch', MaxRollups)
      /\ totalVerifiedBatches' \in Nat
  <2>1. /\ MaxRollups \in Nat /\ r \in 1..MaxRollups
        /\ \A i \in 1..MaxRollups :
               lastVerifiedBatch[i] \in Nat /\ lastVerifiedBatch'[i] \in Nat
        /\ \A i \in 1..MaxRollups \ {r} : lastVerifiedBatch'[i] = lastVerifiedBatch[i]
    BY <1>1, <1>3, BatchesAreNat DEF TypeOK
  <2>2. SumTo(lastVerifiedBatch', MaxRollups)
            = SumTo(lastVerifiedBatch, MaxRollups) + lastVerifiedBatch'[r]
              - lastVerifiedBatch[r]
    BY <2>1, SumToExcept
  <2>3. SumTo(lastVerifiedBatch', MaxRollups) \in Nat
    BY <2>1, SumToNat
  <2>4. totalVerifiedBatches = SumTo(lastVerifiedBatch, MaxRollups)
        /\ totalVerifiedBatches \in Nat
    BY <1>1 DEF TotalsMatch, TypeOK
  <2>5. totalVerifiedBatches' = totalVerifiedBatches + (final - lastVerifiedBatch[r])
    BY DEF VerifyBatches
  <2> QED BY <1>1, <1>3, <2>2, <2>3, <2>4, <2>5
<1>7. TypeOK'
  <2>1. lastLocalExitRoot' \in [RollupIDs -> LocalExitRoots]
    BY <1>1 DEF VerifyBatches, TypeOK
  <2>2. lastAggregationTimestamp' \in Times
    BY <1>1 DEF VerifyBatches, TypeOK
  <2> QED BY <1>1, <1>2, <1>3, <1>4, <1>5, <1>6, <2>1, <2>2 DEF TypeOK, registryVars
<1>8. TotalsMatch'
  BY <1>1, <1>2, <1>6 DEF TotalsMatch
<1>9. Rollups' = Rollups
  BY <1>2 DEF Rollups, registryVars
<1>10. ASSUME NEW q \in RollupIDs PROVE RollupLedgerOK(q)' /\ StandingOK(q)'
  <2>1. CASE q # r
    BY <2>1, <1>2, <1>3, <1>4, <1>9, OtherRollup DEF registryVars
  <2>2. CASE q = r
    <3>1. RollupLedgerOK(r) /\ Standing(r)
      BY <1>1 DEF IInv, StandingOK
    <3>2. /\ lastVerifiedBatchBeforeUpgrade[r] <= final
          /\ \A b \in Batches : b <= lastVerifiedBatch[r] => b <= final
          /\ final <= final
      <4>1. /\ lastVerifiedBatchBeforeUpgrade[r] \in Nat
            /\ lastVerifiedBatchBeforeUpgrade[r] <= lastVerifiedBatch[r]
        BY <1>1, <3>1, BatchesAreNat DEF TypeOK, RollupLedgerOK, LedgerOK
      <4> QED BY <1>1, <4>1, BatchesAreNat
    <3>3. \A b \in Batches : batchNumToStateRoot'[r][b] # ZeroHash =>
              b \in EndsOf(sequencedBatches[r]) /\ b <= final
      BY <1>1, <1>4, <3>1, <3>2 DEF RollupLedgerOK, LedgerOK
    <3>4. RollupLedgerOK(r)'
      BY <1>1, <1>2, <1>3, <3>1, <3>2, <3>3 DEF RollupLedgerOK, LedgerOK
    <3>5. ~isRollupMigrating[r]
      BY <1>1, <3>1 DEF Standing
    <3>6. StandingOK(r)'
      BY <1>1, <1>2, <1>3, <1>4, <1>9, <3>5 DEF StandingOK, Standing, registryVars
    <3> QED BY <2>2, <3>4, <3>6
            DEF RollupLedgerOK, StandingOK, Standing, Fresh
  <2> QED BY <2>1, <2>2
<1> QED BY <1>7, <1>8, <1>10 DEF IInv

-----------------------------------------------------------------------------
(* The theorems. *)

\* Every step of the manager keeps the inductive invariant.
LEMMA NextInvariant ==
    ASSUME IInv, [Next]_managerVars
    PROVE  IInv'
<1>1. CASE UNCHANGED managerVars
  <2>1. UNCHANGED <<now, registryVars, ledgerVars, rootVars, emergencyVars, polVars>>
    BY <1>1 DEF managerVars
  <2>2. TypeOK'
    BY <2>1 DEF IInv, TypeOK, registryVars, ledgerVars, rootVars, emergencyVars, polVars
  <2> QED BY <2>1, <2>2, LedgerUntouched DEF registryVars
<1>2. CASE Administration
  BY <1>2, AddNewRollupTypeInvariant, ObsoleteRollupTypeInvariant, EmergencyInvariant,
     OtherAdministrationInvariant, UpgradeInvariant DEF Administration
<1>3. CASE PessimisticVerification
  BY <1>3, VerifyPessimisticInvariant DEF PessimisticVerification
<1>4. ASSUME NEW t \in TypeIDs, NEW c \in ChainIDs, NEW root \in StateRoots,
             NEW acc \in AccInputHashes, AttachAggchainToAL(t, c, root, acc)
      PROVE  IInv'
  BY <1>4, AttachAggchainInvariant
<1>5. ASSUME NEW c \in ChainIDs, NEW vt \in VerifierTypes, NEW root \in StateRoots,
             NEW ler \in LocalExitRoots, NEW pp \in PessimisticRoots \cup {ZeroHash},
             AddExistingRollup(c, vt, root, ler, pp)
      PROVE  IInv'
  BY <1>5, AddExistingRollupInvariant
<1>6. ASSUME NEW r \in Rollups, NEW n \in Batches, NEW acc \in AccInputHashes,
             NEW payment \in 0..MaxPOL, ConsensusSequences(r, n, acc, payment)
      PROVE  IInv'
  BY <1>6, ConsensusSequencesInvariant
<1>7. ASSUME NEW r \in Rollups, NEW target \in Batches, RollbackBatches(r, target)
      PROVE  IInv'
  BY <1>7, RollbackBatchesInvariant
<1>8. ASSUME NEW r \in RollupIDs, NEW init \in Batches, NEW final \in Batches,
             NEW ler \in LocalExitRoots, NEW root \in StateRoots,
             VerifyBatches(r, init, final, ler, root)
      PROVE  IInv'
  BY <1>8, VerifyBatchesInvariant
<1> QED BY <1>1, <1>2, <1>3, <1>4, <1>5, <1>6, <1>7, <1>8 DEF Next

\* The inductive invariant holds of every behaviour of the manager.
THEOREM InductiveInvariant == Spec => []IInv
<1>1. Init => IInv
  BY InitInvariant
<1>2. IInv /\ [Next]_managerVars => IInv'
  BY NextInvariant
<1> QED BY <1>1, <1>2, PTL DEF Spec

\* Every variable of the manager holds a value of its Solidity type.
THEOREM TypeCorrect == Spec => []TypeOK
<1>1. IInv => TypeOK
  BY DEF IInv
<1> QED BY <1>1, InductiveInvariant, PTL

(***************************************************************************)
(* The totals the reward is computed from stay the sums over the rollups   *)
(* (onSequenceBatches, rollbackBatches, _verifyAndRewardBatches).          *)
(***************************************************************************)
THEOREM TotalsCorrect == Spec => []TotalsMatch
<1>1. IInv => TotalsMatch
  BY DEF IInv
<1> QED BY <1>1, InductiveInvariant, PTL

(***************************************************************************)
(* No verified batch is without its sequence: verified batches are ends of *)
(* the stored chain, and state roots are those of verified ends.           *)
(***************************************************************************)
THEOREM LedgerCorrect == Spec => [](OrderedBatches /\ LedgerIsSound)
<1>1. IInv => OrderedBatches /\ LedgerIsSound
  BY InvariantsHold DEF LedgerIsSound
<1> QED BY <1>1, InductiveInvariant, PTL

(***************************************************************************)
(* A migrating rollup has left StateTransition with nothing pending, until *)
(* its bootstrap certificate is proved, whatever upgrades and rollbacks    *)
(* come in between (initMigration, verifyPessimisticTrustedAggregator).    *)
(***************************************************************************)
THEOREM MigrationStaysClean == Spec => []MigrationIsClean
<1>1. IInv => MigrationIsClean
  BY InvariantsHold
<1> QED BY <1>1, InductiveInvariant, PTL

(***************************************************************************)
(* The aggregator is never stuck: the pending batches of a state           *)
(* transition rollup can be verified and their reward is covered, whatever *)
(* was rolled back, upgraded or verified before.                           *)
(***************************************************************************)
THEOREM AggregatorIsNeverStuck == Spec => []AggregatorNeverStuck
<1>1. ASSUME IInv, NEW r \in Rollups, rollupVerifierType[r] = "StateTransition",
             ~AllSequencedVerified(r)
      PROVE  /\ CanVerify(r, lastVerifiedBatch[r], lastBatchSequenced[r])
             /\ totalVerifiedBatches <= totalSequencedBatches
             /\ Reward(r, lastBatchSequenced[r]) <= polBalance
  <2>1. /\ r \in RollupIDs /\ TypeOK /\ TotalsMatch
        /\ RollupLedgerOK(r) /\ Standing(r)
    BY <1>1, ManagerAssumption DEF IInv, StandingOK, TypeOK, Rollups, RollupIDs
  <2>2. /\ MaxRollups \in Nat /\ r \in 1..MaxRollups
        /\ \A i \in 1..MaxRollups :
               /\ lastVerifiedBatch[i] \in Nat /\ lastBatchSequenced[i] \in Nat
               /\ lastVerifiedBatch[i] <= lastBatchSequenced[i]
        /\ lastVerifiedBatchBeforeUpgrade[r] \in Nat
    BY <1>1, <2>1, BatchesAreNat DEF IInv, TypeOK, RollupLedgerOK, LedgerOK
  <2>3. /\ lastVerifiedBatch[r] \in EndsOf(sequencedBatches[r])
        /\ lastBatchSequenced[r] \in EndsOf(sequencedBatches[r])
        /\ lastVerifiedBatchBeforeUpgrade[r] <= lastVerifiedBatch[r]
    BY <2>1 DEF RollupLedgerOK, LedgerOK
  <2>4. lastVerifiedBatch[r] < lastBatchSequenced[r] /\ lastBatchSequenced[r] # 0
    BY <1>1, <2>2 DEF AllSequencedVerified
  <2>5. CanVerify(r, lastVerifiedBatch[r], lastBatchSequenced[r])
    BY <1>1, <2>1, <2>2, <2>3, <2>4 DEF CanVerify, IsSequenced, EndsOf, Standing
  <2>6. lastBatchSequenced[r] - lastVerifiedBatch[r]
            <= SumTo(lastBatchSequenced, MaxRollups) - SumTo(lastVerifiedBatch, MaxRollups)
    BY <2>2, SumToGap
  <2>7. /\ totalSequencedBatches = SumTo(lastBatchSequenced, MaxRollups)
        /\ totalVerifiedBatches = SumTo(lastVerifiedBatch, MaxRollups)
        /\ totalSequencedBatches \in Nat /\ totalVerifiedBatches \in Nat
        /\ polBalance \in Nat
    BY <2>1 DEF TotalsMatch, TypeOK
  <2>8. /\ BatchesToVerify \in Nat \ {0}
        /\ lastBatchSequenced[r] - lastVerifiedBatch[r] \in 0..BatchesToVerify
        /\ totalVerifiedBatches <= totalSequencedBatches
    BY <2>2, <2>4, <2>6, <2>7 DEF BatchesToVerify
  <2>9. Reward(r, lastBatchSequenced[r]) <= polBalance
    BY <2>7, <2>8, DivisionCovers DEF Reward, RewardPerBatch
  <2> QED BY <2>5, <2>8, <2>9
<1>2. IInv => AggregatorNeverStuck
  BY <1>1 DEF AggregatorNeverStuck
<1> QED BY <1>2, InductiveInvariant, PTL

-----------------------------------------------------------------------------
(* What a step of the manager may never do. *)

\* The steps that write to the ledger of some rollup.
LedgerStep ==
    \/ \E t \in TypeIDs, c \in ChainIDs, root \in StateRoots, acc \in AccInputHashes :
          AttachAggchainToAL(t, c, root, acc)
    \/ \E c \in ChainIDs, vt \in VerifierTypes, root \in StateRoots,
          ler \in LocalExitRoots, pp \in PessimisticRoots \cup {ZeroHash} :
          AddExistingRollup(c, vt, root, ler, pp)
    \/ \E r \in Rollups, n \in Batches, acc \in AccInputHashes, payment \in 0..MaxPOL :
          ConsensusSequences(r, n, acc, payment)
    \/ \E r \in Rollups, target \in Batches : RollbackBatches(r, target)
    \/ \E r \in RollupIDs, init, final \in Batches, ler \in LocalExitRoots,
          root \in StateRoots : VerifyBatches(r, init, final, ler, root)

LEMMA OtherStepsKeepLedger ==
    ASSUME Next, ~LedgerStep
    PROVE  UNCHANGED <<lastBatchSequenced, lastVerifiedBatch, sequencedBatches,
                       batchNumToStateRoot>>
<1>1. CASE Administration
  BY <1>1 DEF Administration, AddNewRollupType, ObsoleteRollupType,
     UpdateRollupByRollupAdmin, UpdateRollup, InitMigration, SwitchType,
     ActivateEmergencyState, DeactivateEmergencyState, SetBatchFee, Tick, Bridging,
     ledgerVars
<1>2. CASE PessimisticVerification
  BY <1>2 DEF PessimisticVerification, VerifyPessimistic, ledgerVars
<1> QED BY <1>1, <1>2 DEF Next, LedgerStep

\* What one rollup has verified does not change.
KeptVerified(r) ==
    /\ lastVerifiedBatch'[r] >= lastVerifiedBatch[r]
    /\ \A b \in Batches :
          /\ batchNumToStateRoot[r][b] # ZeroHash =>
                batchNumToStateRoot'[r][b] = batchNumToStateRoot[r][b]
          /\ b <= lastVerifiedBatch[r] =>
                sequencedBatches'[r][b] = sequencedBatches[r][b]

\* A rollup whose arrays stay as they are keeps what it has verified.
LEMMA UntouchedKeepsVerified ==
    ASSUME IInv, NEW q \in RollupIDs,
           lastVerifiedBatch'[q] = lastVerifiedBatch[q],
           sequencedBatches'[q] = sequencedBatches[q],
           batchNumToStateRoot'[q] = batchNumToStateRoot[q]
    PROVE  KeptVerified(q)
<1>1. lastVerifiedBatch[q] \in Nat
  BY BatchesAreNat DEF IInv, TypeOK
<1> QED BY <1>1 DEF KeptVerified

\* A sequence is written above the last sequenced batch, hence above the verified ones.
LEMMA RecordSequenceAbove ==
    ASSUME IInv, NEW r \in RollupIDs, NEW n \in Nat \ {0}, NEW acc \in AccInputHashes,
           RecordSequence(r, n, acc), NEW q \in RollupIDs, NEW b \in Batches,
           b <= lastVerifiedBatch[q]
    PROVE  sequencedBatches'[q][b] = sequencedBatches[q][b]
<1>1. /\ lastBatchSequenced[r] \in Nat /\ lastVerifiedBatch[q] \in Nat /\ b \in Nat
      /\ sequencedBatches \in [RollupIDs -> [Batches -> SequencedBatchData]]
  BY BatchesAreNat DEF IInv, TypeOK
<1>2. PICK new : /\ new = lastBatchSequenced[r] + n
                 /\ sequencedBatches' = [sequencedBatches EXCEPT
                        ![r][new] = SequencedBatch(acc, lastBatchSequenced[r])]
  BY DEF RecordSequence
<1>3. CASE q = r
  <2>1. lastVerifiedBatch[r] <= lastBatchSequenced[r]
    BY DEF IInv, RollupLedgerOK, LedgerOK
  <2>2. new = lastBatchSequenced[r] + n
    BY <1>2
  <2>3. b # new
    BY <1>1, <1>3, <2>1, <2>2
  <2> QED BY <1>1, <1>2, <1>3, <2>3
<1>4. CASE q # r
  BY <1>1, <1>2, <1>4
<1> QED BY <1>3, <1>4

(***************************************************************************)
(* What was verified is final: no step lowers lastVerifiedBatch, changes a *)
(* stored state root or touches the sequences up to the last verified one; *)
(* rollbackBatches stops above them and a joining rollup finds no roots.   *)
(***************************************************************************)
THEOREM VerificationIsFinal == Spec => VerifiedIsFinal
<1>1. ASSUME IInv, Next, NEW q \in RollupIDs PROVE KeptVerified(q)
  <2>1. CASE ~LedgerStep
    BY <1>1, <2>1, OtherStepsKeepLedger, UntouchedKeepsVerified
  <2>2. ASSUME NEW t \in TypeIDs, NEW c \in ChainIDs, NEW root \in StateRoots,
               NEW acc \in AccInputHashes, AttachAggchainToAL(t, c, root, acc)
        PROVE  KeptVerified(q)
    <3>1. CASE VerifierTypeOf(t) # "StateTransition"
      BY <1>1, <2>2, <3>1, UntouchedKeepsVerified DEF AttachAggchainToAL, ledgerVars
    <3>2. CASE VerifierTypeOf(t) = "StateTransition"
      <4>1. PICK r \in RollupIDs : r = rollupCount + 1 /\ Fresh(r)
        BY <1>1, <2>2, TypesAreKnown, RegisterRollupFacts DEF AttachAggchainToAL
      <4>2. /\ RecordSequence(r, 1, acc)
            /\ batchNumToStateRoot' = [batchNumToStateRoot EXCEPT ![r][0] = root]
            /\ UNCHANGED lastVerifiedBatch
        BY <2>2, <3>2, <4>1 DEF AttachAggchainToAL
      <4>3. \A b \in Batches : b <= lastVerifiedBatch[q] =>
                sequencedBatches'[q][b] = sequencedBatches[q][b]
        BY <1>1, <4>2, RecordSequenceAbove
      <4>4. /\ lastVerifiedBatch[q] \in Nat
            /\ batchNumToStateRoot \in [RollupIDs -> [Batches -> StateRoots \cup {ZeroHash}]]
        BY <1>1, BatchesAreNat DEF IInv, TypeOK
      <4>5. \A b \in Batches : batchNumToStateRoot[q][b] # ZeroHash =>
                batchNumToStateRoot'[q][b] = batchNumToStateRoot[q][b]
        BY <4>1, <4>2, <4>4 DEF Fresh
      <4> QED BY <4>2, <4>3, <4>4, <4>5 DEF KeptVerified
    <3> QED BY <3>1, <3>2
  <2>3. ASSUME NEW c \in ChainIDs, NEW vt \in VerifierTypes, NEW root \in StateRoots,
               NEW ler \in LocalExitRoots, NEW pp \in PessimisticRoots \cup {ZeroHash},
               AddExistingRollup(c, vt, root, ler, pp)
        PROVE  KeptVerified(q)
    <3>1. UNCHANGED <<lastVerifiedBatch, sequencedBatches>>
      BY <2>3 DEF AddExistingRollup
    <3>2. CASE vt # "StateTransition"
      BY <1>1, <2>3, <3>1, <3>2, UntouchedKeepsVerified DEF AddExistingRollup
    <3>3. CASE vt = "StateTransition"
      <4>1. PICK r \in RollupIDs : r = rollupCount + 1 /\ Fresh(r)
        <5>1. 0 \in Nat /\ RegisterRollup(c, 0, vt)
          BY <2>3 DEF AddExistingRollup
        <5> QED BY <1>1, <5>1, RegisterRollupFacts
      <4>2. batchNumToStateRoot' = [batchNumToStateRoot EXCEPT ![r][0] = root]
        BY <2>3, <3>3, <4>1 DEF AddExistingRollup
      <4>3. /\ lastVerifiedBatch[q] \in Nat
            /\ batchNumToStateRoot \in [RollupIDs -> [Batches -> StateRoots \cup {ZeroHash}]]
        BY <1>1, BatchesAreNat DEF IInv, TypeOK
      <4>4. \A b \in Batches : batchNumToStateRoot[q][b] # ZeroHash =>
                batchNumToStateRoot'[q][b] = batchNumToStateRoot[q][b]
        BY <4>1, <4>2, <4>3 DEF Fresh
      <4> QED BY <3>1, <4>3, <4>4 DEF KeptVerified
    <3> QED BY <3>2, <3>3
  <2>4. ASSUME NEW r \in Rollups, NEW n \in Batches, NEW acc \in AccInputHashes,
               NEW payment \in 0..MaxPOL, ConsensusSequences(r, n, acc, payment)
        PROVE  KeptVerified(q)
    <3>1. /\ RecordSequence(r, n, acc) /\ n \in Nat \ {0}
          /\ UNCHANGED <<lastVerifiedBatch, batchNumToStateRoot>>
      BY <2>4, BatchesAreNat DEF ConsensusSequences, ReportBatches, OnSequenceBatches
    <3>2. r \in RollupIDs
      BY <1>1, RollupsAreIDs DEF IInv
    <3>3. \A b \in Batches : b <= lastVerifiedBatch[q] =>
              sequencedBatches'[q][b] = sequencedBatches[q][b]
      BY <1>1, <3>1, <3>2, RecordSequenceAbove
    <3>4. lastVerifiedBatch'[q] >= lastVerifiedBatch[q]
      <4>1. lastVerifiedBatch[q] \in Nat
        BY <1>1, BatchesAreNat DEF IInv, TypeOK
      <4>2. UNCHANGED lastVerifiedBatch
        BY <3>1
      <4> QED BY <4>1, <4>2
    <3>5. UNCHANGED batchNumToStateRoot
      BY <3>1
    <3> QED BY <3>3, <3>4, <3>5 DEF KeptVerified
  <2>5. ASSUME NEW r \in Rollups, NEW target \in Batches, RollbackBatches(r, target)
        PROVE  KeptVerified(q)
    <3>1. /\ UNCHANGED <<lastVerifiedBatch, batchNumToStateRoot>>
          /\ lastVerifiedBatch[r] <= target
      <4>1. lastVerifiedBatch[r] \in Nat /\ target \in Nat
        <5>1. r \in RollupIDs
          BY <1>1, RollupsAreIDs DEF IInv
        <5> QED BY <1>1, <5>1, BatchesAreNat DEF IInv, TypeOK
      <4>2. UNCHANGED <<lastVerifiedBatch, batchNumToStateRoot>>
        BY <2>5 DEF RollbackBatches
      <4>3. target >= lastVerifiedBatch[r]
        BY <2>5 DEF RollbackBatches, RollbackTarget
      <4> QED BY <4>1, <4>2, <4>3
    <3>2. PICK ends \in SUBSET (target + 1 .. lastBatchSequenced[r]) :
              sequencedBatches' = [sequencedBatches EXCEPT ![r] =
                  [b \in Batches |-> IF b \in ends THEN NoSequencedBatch
                                                   ELSE sequencedBatches[r][b]]]
      BY <2>5 DEF RollbackBatches
    <3>3. /\ lastVerifiedBatch[q] \in Nat /\ target \in Nat
          /\ sequencedBatches \in [RollupIDs -> [Batches -> SequencedBatchData]]
      BY <1>1, BatchesAreNat DEF IInv, TypeOK
    <3>4. ASSUME NEW b \in Batches, b <= lastVerifiedBatch[q]
          PROVE  sequencedBatches'[q][b] = sequencedBatches[q][b]
      <4>1. CASE q # r
        BY <3>2, <3>3, <4>1
      <4>2. CASE q = r
        <5>1. b \in Nat /\ b <= target
          BY <3>1, <3>3, <3>4, <4>2, BatchesAreNat
        <5>2. b \notin ends
          BY <5>1, <3>3
        <5> QED BY <3>2, <3>3, <4>2, <5>2
      <4> QED BY <4>1, <4>2
    <3> QED BY <3>1, <3>3, <3>4 DEF KeptVerified
  <2>6. ASSUME NEW r \in RollupIDs, NEW init \in Batches, NEW final \in Batches,
               NEW ler \in LocalExitRoots, NEW root \in StateRoots,
               VerifyBatches(r, init, final, ler, root)
        PROVE  KeptVerified(q)
    <3>1. /\ UNCHANGED sequencedBatches
          /\ lastVerifiedBatch' = [lastVerifiedBatch EXCEPT ![r] = final]
          /\ batchNumToStateRoot' = [batchNumToStateRoot EXCEPT ![r][final] = root]
          /\ lastVerifiedBatch[r] < final
      BY <1>1, <2>6, VerifiableBatch DEF VerifyBatches
    <3>2. /\ lastVerifiedBatch \in [RollupIDs -> Batches] /\ final \in Nat
          /\ lastVerifiedBatch[q] \in Nat /\ lastVerifiedBatch[r] \in Nat
          /\ batchNumToStateRoot \in [RollupIDs -> [Batches -> StateRoots \cup {ZeroHash}]]
      BY <1>1, BatchesAreNat DEF IInv, TypeOK
    <3>3. lastVerifiedBatch'[q] >= lastVerifiedBatch[q]
      BY <3>1, <3>2
    <3>4. batchNumToStateRoot[r][final] = ZeroHash
      <4>1. batchNumToStateRoot[r][final] # ZeroHash => final <= lastVerifiedBatch[r]
        BY <1>1 DEF IInv, RollupLedgerOK, LedgerOK
      <4> QED BY <4>1, <3>1, <3>2
    <3>5. \A b \in Batches : batchNumToStateRoot[q][b] # ZeroHash =>
              batchNumToStateRoot'[q][b] = batchNumToStateRoot[q][b]
      BY <3>1, <3>2, <3>4
    <3> QED BY <3>1, <3>3, <3>5 DEF KeptVerified
  <2> QED BY <2>1, <2>2, <2>3, <2>4, <2>5, <2>6 DEF LedgerStep
<1>2. ASSUME IInv, [Next]_managerVars
      PROVE  [\A r \in RollupIDs : KeptVerified(r)]_managerVars
  BY <1>1, <1>2
<1>3. Spec => [][\A r \in RollupIDs : KeptVerified(r)]_managerVars
  BY <1>2, InductiveInvariant, PTL DEF Spec
<1> QED BY <1>3 DEF VerifiedIsFinal, KeptVerified

(***************************************************************************)
(* A rollup that left StateTransition never returns to it and its ledger   *)
(* never moves again: _updateRollup, initMigration, onSequenceBatches,     *)
(* rollbackBatches and the verification all check the verifier type.       *)
(***************************************************************************)
Frozen(r) ==
    rollupVerifierType[r] # "StateTransition" =>
        /\ rollupVerifierType'[r] # "StateTransition"
        /\ lastBatchSequenced'[r] = lastBatchSequenced[r]
        /\ lastVerifiedBatch'[r] = lastVerifiedBatch[r]
        /\ sequencedBatches'[r] = sequencedBatches[r]

\* Only a switch of type changes the verifier type of a registered rollup.
LEMMA SwitchKeepsFrozen ==
    ASSUME IInv, NEW r \in Rollups, NEW t \in TypeIDs, NEW q \in Rollups,
           \/ UpdateRollupByRollupAdmin(r, t)
           \/ UpdateRollup(r, t)
           \/ InitMigration(r, t)
    PROVE  Frozen(q)
<1>1. /\ SwitchType(r, t)
      /\ \/ VerifierTypeOf(t) = rollupVerifierType[r]
         \/ VerifierTypeOf(t) # "StateTransition"
  BY DEF UpdateRollupByRollupAdmin, UpdateRollup, InitMigration
<1>2. /\ rollupVerifierType' = [rollupVerifierType EXCEPT ![r] = VerifierTypeOf(t)]
      /\ UNCHANGED <<lastBatchSequenced, lastVerifiedBatch, sequencedBatches>>
  BY <1>1 DEF SwitchType
<1>3. q \in RollupIDs /\ rollupVerifierType \in [RollupIDs -> VerifierTypes]
  BY RollupsAreIDs DEF IInv, TypeOK
<1> QED BY <1>1, <1>2, <1>3 DEF Frozen

THEOREM NoReturnToBatches == Spec => NoWayBackToBatches
<1>1. ASSUME IInv, Next, NEW q \in Rollups PROVE Frozen(q)
  <2>1. /\ q \in RollupIDs /\ TypeOK
        /\ q # rollupCount + 1
    BY <1>1, RollupsAreIDs DEF IInv, Rollups, TypeOK
  <2>2. ASSUME NEW r \in Rollups, NEW t \in TypeIDs,
               \/ UpdateRollupByRollupAdmin(r, t)
               \/ UpdateRollup(r, t)
               \/ InitMigration(r, t)
        PROVE  Frozen(q)
    BY <1>1, <2>2, SwitchKeepsFrozen
  <2>3. CASE Administration
    <3>1. CASE UNCHANGED <<rollupVerifierType, lastBatchSequenced, lastVerifiedBatch,
                           sequencedBatches>>
      BY <3>1 DEF Frozen
    <3>2. \/ UNCHANGED <<rollupVerifierType, lastBatchSequenced, lastVerifiedBatch,
                         sequencedBatches>>
          \/ \E r \in Rollups, t \in TypeIDs :
                \/ UpdateRollupByRollupAdmin(r, t)
                \/ UpdateRollup(r, t)
                \/ InitMigration(r, t)
      BY <2>3 DEF Administration, AddNewRollupType, ObsoleteRollupType,
         ActivateEmergencyState, DeactivateEmergencyState, SetBatchFee, Tick, Bridging,
         ledgerVars, registryVars
    <3> QED BY <2>2, <3>1, <3>2
  <2>4. CASE PessimisticVerification
    BY <2>4 DEF PessimisticVerification, VerifyPessimistic, ledgerVars, Frozen
  <2>5. ASSUME NEW t \in TypeIDs, NEW c \in ChainIDs, NEW root \in StateRoots,
               NEW acc \in AccInputHashes, AttachAggchainToAL(t, c, root, acc)
        PROVE  Frozen(q)
    <3>1. rollupVerifierType'[q] = rollupVerifierType[q]
      BY <1>1, <2>1, <2>5, TypesAreKnown, RegisterRollupFacts DEF AttachAggchainToAL
    <3>2. CASE VerifierTypeOf(t) # "StateTransition"
      BY <2>5, <3>1, <3>2 DEF AttachAggchainToAL, ledgerVars, Frozen
    <3>3. CASE VerifierTypeOf(t) = "StateTransition"
      <4>1. RecordSequence(rollupCount + 1, 1, acc) /\ UNCHANGED lastVerifiedBatch
        BY <2>5, <3>3 DEF AttachAggchainToAL
      <4>2. /\ lastBatchSequenced'[q] = lastBatchSequenced[q]
            /\ sequencedBatches'[q] = sequencedBatches[q]
        BY <2>1, <4>1 DEF RecordSequence, TypeOK
      <4> QED BY <3>1, <4>1, <4>2 DEF Frozen
    <3> QED BY <3>2, <3>3
  <2>6. ASSUME NEW c \in ChainIDs, NEW vt \in VerifierTypes, NEW root \in StateRoots,
               NEW ler \in LocalExitRoots, NEW pp \in PessimisticRoots \cup {ZeroHash},
               AddExistingRollup(c, vt, root, ler, pp)
        PROVE  Frozen(q)
    <3>1. 0 \in Nat /\ RegisterRollup(c, 0, vt)
      BY <2>6 DEF AddExistingRollup
    <3>2. rollupVerifierType'[q] = rollupVerifierType[q]
      BY <1>1, <2>1, <3>1, RegisterRollupFacts
    <3>3. UNCHANGED <<lastBatchSequenced, lastVerifiedBatch, sequencedBatches>>
      BY <2>6 DEF AddExistingRollup
    <3> QED BY <3>2, <3>3 DEF Frozen
  <2>7. ASSUME NEW r \in Rollups, NEW n \in Batches, NEW acc \in AccInputHashes,
               NEW payment \in 0..MaxPOL, ConsensusSequences(r, n, acc, payment)
        PROVE  Frozen(q)
    <3>1. /\ rollupVerifierType[r] = "StateTransition" /\ RecordSequence(r, n, acc)
          /\ UNCHANGED <<rollupVerifierType, lastVerifiedBatch>>
      BY <2>7 DEF ConsensusSequences, ReportBatches, OnSequenceBatches, registryVars
    <3>2. CASE q = r
      BY <3>1, <3>2 DEF Frozen
    <3>3. CASE q # r
      BY <2>1, <3>1, <3>3 DEF RecordSequence, TypeOK, Frozen
    <3> QED BY <3>2, <3>3
  <2>8. ASSUME NEW r \in Rollups, NEW target \in Batches, RollbackBatches(r, target)
        PROVE  Frozen(q)
    <3>1. /\ rollupVerifierType[r] = "StateTransition"
          /\ UNCHANGED <<rollupVerifierType, lastVerifiedBatch>>
          /\ lastBatchSequenced' = [lastBatchSequenced EXCEPT ![r] = target]
          /\ \E shorter : sequencedBatches' = [sequencedBatches EXCEPT ![r] = shorter]
      BY <2>8 DEF RollbackBatches, registryVars
    <3>2. CASE q = r
      BY <3>1, <3>2 DEF Frozen
    <3>3. CASE q # r
      BY <2>1, <3>1, <3>3 DEF TypeOK, Frozen
    <3> QED BY <3>2, <3>3
  <2>9. ASSUME NEW r \in RollupIDs, NEW init \in Batches, NEW final \in Batches,
               NEW ler \in LocalExitRoots, NEW root \in StateRoots,
               VerifyBatches(r, init, final, ler, root)
        PROVE  Frozen(q)
    <3>1. /\ rollupVerifierType[r] = "StateTransition"
          /\ UNCHANGED <<rollupVerifierType, lastBatchSequenced, sequencedBatches>>
          /\ lastVerifiedBatch' = [lastVerifiedBatch EXCEPT ![r] = final]
      BY <2>9 DEF VerifyBatches, CanVerify, registryVars
    <3>2. CASE q = r
      BY <3>1, <3>2 DEF Frozen
    <3>3. CASE q # r
      BY <2>1, <3>1, <3>3 DEF TypeOK, Frozen
    <3> QED BY <3>2, <3>3
  <2> QED BY <1>1, <2>3, <2>4, <2>5, <2>6, <2>7, <2>8, <2>9 DEF Next
<1>2. ASSUME IInv, [Next]_managerVars
      PROVE  [\A r \in Rollups : Frozen(r)]_managerVars
  BY <1>1, <1>2
<1>3. Spec => [][\A r \in Rollups : Frozen(r)]_managerVars
  BY <1>2, InductiveInvariant, PTL DEF Spec
<1> QED BY <1>3 DEF NoWayBackToBatches, Frozen

-----------------------------------------------------------------------------
\* The exits of one rollup survive its migration.
KeptExits(r) ==
    isRollupMigrating[r] =>
        \/ isRollupMigrating'[r] /\ lastLocalExitRoot'[r] = lastLocalExitRoot[r]
        \/ /\ ~isRollupMigrating'[r] /\ rollupTypeID'[r] = rollupTypeID[r]
           /\ lastLocalExitRoot'[r] = IF lastLocalExitRoot[r] = ZeroHash THEN EmptyTreeRoot
                                                                       ELSE lastLocalExitRoot[r]

(***************************************************************************)
(* A migration loses no exit: verifyPessimisticTrustedAggregator lets the  *)
(* bootstrap certificate prove the local exit root the rollup already has, *)
(* and no other step, an upgrade above all, writes the root of a migrating *)
(* rollup or ends its migration.                                           *)
(***************************************************************************)
THEOREM MigrationKeepsLocalExitRoot == Spec => MigrationKeepsExits
<1>1. ASSUME IInv, Next, NEW q \in RollupIDs PROVE KeptExits(q)
  <2>0. /\ lastLocalExitRoot \in [RollupIDs -> LocalExitRoots]
        /\ isRollupMigrating \in [RollupIDs -> BOOLEAN]
    BY <1>1 DEF IInv, TypeOK
  <2>1. CASE /\ UNCHANGED lastLocalExitRoot
             /\ \/ UNCHANGED isRollupMigrating
                \/ \E r \in RollupIDs :
                       isRollupMigrating' = [isRollupMigrating EXCEPT ![r] = TRUE]
    BY <2>0, <2>1 DEF KeptExits
  <2>2. CASE PessimisticVerification
    <3>1. PICK r \in RollupIDs, ler \in LocalExitRoots :
             /\ ProvesBootstrap(r, ler)
             /\ isRollupMigrating' = [isRollupMigrating EXCEPT ![r] = FALSE]
             /\ lastLocalExitRoot' = [lastLocalExitRoot EXCEPT ![r] = ler]
             /\ rollupTypeID' = rollupTypeID
      BY <2>2 DEF PessimisticVerification, VerifyPessimistic
    <3>3. CASE q # r
      BY <2>0, <3>1, <3>3 DEF KeptExits
    <3>4. CASE q = r
      <4>1. lastLocalExitRoot'[q] = ler /\ ~isRollupMigrating'[q]
        BY <2>0, <3>1, <3>4
      <4>2. isRollupMigrating[q] =>
               ler = IF lastLocalExitRoot[q] = ZeroHash THEN EmptyTreeRoot
                                                        ELSE lastLocalExitRoot[q]
        BY <3>1, <3>4 DEF ProvesBootstrap, BootstrapExitRoot
      <4> QED BY <3>1, <4>1, <4>2 DEF KeptExits
    <3> QED BY <3>3, <3>4
  <2>3. ASSUME NEW c \in ChainIDs, NEW vt \in VerifierTypes, NEW root \in StateRoots,
               NEW ler \in LocalExitRoots, NEW pp \in PessimisticRoots \cup {ZeroHash},
               AddExistingRollup(c, vt, root, ler, pp)
        PROVE  KeptExits(q)
    <3>1. Fresh(rollupCount + 1)
      <4>1. 0 \in Nat /\ RegisterRollup(c, 0, vt)
        BY <2>3 DEF AddExistingRollup
      <4> QED BY <1>1, <4>1, RegisterRollupFacts
    <3>2. \/ UNCHANGED lastLocalExitRoot
          \/ lastLocalExitRoot' = [lastLocalExitRoot EXCEPT ![rollupCount + 1] = ler]
      BY <2>3 DEF AddExistingRollup, rootVars
    <3>3. UNCHANGED isRollupMigrating
      BY <2>3 DEF AddExistingRollup, RegisterRollup
    <3> QED BY <2>0, <3>1, <3>2, <3>3 DEF KeptExits, Fresh
  <2>4. ASSUME NEW r \in RollupIDs, NEW init \in Batches, NEW final \in Batches,
               NEW ler \in LocalExitRoots, NEW root \in StateRoots,
               VerifyBatches(r, init, final, ler, root)
        PROVE  KeptExits(q)
    <3>1. /\ CanVerify(r, init, final)
          /\ lastLocalExitRoot' = [lastLocalExitRoot EXCEPT ![r] = ler]
          /\ UNCHANGED isRollupMigrating
      BY <2>4 DEF VerifyBatches, registryVars
    <3>2. ~isRollupMigrating[r]
      BY <1>1, <3>1, VerifiableBatch DEF IInv, StandingOK, Standing, CanVerify
    <3> QED BY <2>0, <3>1, <3>2 DEF KeptExits
  <2>5. CASE Administration
    <3>1. UNCHANGED lastLocalExitRoot
      BY <2>5 DEF Administration, AddNewRollupType, ObsoleteRollupType,
         UpdateRollupByRollupAdmin, UpdateRollup, InitMigration, SwitchType,
         ActivateEmergencyState, DeactivateEmergencyState, SetBatchFee, Tick, Bridging,
         rootVars
    <3>2. \/ UNCHANGED isRollupMigrating
          \/ \E r \in RollupIDs : isRollupMigrating' = [isRollupMigrating EXCEPT ![r] = TRUE]
      <4>1. Rollups \subseteq RollupIDs
        BY <1>1, RollupsAreIDs DEF IInv
      <4>2. CASE \E r \in Rollups, t \in TypeIDs : InitMigration(r, t)
        BY <4>1, <4>2 DEF InitMigration
      <4>3. CASE ~ \E r \in Rollups, t \in TypeIDs : InitMigration(r, t)
        BY <2>5, <4>3 DEF Administration, AddNewRollupType, ObsoleteRollupType,
           UpdateRollupByRollupAdmin, UpdateRollup,
           ActivateEmergencyState, DeactivateEmergencyState, SetBatchFee, Tick, Bridging,
           registryVars
      <4> QED BY <4>2, <4>3
    <3> QED BY <2>1, <3>1, <3>2
  <2>6. ASSUME NEW t \in TypeIDs, NEW c \in ChainIDs, NEW root \in StateRoots,
               NEW acc \in AccInputHashes, AttachAggchainToAL(t, c, root, acc)
        PROVE  KeptExits(q)
    BY <2>1, <2>6 DEF AttachAggchainToAL, RegisterRollup, rootVars
  <2>7. ASSUME NEW r \in Rollups, NEW n \in Batches, NEW acc \in AccInputHashes,
               NEW payment \in 0..MaxPOL, ConsensusSequences(r, n, acc, payment)
        PROVE  KeptExits(q)
    BY <2>1, <2>7 DEF ConsensusSequences, ReportBatches, rootVars, registryVars
  <2>8. ASSUME NEW r \in Rollups, NEW target \in Batches, RollbackBatches(r, target)
        PROVE  KeptExits(q)
    BY <2>1, <2>8 DEF RollbackBatches, rootVars, registryVars
  <2> QED BY <1>1, <2>2, <2>3, <2>4, <2>5, <2>6, <2>7, <2>8 DEF Next
<1>2. ASSUME IInv, [Next]_managerVars
      PROVE  [\A r \in RollupIDs : KeptExits(r)]_managerVars
  BY <1>1, <1>2
<1>3. Spec => [][\A r \in RollupIDs : KeptExits(r)]_managerVars
  BY <1>2, InductiveInvariant, PTL DEF Spec
<1> QED BY <1>3 DEF MigrationKeepsExits, KeptExits

-----------------------------------------------------------------------------
\* The bridge and the manager are in emergency state together.
EmergencyAgrees == bridgeEmergencyState = isEmergencyState

\* Each step of the manager sets or leaves both flags.
LEMMA EmergencyAgreesInvariant == Spec => []EmergencyAgrees
<1>1. Init => EmergencyAgrees
  BY DEF Init, ExitInit, EmergencyAgrees
<1>2. ASSUME EmergencyAgrees, Next PROVE EmergencyAgrees'
  <2>1. CASE Administration
    <3>1. CASE \E byCouncil \in BOOLEAN : ActivateEmergencyState(byCouncil)
      BY <3>1 DEF ActivateEmergencyState, ActivateBridgeEmergency, EmergencyAgrees
    <3>2. CASE DeactivateEmergencyState
      BY <3>2 DEF DeactivateEmergencyState, DeactivateBridgeEmergency, EmergencyAgrees
    <3>3. CASE Bridging
      BY <1>2, <3>3 DEF Bridging, BridgeStep, BridgeExit, AddExit, UpdateGlobalExitRoot,
                        emergencyVars, EmergencyAgrees
    <3>4. CASE UNCHANGED <<bridgeEmergencyState, isEmergencyState>>
      BY <1>2, <3>4 DEF EmergencyAgrees
    <3>5. ASSUME \/ \E vt \in VerifierTypes : AddNewRollupType(vt)
                 \/ \E t \in TypeIDs : ObsoleteRollupType(t)
                 \/ \E fee \in BatchFees : SetBatchFee(fee)
                 \/ Tick
          PROVE  UNCHANGED <<bridgeEmergencyState, isEmergencyState>>
      BY <3>5 DEF AddNewRollupType, ObsoleteRollupType, SetBatchFee, Tick,
                  emergencyVars, exitVars
    <3>6. ASSUME NEW r \in Rollups, NEW t \in TypeIDs,
                 \/ UpdateRollupByRollupAdmin(r, t)
                 \/ UpdateRollup(r, t)
                 \/ InitMigration(r, t)
          PROVE  UNCHANGED <<bridgeEmergencyState, isEmergencyState>>
      BY <3>6 DEF UpdateRollupByRollupAdmin, UpdateRollup, InitMigration, SwitchType,
                  emergencyVars, exitVars
    <3>7. \/ \E byCouncil \in BOOLEAN : ActivateEmergencyState(byCouncil)
          \/ DeactivateEmergencyState
          \/ Bridging
          \/ UNCHANGED <<bridgeEmergencyState, isEmergencyState>>
      BY <2>1, <3>5, <3>6 DEF Administration
    <3> QED BY <3>1, <3>2, <3>3, <3>4, <3>7
  <2>2. CASE PessimisticVerification
    BY <1>2, <2>2 DEF PessimisticVerification, VerifyPessimistic, ReportRollupExitRoot,
                      bridgeVars, EmergencyAgrees
  <2>3. ASSUME NEW t \in TypeIDs, NEW c \in ChainIDs, NEW root \in StateRoots,
               NEW acc \in AccInputHashes, AttachAggchainToAL(t, c, root, acc)
        PROVE  EmergencyAgrees'
    BY <1>2, <2>3 DEF AttachAggchainToAL, emergencyVars, exitVars, EmergencyAgrees
  <2>4. ASSUME NEW c \in ChainIDs, NEW vt \in VerifierTypes, NEW root \in StateRoots,
               NEW ler \in LocalExitRoots, NEW pp \in PessimisticRoots \cup {ZeroHash},
               AddExistingRollup(c, vt, root, ler, pp)
        PROVE  EmergencyAgrees'
    BY <1>2, <2>4 DEF AddExistingRollup, emergencyVars, exitVars, EmergencyAgrees
  <2>5. ASSUME NEW r \in Rollups, NEW n \in Batches, NEW acc \in AccInputHashes,
               NEW payment \in 0..MaxPOL, ConsensusSequences(r, n, acc, payment)
        PROVE  EmergencyAgrees'
    BY <1>2, <2>5 DEF ConsensusSequences, ReportBatches, UpdateGlobalExitRoot,
                      emergencyVars, exitVars, EmergencyAgrees
  <2>6. ASSUME NEW r \in Rollups, NEW target \in Batches, RollbackBatches(r, target)
        PROVE  EmergencyAgrees'
    BY <1>2, <2>6 DEF RollbackBatches, emergencyVars, exitVars, EmergencyAgrees
  <2>7. ASSUME NEW r \in RollupIDs, NEW init \in Batches, NEW final \in Batches,
               NEW ler \in LocalExitRoots, NEW root \in StateRoots,
               VerifyBatches(r, init, final, ler, root)
        PROVE  EmergencyAgrees'
    BY <1>2, <2>7 DEF VerifyBatches, ReportRollupExitRoot, bridgeVars, EmergencyAgrees
  <2> QED BY <1>2, <2>1, <2>2, <2>3, <2>4, <2>5, <2>6, <2>7 DEF Next
<1>3. ASSUME EmergencyAgrees, UNCHANGED managerVars PROVE EmergencyAgrees'
  BY <1>3 DEF managerVars, emergencyVars, exitVars, EmergencyAgrees
<1> QED BY <1>1, <1>2, <1>3, PTL DEF Spec

\* Nothing comes in: no deposit and no sequence.
NoInflow ==
    /\ exitTree' = exitTree
    /\ \A r \in RollupIDs : lastBatchSequenced'[r] <= lastBatchSequenced[r]

(***************************************************************************)
(* In emergency state no deposit reaches the bridge and no batch is        *)
(* sequenced: the manager raises the bridge's flag together with its own   *)
(* (activateEmergencyState), and both sides check theirs.                  *)
(***************************************************************************)
THEOREM EmergencyIsTight == Spec => EmergencyStopsInflow
<1>1. ASSUME IInv, EmergencyAgrees, Next, isEmergencyState PROVE NoInflow
  <2>1. /\ lastBatchSequenced \in [RollupIDs -> Batches]
        /\ \A r \in RollupIDs : lastBatchSequenced[r] \in Nat
    BY <1>1, BatchesAreNat DEF IInv, TypeOK
  <2>2. CASE UNCHANGED <<exitTree, lastBatchSequenced>>
    BY <2>1, <2>2 DEF NoInflow
  <2>3. CASE Administration
    <3>1. UNCHANGED lastBatchSequenced
      BY <2>3 DEF Administration, AddNewRollupType, ObsoleteRollupType,
         UpdateRollupByRollupAdmin, UpdateRollup, InitMigration, SwitchType,
         ActivateEmergencyState, DeactivateEmergencyState, SetBatchFee, Tick, Bridging,
         ledgerVars
    <3>2. UNCHANGED exitTree
      <4>1. CASE Bridging
        BY <1>1, <4>1 DEF Bridging, BridgeStep, BridgeExit, AddExit, UpdateGlobalExitRoot,
                          EmergencyAgrees
      <4>2. CASE ~Bridging
        BY <2>3, <4>2 DEF Administration, AddNewRollupType, ObsoleteRollupType,
           UpdateRollupByRollupAdmin, UpdateRollup, InitMigration, SwitchType,
           ActivateEmergencyState, DeactivateEmergencyState, SetBatchFee, Tick, exitVars
      <4> QED BY <4>1, <4>2
    <3> QED BY <2>2, <3>1, <3>2
  <2>4. CASE PessimisticVerification
    BY <2>2, <2>4 DEF PessimisticVerification, VerifyPessimistic, ReportRollupExitRoot,
                      bridgeVars, ledgerVars
  <2>5. ASSUME NEW t \in TypeIDs, NEW c \in ChainIDs, NEW root \in StateRoots,
               NEW acc \in AccInputHashes, AttachAggchainToAL(t, c, root, acc)
        PROVE  NoInflow
    BY <1>1, <2>2, <2>5 DEF AttachAggchainToAL, ledgerVars, exitVars
  <2>6. ASSUME NEW c \in ChainIDs, NEW vt \in VerifierTypes, NEW root \in StateRoots,
               NEW ler \in LocalExitRoots, NEW pp \in PessimisticRoots \cup {ZeroHash},
               AddExistingRollup(c, vt, root, ler, pp)
        PROVE  NoInflow
    BY <2>2, <2>6 DEF AddExistingRollup, exitVars
  <2>7. ASSUME NEW r \in Rollups, NEW n \in Batches, NEW acc \in AccInputHashes,
               NEW payment \in 0..MaxPOL, ConsensusSequences(r, n, acc, payment)
        PROVE  NoInflow
    BY <1>1, <2>7 DEF ConsensusSequences, ReportBatches, OnSequenceBatches
  <2>8. ASSUME NEW r \in Rollups, NEW target \in Batches, RollbackBatches(r, target)
        PROVE  NoInflow
    <3>1. /\ lastBatchSequenced' = [lastBatchSequenced EXCEPT ![r] = target]
          /\ target < lastBatchSequenced[r]
          /\ UNCHANGED exitTree
      BY <2>8 DEF RollbackBatches, RollbackTarget, exitVars
    <3>2. r \in RollupIDs /\ target \in Nat
      BY <1>1, RollupsAreIDs, BatchesAreNat DEF IInv
    <3>3. ASSUME NEW q \in RollupIDs PROVE lastBatchSequenced'[q] <= lastBatchSequenced[q]
      <4>1. CASE q = r
        BY <2>1, <3>1, <3>2, <4>1
      <4>2. CASE q # r
        BY <2>1, <3>1, <4>2
      <4> QED BY <4>1, <4>2
    <3> QED BY <3>1, <3>3 DEF NoInflow
  <2>9. ASSUME NEW r \in RollupIDs, NEW init \in Batches, NEW final \in Batches,
               NEW ler \in LocalExitRoots, NEW root \in StateRoots,
               VerifyBatches(r, init, final, ler, root)
        PROVE  NoInflow
    BY <2>2, <2>9 DEF VerifyBatches, ReportRollupExitRoot, bridgeVars
  <2> QED BY <1>1, <2>3, <2>4, <2>5, <2>6, <2>7, <2>8, <2>9 DEF Next
<1>2. ASSUME IInv, EmergencyAgrees, [Next]_managerVars
      PROVE  [isEmergencyState => NoInflow]_managerVars
  BY <1>1, <1>2
<1>3. Spec => [][isEmergencyState => NoInflow]_managerVars
  BY <1>2, InductiveInvariant, EmergencyAgreesInvariant, PTL DEF Spec
<1> QED BY <1>3 DEF EmergencyStopsInflow, NoInflow

-----------------------------------------------------------------------------
\* The exit root a verification reports is one of the roots of its module.
LEMMA ReportedRootIsKnown ==
    ASSUME TypeOK, NEW r \in RollupIDs, NEW ler \in LocalExitRoots,
           lastLocalExitRoot' = [lastLocalExitRoot EXCEPT ![r] = ler]
    PROVE  lastLocalExitRoot' \in RollupExitRoots
<1>1. lastLocalExitRoot \in [RollupIDs -> LocalExitRoots]
  BY DEF TypeOK
<1>2. lastLocalExitRoot' \in [RollupIDs -> LocalExitRoots]
  BY <1>1
<1> QED BY <1>2, ManagerAssumption

\* One step of the manager is one step of the exit roots, or none.
LEMMA NextIsExitStep ==
    ASSUME TypeOK, [Next]_managerVars
    PROVE  [ExitNext]_exitVars
<1>1. CASE UNCHANGED managerVars
  BY <1>1 DEF managerVars
<1>2. CASE Administration
  <2>1. ASSUME \/ \E vt \in VerifierTypes : AddNewRollupType(vt)
               \/ \E t \in TypeIDs : ObsoleteRollupType(t)
               \/ \E fee \in BatchFees : SetBatchFee(fee)
               \/ Tick
        PROVE  UNCHANGED exitVars
    BY <2>1 DEF AddNewRollupType, ObsoleteRollupType, SetBatchFee, Tick
  <2>2. ASSUME NEW r \in Rollups, NEW t \in TypeIDs,
               \/ UpdateRollupByRollupAdmin(r, t)
               \/ UpdateRollup(r, t)
               \/ InitMigration(r, t)
        PROVE  UNCHANGED exitVars
    BY <2>2 DEF UpdateRollupByRollupAdmin, UpdateRollup, InitMigration, SwitchType
  <2>3. ASSUME DeactivateEmergencyState \/ \E b \in BOOLEAN : ActivateEmergencyState(b)
        PROVE  ExitNext
    BY <2>3 DEF ActivateEmergencyState, DeactivateEmergencyState, SetBridgeEmergency,
                ExitNext
  <2>4. Bridging => ExitNext
    BY DEF Bridging, ExitNext
  <2> QED BY <1>2, <2>1, <2>2, <2>3, <2>4 DEF Administration
<1>3. CASE PessimisticVerification
  <2>1. PICK r \in RollupIDs, ler \in LocalExitRoots :
            /\ lastLocalExitRoot' = [lastLocalExitRoot EXCEPT ![r] = ler]
            /\ ReportRollupExitRoot(lastLocalExitRoot')
    BY <1>3 DEF PessimisticVerification, VerifyPessimistic
  <2>2. lastLocalExitRoot' \in RollupExitRoots
    BY <2>1, ReportedRootIsKnown
  <2> QED BY <2>1, <2>2 DEF ExitNext
<1>4. ASSUME NEW t \in TypeIDs, NEW c \in ChainIDs, NEW root \in StateRoots,
             NEW acc \in AccInputHashes, AttachAggchainToAL(t, c, root, acc)
      PROVE  UNCHANGED exitVars
  BY <1>4 DEF AttachAggchainToAL
<1>5. ASSUME NEW c \in ChainIDs, NEW vt \in VerifierTypes, NEW root \in StateRoots,
             NEW ler \in LocalExitRoots, NEW pp \in PessimisticRoots \cup {ZeroHash},
             AddExistingRollup(c, vt, root, ler, pp)
      PROVE  UNCHANGED exitVars
  BY <1>5 DEF AddExistingRollup
<1>6. ASSUME NEW r \in Rollups, NEW n \in Batches, NEW acc \in AccInputHashes,
             NEW payment \in 0..MaxPOL, ConsensusSequences(r, n, acc, payment)
      PROVE  [ExitNext]_exitVars
  BY <1>6 DEF ConsensusSequences, ExitNext, BridgeStep
<1>7. ASSUME NEW r \in Rollups, NEW target \in Batches, RollbackBatches(r, target)
      PROVE  UNCHANGED exitVars
  BY <1>7 DEF RollbackBatches
<1>8. ASSUME NEW r \in RollupIDs, NEW init \in Batches, NEW final \in Batches,
             NEW ler \in LocalExitRoots, NEW root \in StateRoots,
             VerifyBatches(r, init, final, ler, root)
      PROVE  ExitNext
  <2>1. /\ lastLocalExitRoot' = [lastLocalExitRoot EXCEPT ![r] = ler]
        /\ ReportRollupExitRoot(lastLocalExitRoot')
    BY <1>8 DEF VerifyBatches
  <2>2. lastLocalExitRoot' \in RollupExitRoots
    BY <2>1, ReportedRootIsKnown
  <2> QED BY <2>1, <2>2 DEF ExitNext
<1> QED BY <1>1, <1>2, <1>3, <1>4, <1>5, <1>6, <1>7, <1>8 DEF Next

(***************************************************************************)
(* The rollup manager implements L1ExitRoots: each of its transactions     *)
(* calls the bridge and the exit root manager as one of their operations.  *)
(***************************************************************************)
THEOREM ManagerImplementsExitRoots == Spec => ExitSpec
<1>1. Init => ExitInit
  BY DEF Init
<1>2. TypeOK /\ [Next]_managerVars => [ExitNext]_exitVars
  BY NextIsExitStep
<1> QED BY <1>1, <1>2, TypeCorrect, PTL DEF Spec, ExitSpec

(***************************************************************************)
(* Whatever the rollups do, an L1 info root once handed out keeps its leaf *)
(* count and a deposit once covered stays covered.                         *)
(***************************************************************************)
THEOREM ExitRootsOfTheSystem == Spec => []ExitRootsConsistent
<1> QED BY ManagerImplementsExitRoots, ExitRootsStayConsistent, PTL

-----------------------------------------------------------------------------
(* The manager together with PolygonRollupBaseEtrog. *)

StateEntries == [batch : BatchData \cup {Genesis}, program : 0..MaxTypes]
ForcedData == [tx : Txs, forcedTimestamp : Times]

(***************************************************************************)
(* The invariant, rollup by rollup, over values and not over variables, so *)
(* that what an action does to one rollup can be shown apart from it.      *)
(***************************************************************************)
IsPrefix(s, acc, n) ==
    /\ s \in Seq(BatchData) /\ Len(s) = n /\ n <= Len(acc)
    /\ \A k \in 1..n : s[k] = acc[k]

\* The stored sequences end prefixes of the list the consensus contract has.
HistoryOK(acc, seq, last) ==
    /\ acc \in Seq(BatchData) /\ Len(acc) = last
    /\ \A b \in EndsOf(seq) : IsPrefix(seq[b].accInputHash, acc, b)

\* A state root executes the first b batches of the list, after the genesis.
Executes(root, acc, b) ==
    /\ root \in Seq(StateEntries) /\ Len(root) = b + 1 /\ b <= Len(acc)
    /\ \A k \in 1..b : root[k + 1].batch = acc[k]

(***************************************************************************)
(* Each root executes the list and continues the roots before it.  What    *)
(* makes this inductive is the program: above the mark of the last upgrade *)
(* every batch was proved by the program in force, so that executing it    *)
(* again from an earlier root gives the same state.                        *)
(***************************************************************************)
StatesOK(acc, roots, before, program) ==
    \A b \in Batches : roots[b] # ZeroHash =>
        /\ Executes(roots[b], acc, b)
        /\ \A k \in before + 1 .. b : roots[b][k + 1].program = program
        /\ \A a \in Batches : a < b /\ roots[a] # ZeroHash =>
              \A k \in 1..a + 1 : roots[b][k] = roots[a][k]

\* The forced batches of a list come in order and none is above taken.
ForcedInOrder(acc, taken) ==
    /\ \A k \in 1..Len(acc) : acc[k].forced <= taken
    /\ \A j, k \in 1..Len(acc) :
          (j < k /\ acc[j].forced # 0 /\ acc[k].forced # 0) =>
              acc[j].forced < acc[k].forced

\* The queue holds exactly the forced batches above taken, up to last.
QueueOK(queue, taken, last) ==
    /\ taken <= last
    /\ \A i \in ForcedIDs : queue[i] # NoForcedBatch <=> taken < i /\ i <= last

\* The POL held covers the lowest fee for each of the pending batches.
IsLowestFee(fee) == fee \in BatchFees /\ \A other \in BatchFees : fee <= other

FundedOK(pol, pending) ==
    \E fee \in BatchFees : IsLowestFee(fee) /\ pol >= pending * fee * ForcedFeeFactor

RollupHistoryOK(r) ==
    HistoryOK(lastAccInputHash[r], sequencedBatches[r], lastBatchSequenced[r])

RollupStatesOK(r) ==
    StatesOK(lastAccInputHash[r], batchNumToStateRoot[r],
             lastVerifiedBatchBeforeUpgrade[r], rollupTypeID[r])

RollupForcedOK(r) ==
    /\ ForcedInOrder(lastAccInputHash[r], lastForceBatchSequenced[r])
    /\ QueueOK(forcedBatches[r], lastForceBatchSequenced[r], lastForceBatch[r])
    /\ FundedOK(rollupPol[r], PendingForced(r))

\* Every variable of the consensus contracts holds a value of its type.
ConsensusTypeOK ==
    /\ lastAccInputHash \in [RollupIDs -> Seq(BatchData)]
    /\ lastForceBatch \in [RollupIDs -> 0..MaxForced]
    /\ lastForceBatchSequenced \in [RollupIDs -> 0..MaxForced]
    /\ forcedBatches \in [RollupIDs -> [ForcedIDs -> ForcedData \cup {NoForcedBatch}]]
    /\ forceBatchTimeout \in [RollupIDs -> Nat]
    /\ rollupPol \in [RollupIDs -> Nat]

\* Programs are known types, and their number is bounded.
ProgramsOK ==
    /\ Len(rollupTypeMap) <= MaxTypes
    /\ rollupTypeID \in [RollupIDs -> 0..MaxTypes]

RollupOK(r) == RollupHistoryOK(r) /\ RollupStatesOK(r) /\ RollupForcedOK(r)

SystemInv ==
    /\ IInv
    /\ ConsensusTypeOK
    /\ ProgramsOK
    /\ \A r \in RollupIDs : RollupOK(r)

-----------------------------------------------------------------------------
(* Lists and their prefixes. *)

\* A prefix taken apart into its elements is the SubSeq of the list.
LEMMA PrefixIsSubSeq ==
    ASSUME NEW S, NEW acc \in Seq(S), NEW b \in Nat, b <= Len(acc),
           NEW s \in Seq(S), Len(s) = b, \A k \in 1..b : s[k] = acc[k]
    PROVE  s = SubSeq(acc, 1, b)
<1>1. \A i \in 1..b : acc[i] \in S
  OBVIOUS
<1>2. /\ SubSeq(acc, 1, b) \in Seq(S)
      /\ Len(SubSeq(acc, 1, b)) = IF 1 <= b THEN b - 1 + 1 ELSE 0
      /\ \A i \in 1 .. b - 1 + 1 : SubSeq(acc, 1, b)[i] = acc[1 + i - 1]
  BY <1>1, SubSeqProperties, 1 \in Int, b \in Int
<1>3. Len(SubSeq(acc, 1, b)) = b /\ \A i \in 1..b : SubSeq(acc, 1, b)[i] = acc[i]
  BY <1>2
<1> QED BY <1>2, <1>3, SeqEqual

\* A prefix of a list is a prefix of every continuation of it.
LEMMA PrefixExtends ==
    ASSUME NEW acc \in Seq(BatchData), NEW new \in Seq(BatchData),
           NEW s, NEW n \in Nat, IsPrefix(s, acc, n)
    PROVE  IsPrefix(s, acc \o new, n)
<1>1. /\ Len(acc \o new) = Len(acc) + Len(new)
      /\ \A i \in 1 .. Len(acc) + Len(new) : (acc \o new)[i] =
             IF i <= Len(acc) THEN acc[i] ELSE new[i - Len(acc)]
  BY ConcatProperties
<1>2. Len(acc) \in Nat /\ Len(new) \in Nat
  OBVIOUS
<1>3. \A k \in 1..n : (acc \o new)[k] = acc[k]
  BY <1>1, <1>2 DEF IsPrefix
<1> QED BY <1>1, <1>2, <1>3 DEF IsPrefix

(***************************************************************************)
(* A call that adds batches continues the history: the manager stores the  *)
(* hash the consensus contract goes on from.                               *)
(***************************************************************************)
LEMMA HistoryAppend ==
    ASSUME NEW acc, NEW seq, NEW last \in Batches, HistoryOK(acc, seq, last),
           NEW new \in Seq(BatchData), last + Len(new) \in Batches,
           NEW longer, EndsOf(longer) = EndsOf(seq) \cup {last + Len(new)},
           \A b \in Batches : longer[b] =
               IF b = last + Len(new) THEN SequencedBatch(acc \o new, last) ELSE seq[b]
    PROVE  HistoryOK(acc \o new, longer, last + Len(new))
<1>1. /\ acc \in Seq(BatchData) /\ Len(acc) = last
      /\ acc \o new \in Seq(BatchData)
      /\ Len(acc \o new) = last + Len(new)
  BY ConcatProperties DEF HistoryOK
<1>2. \A b \in EndsOf(longer) : b \in Batches /\ b \in Nat
  BY BatchesAreNat DEF EndsOf
<1>3. ASSUME NEW b \in EndsOf(longer)
      PROVE  IsPrefix(longer[b].accInputHash, acc \o new, b)
  <2>1. CASE b = last + Len(new)
    <3>1. longer[b].accInputHash = acc \o new
      BY <2>1, <1>2 DEF SequencedBatch
    <3> QED BY <2>1, <3>1, <1>1, <1>2 DEF IsPrefix
  <2>2. CASE b # last + Len(new)
    <3>1. b \in EndsOf(seq) /\ longer[b] = seq[b]
      BY <2>2, <1>2
    <3>2. IsPrefix(seq[b].accInputHash, acc, b)
      BY <3>1 DEF HistoryOK
    <3> QED BY <1>1, <1>2, <3>1, <3>2, PrefixExtends
  <2> QED BY <2>1, <2>2
<1> QED BY <1>1, <1>3 DEF HistoryOK

(***************************************************************************)
(* A rollback gives the consensus contract the stored hash of its target,  *)
(* which is the list cut there, and the ends that stay are prefixes of it. *)
(***************************************************************************)
LEMMA HistoryTruncate ==
    ASSUME NEW acc, NEW seq, NEW last \in Batches, HistoryOK(acc, seq, last),
           NEW target \in EndsOf(seq),
           NEW shorter, EndsOf(shorter) = {e \in EndsOf(seq) : e <= target},
           \A b \in EndsOf(shorter) : shorter[b] = seq[b]
    PROVE  /\ HistoryOK(shorter[target].accInputHash, shorter, target)
           /\ IsPrefix(shorter[target].accInputHash, acc, target)
<1>1. \A b \in EndsOf(seq) : b \in Nat
  BY BatchesAreNat DEF EndsOf
<1>2. target \in EndsOf(shorter) /\ shorter[target] = seq[target] /\ target \in Nat
  BY <1>1
<1>3. IsPrefix(seq[target].accInputHash, acc, target)
  BY DEF HistoryOK
<1>4. ASSUME NEW b \in EndsOf(shorter)
      PROVE  IsPrefix(shorter[b].accInputHash, seq[target].accInputHash, b)
  <2>1. b \in EndsOf(seq) /\ b <= target /\ shorter[b] = seq[b] /\ b \in Nat
    BY <1>1
  <2>2. IsPrefix(seq[b].accInputHash, acc, b)
    BY <2>1 DEF HistoryOK
  <2> QED BY <1>2, <1>3, <2>1, <2>2 DEF IsPrefix
<1> QED BY <1>2, <1>3, <1>4 DEF HistoryOK, IsPrefix

(***************************************************************************)
(* States stay those of the list as long as the list keeps its batches up  *)
(* to every root: it may grow, or be cut above them.                       *)
(***************************************************************************)
LEMMA StatesKept ==
    ASSUME NEW acc, NEW roots, NEW before, NEW program,
           StatesOK(acc, roots, before, program),
           NEW other,
           \A b \in Batches : roots[b] # ZeroHash =>
               b <= Len(other) /\ \A k \in 1..b : other[k] = acc[k]
    PROVE  StatesOK(other, roots, before, program)
BY DEF StatesOK, Executes

(***************************************************************************)
(* An upgrade moves the mark to the last verified batch, and no root is    *)
(* above it: nothing is said of the new program yet.                       *)
(***************************************************************************)
LEMMA StatesSwitch ==
    ASSUME NEW acc, NEW roots, NEW before, NEW program,
           StatesOK(acc, roots, before, program),
           NEW verified \in Batches, NEW next,
           \A b \in Batches : roots[b] # ZeroHash => b <= verified
    PROVE  StatesOK(acc, roots, verified, next)
<1>1. ASSUME NEW b \in Batches, roots[b] # ZeroHash
      PROVE  \A k \in verified + 1 .. b : roots[b][k + 1].program = next
  BY <1>1, BatchesAreNat
<1> QED BY <1>1 DEF StatesOK

\* What a proof adds to the state it starts from, entry by entry.
Continued(root, hash, init, final, program) ==
    LET new == SubSeq(hash, init + 1, final)
    IN  root \o [k \in 1..Len(new) |-> [batch |-> new[k], program |-> program]]

\* The root is followed by a state for each further batch.
ContinuesTo(longer, root, hash, init, final, program) ==
    /\ longer \in Seq(StateEntries) /\ Len(longer) = final + 1
    /\ \A k \in 1 .. init + 1 : longer[k] = root[k]
    /\ \A k \in init + 1 .. final :
          longer[k + 1] = [batch |-> hash[k], program |-> program]

LEMMA ContinuedFacts ==
    ASSUME NEW init \in Nat, NEW final \in Nat, init < final,
           NEW root \in Seq(StateEntries), Len(root) = init + 1,
           NEW hash \in Seq(BatchData), Len(hash) = final,
           NEW program \in 0..MaxTypes
    PROVE  ContinuesTo(Continued(root, hash, init, final, program),
                       root, hash, init, final, program)
<1> DEFINE new == SubSeq(hash, init + 1, final)
           tail == [k \in 1..Len(new) |-> [batch |-> new[k], program |-> program]]
<1>1. /\ new \in Seq(BatchData)
      /\ Len(new) = final - init
      /\ \A k \in 1 .. final - init : new[k] = hash[init + k]
  <2>1. /\ init + 1 \in Int /\ final \in Int
        /\ \A i \in init + 1 .. final : hash[i] \in BatchData
    OBVIOUS
  <2>2. /\ new \in Seq(BatchData)
        /\ Len(new) = IF init + 1 <= final THEN final - (init + 1) + 1 ELSE 0
        /\ \A i \in 1 .. final - (init + 1) + 1 : new[i] = hash[init + 1 + i - 1]
    BY <2>1, SubSeqProperties
  <2>3. \A i \in Nat : init + 1 + i - 1 = init + i
    OBVIOUS
  <2> QED BY <2>2, <2>3
<1> HIDE DEF new
<1>2. /\ tail \in Seq(StateEntries)
      /\ Len(tail) = final - init
      /\ \A k \in 1 .. final - init :
             tail[k] = [batch |-> hash[init + k], program |-> program]
  <2>1. \A k \in 1..Len(new) : [batch |-> new[k], program |-> program] \in StateEntries
    BY <1>1 DEF StateEntries
  <2>2. tail \in Seq(StateEntries) /\ Len(tail) = Len(new)
    BY <2>1, <1>1
  <2> QED BY <1>1, <2>2
<1> HIDE DEF tail
<1>3. Continued(root, hash, init, final, program) = root \o tail
  BY DEF Continued, new, tail
<1>4. /\ root \o tail \in Seq(StateEntries)
      /\ Len(root \o tail) = Len(root) + Len(tail)
      /\ \A i \in 1 .. Len(root) + Len(tail) : (root \o tail)[i] =
             IF i <= Len(root) THEN root[i] ELSE tail[i - Len(root)]
  BY <1>2, ConcatProperties
<1>5. Len(root \o tail) = final + 1
  BY <1>2, <1>4
<1>6. \A k \in 1 .. init + 1 : (root \o tail)[k] = root[k]
  BY <1>2, <1>4
<1>7. ASSUME NEW k \in init + 1 .. final
      PROVE  (root \o tail)[k + 1] = [batch |-> hash[k], program |-> program]
  <2>1. Len(tail) = final - init
    BY <1>2
  <2>2. /\ k + 1 \in 1 .. Len(root) + Len(tail) /\ ~(k + 1 <= Len(root))
        /\ k + 1 - Len(root) \in 1 .. final - init
        /\ init + (k + 1 - Len(root)) = k
    BY <2>1
  <2>3. (root \o tail)[k + 1] = tail[k + 1 - Len(root)]
    BY <1>4, <2>2
  <2>4. tail[k + 1 - Len(root)] = [batch |-> hash[k], program |-> program]
    BY <1>2, <2>2
  <2> QED BY <2>3, <2>4
<1> QED BY <1>3, <1>4, <1>5, <1>6, <1>7 DEF ContinuesTo

(***************************************************************************)
(* Verification adds the state of its last batch.  The earlier states      *)
(* between its first and last batch were reached by the same program over  *)
(* the same batches, so the new one continues them too.                    *)
(***************************************************************************)
LEMMA StatesVerify ==
    ASSUME NEW acc \in Seq(BatchData), NEW roots, NEW before \in Batches,
           NEW program \in 0..MaxTypes, StatesOK(acc, roots, before, program),
           NEW init \in Batches, NEW final \in Batches, NEW verified \in Batches,
           before <= init, init <= verified, verified < final, final <= Len(acc),
           roots[init] # ZeroHash,
           \A b \in Batches : roots[b] # ZeroHash => b <= verified,
           NEW hash, IsPrefix(hash, acc, final),
           NEW more, \A b \in Batches : more[b] =
               IF b = final THEN Continued(roots[init], hash, init, final, program)
               ELSE roots[b]
    PROVE  StatesOK(acc, more, before, program)
<1>1. /\ \A b \in Batches : b \in Nat
      /\ init \in Nat /\ final \in Nat /\ verified \in Nat /\ before \in Nat
      /\ Len(acc) \in Nat
      /\ init < final
  BY BatchesAreNat
<1>2. Executes(roots[init], acc, init)
  BY DEF StatesOK
<1>3. /\ more[final] \in Seq(StateEntries)
      /\ Len(more[final]) = final + 1
      /\ \A k \in 1 .. init + 1 : more[final][k] = roots[init][k]
      /\ \A k \in init + 1 .. final :
            more[final][k + 1] = [batch |-> hash[k], program |-> program]
  <2>1. /\ roots[init] \in Seq(StateEntries) /\ Len(roots[init]) = init + 1
        /\ hash \in Seq(BatchData) /\ Len(hash) = final
    BY <1>2 DEF Executes, IsPrefix
  <2>2. more[final] = Continued(roots[init], hash, init, final, program)
    OBVIOUS
  <2>3. PICK root \in Seq(StateEntries) : root = roots[init] /\ Len(root) = init + 1
    BY <2>1
  <2> DEFINE longer == Continued(root, hash, init, final, program)
  <2>4. ContinuesTo(longer, root, hash, init, final, program)
    <3>1. init \in Nat /\ final \in Nat /\ init < final
      BY <1>1
    <3>2. root \in Seq(StateEntries) /\ Len(root) = init + 1
      BY <2>3
    <3>3. hash \in Seq(BatchData) /\ Len(hash) = final
      BY <2>1
    <3> QED BY <3>1, <3>2, <3>3, ContinuedFacts
  <2> HIDE DEF longer
  <2>5. longer = more[final]
    BY <2>2, <2>3 DEF longer
  <2> QED BY <2>3, <2>4, <2>5 DEF ContinuesTo
<1>4. \A k \in init + 1 .. final : hash[k] = acc[k]
  BY <1>1 DEF IsPrefix
<1>5. Executes(more[final], acc, final)
  <2>1. ASSUME NEW k \in 1..final PROVE more[final][k + 1].batch = acc[k]
    <3>1. CASE k <= init
      <4>1. k \in 1..init /\ k + 1 \in 1 .. init + 1
        BY <3>1, <1>1
      <4> QED BY <4>1, <1>2, <1>3 DEF Executes
    <3>2. CASE ~(k <= init)
      <4>1. k \in init + 1 .. final
        BY <3>2, <1>1
      <4>2. more[final][k + 1] = [batch |-> hash[k], program |-> program]
        BY <4>1, <1>3
      <4> QED BY <4>1, <4>2, <1>4
    <3> QED BY <3>1, <3>2
  <2> QED BY <1>3, <2>1 DEF Executes
<1>6. \A k \in before + 1 .. final : more[final][k + 1].program = program
  <2>1. ASSUME NEW k \in before + 1 .. final PROVE more[final][k + 1].program = program
    <3>1. CASE k <= init
      <4>1. more[final][k + 1] = roots[init][k + 1] /\ k \in before + 1 .. init
        BY <3>1, <1>1, <1>3
      <4> QED BY <4>1 DEF StatesOK
    <3>2. CASE ~(k <= init)
      <4>1. k \in init + 1 .. final
        BY <3>2, <1>1
      <4>2. more[final][k + 1] = [batch |-> hash[k], program |-> program]
        BY <4>1, <1>3
      <4> QED BY <4>2
    <3> QED BY <3>1, <3>2
  <2> QED BY <2>1
<1>7. ASSUME NEW a \in Batches, a < final, roots[a] # ZeroHash, NEW k \in 1 .. a + 1
      PROVE  more[final][k] = roots[a][k]
  <2>1. /\ a <= verified /\ a \in Nat
        /\ Executes(roots[a], acc, a)
        /\ \A i \in before + 1 .. a : roots[a][i + 1].program = program
    BY <1>1, <1>7 DEF StatesOK
  <2>2. CASE a <= init
    <3>1. roots[init][k] = roots[a][k]
      <4>1. a < init \/ a = init
        BY <2>1, <2>2, <1>1
      <4> QED BY <4>1, <1>7 DEF StatesOK
    <3> QED BY <3>1, <2>1, <2>2, <1>1, <1>3
  <2>3. CASE init < a
    <3>1. CASE k <= init + 1
      <4>1. roots[a][k] = roots[init][k]
        BY <2>3, <3>1, <1>1, <1>7 DEF StatesOK
      <4> QED BY <4>1, <3>1, <1>1, <1>3
    <3>2. CASE ~(k <= init + 1)
      <4> DEFINE j == k - 1
      <4>1. /\ j \in 1..a /\ j \in before + 1 .. a /\ j \in init + 1 .. final
            /\ k = j + 1
        BY <3>2, <2>1, <1>1, <1>7
      <4> HIDE DEF j
      <4>2. roots[a][j + 1].batch = acc[j] /\ roots[a][j + 1].program = program
        BY <4>1, <2>1 DEF Executes
      <4>3. roots[a][j + 1] \in StateEntries
        BY <4>1, <2>1 DEF Executes
      <4>4. roots[a][j + 1] = [batch |-> acc[j], program |-> program]
        BY <4>2, <4>3 DEF StateEntries
      <4>5. more[final][j + 1] = [batch |-> acc[j], program |-> program]
        BY <4>1, <1>3, <1>4
      <4> QED BY <4>1, <4>4, <4>5
    <3> QED BY <3>1, <3>2
  <2> QED BY <2>1, <2>2, <2>3, <1>1
<1>8. ASSUME NEW b \in Batches, more[b] # ZeroHash
      PROVE  /\ Executes(more[b], acc, b)
             /\ \A k \in before + 1 .. b : more[b][k + 1].program = program
             /\ \A a \in Batches : a < b /\ more[a] # ZeroHash =>
                   \A k \in 1..a + 1 : more[b][k] = more[a][k]
  <2>1. CASE b = final
    <3>1. \A a \in Batches : a < b => more[a] = roots[a]
      BY <2>1, <1>1
    <3> QED BY <2>1, <3>1, <1>5, <1>6, <1>7
  <2>2. CASE b # final
    <3>1. more[b] = roots[b] /\ b <= verified
      BY <2>2, <1>8
    <3>2. \A a \in Batches : a < b => more[a] = roots[a]
      BY <3>1, <1>1
    <3> QED BY <3>1, <3>2, <1>8 DEF StatesOK
  <2> QED BY <2>1, <2>2
<1> QED BY <1>8 DEF StatesOK

-----------------------------------------------------------------------------
(* Forced batches: their order, their queue and the POL held for them. *)

\* How many forced batches a list asks for grows with every one of them.
LEMMA ForcedAmongFacts ==
    ASSUME NEW batches, NEW k \in Nat
    PROVE  /\ ForcedAmong(batches, k) \in 0..k
           /\ \A j \in 0..k : ForcedAmong(batches, j) <= ForcedAmong(batches, k)
           /\ \A j \in 0..k : j < k /\ batches[k] = Forced =>
                 ForcedAmong(batches, j) < ForcedAmong(batches, k)
<1> DEFINE F(n) == {i \in 1..n : batches[i] = Forced}
<1>1. \A n : ForcedAmong(batches, n) = Cardinality(F(n))
  BY DEF ForcedAmong
<1>2. ASSUME NEW n \in 0..k
      PROVE  IsFiniteSet(F(n)) /\ Cardinality(F(n)) \in Nat /\ Cardinality(F(n)) <= n
  <2>1. IsFiniteSet(1..n) /\ Cardinality(1..n) = n
    <3>1. 1 \in Int /\ n \in Int
      OBVIOUS
    <3>2. IsFiniteSet(1..n) /\ Cardinality(1..n) = IF 1 > n THEN 0 ELSE n - 1 + 1
      BY <3>1, FS_Interval
    <3> QED BY <3>2
  <2>2. F(n) \in SUBSET (1..n)
    OBVIOUS
  <2> HIDE DEF F
  <2>3. IsFiniteSet(F(n)) /\ Cardinality(F(n)) <= n
    BY <2>1, <2>2, FS_Subset
  <2> QED BY <2>3, FS_CardinalityType
<1>3. ASSUME NEW j \in 0..k
      PROVE  /\ Cardinality(F(j)) <= Cardinality(F(k))
             /\ (j < k /\ batches[k] = Forced) => Cardinality(F(j)) < Cardinality(F(k))
  <2>1. /\ F(j) \in SUBSET F(k)
        /\ (j < k /\ batches[k] = Forced) => F(k) # F(j)
    OBVIOUS
  <2>2. /\ IsFiniteSet(F(k)) /\ Cardinality(F(k)) \in Nat
        /\ Cardinality(F(j)) \in Nat
    BY <1>2
  <2> HIDE DEF F
  <2>3. /\ Cardinality(F(j)) <= Cardinality(F(k))
        /\ Cardinality(F(k)) = Cardinality(F(j)) => F(k) = F(j)
    BY <2>1, <2>2, FS_Subset
  <2> QED BY <2>1, <2>2, <2>3
<1> HIDE DEF F
<1>4. k \in 0..k
  OBVIOUS
<1>5. Cardinality(F(k)) \in 0..k
  BY <1>2, <1>4
<1> QED BY <1>1, <1>3, <1>5

\* New batches take the forced ones above taken, in order, up to taken + m.
TakesInOrder(new, taken, m) ==
    /\ \A k \in 1..Len(new) :
          new[k].forced = 0 \/ (taken < new[k].forced /\ new[k].forced <= taken + m)
    /\ \A j, k \in 1..Len(new) :
          (j < k /\ new[j].forced # 0 /\ new[k].forced # 0) =>
              new[j].forced < new[k].forced

LEMMA ForcedExtend ==
    ASSUME NEW acc \in Seq(BatchData), NEW new \in Seq(BatchData),
           NEW taken \in Nat, NEW m \in Nat,
           ForcedInOrder(acc, taken), TakesInOrder(new, taken, m)
    PROVE  ForcedInOrder(acc \o new, taken + m)
<1>1. /\ acc \o new \in Seq(BatchData)
      /\ Len(acc \o new) = Len(acc) + Len(new)
      /\ \A i \in 1 .. Len(acc) + Len(new) : (acc \o new)[i] =
             IF i <= Len(acc) THEN acc[i] ELSE new[i - Len(acc)]
  BY ConcatProperties
<1>2. /\ Len(acc) \in Nat /\ Len(new) \in Nat
      /\ \A k \in 1..Len(acc) : acc[k].forced \in Nat
      /\ \A k \in 1..Len(new) : new[k].forced \in Nat
  <2>1. \A data \in BatchData : data.forced \in Nat
    BY SystemAssumption DEF BatchData
  <2> QED BY <2>1
<1>3. ASSUME NEW k \in 1..Len(acc \o new) PROVE (acc \o new)[k].forced <= taken + m
  <2>1. CASE k <= Len(acc)
    BY <2>1, <1>1, <1>2 DEF ForcedInOrder
  <2>2. CASE ~(k <= Len(acc))
    <3>1. k - Len(acc) \in 1..Len(new) /\ (acc \o new)[k] = new[k - Len(acc)]
      BY <2>2, <1>1, <1>2
    <3>2. \A i \in 1..Len(new) : new[i].forced <= taken + m
      BY <1>2 DEF TakesInOrder
    <3> QED BY <3>1, <3>2
  <2> QED BY <2>1, <2>2
<1>4. ASSUME NEW j \in 1..Len(acc \o new), NEW k \in 1..Len(acc \o new), j < k,
             (acc \o new)[j].forced # 0, (acc \o new)[k].forced # 0
      PROVE  (acc \o new)[j].forced < (acc \o new)[k].forced
  <2>1. CASE k <= Len(acc)
    BY <2>1, <1>1, <1>2, <1>4 DEF ForcedInOrder
  <2>2. CASE j <= Len(acc) /\ ~(k <= Len(acc))
    <3>1. /\ k - Len(acc) \in 1..Len(new) /\ (acc \o new)[k] = new[k - Len(acc)]
          /\ j \in 1..Len(acc) /\ (acc \o new)[j] = acc[j]
      BY <2>2, <1>1, <1>2
    <3>2. acc[j].forced <= taken /\ taken < new[k - Len(acc)].forced
      BY <3>1, <1>4 DEF ForcedInOrder, TakesInOrder
    <3> QED BY <3>1, <3>2, <1>2
  <2>3. CASE ~(j <= Len(acc))
    <3>1. /\ j - Len(acc) \in 1..Len(new) /\ (acc \o new)[j] = new[j - Len(acc)]
          /\ k - Len(acc) \in 1..Len(new) /\ (acc \o new)[k] = new[k - Len(acc)]
          /\ j - Len(acc) < k - Len(acc)
      BY <2>3, <1>1, <1>2, <1>4
    <3> QED BY <3>1, <1>4 DEF TakesInOrder
  <2> QED BY <2>1, <2>2, <2>3, <1>1, <1>2, <1>4
<1> QED BY <1>3, <1>4 DEF ForcedInOrder

\* A rollback may take forced batches out of the list, never out of order.
LEMMA ForcedTruncate ==
    ASSUME NEW acc \in Seq(BatchData), NEW taken, ForcedInOrder(acc, taken),
           NEW s, NEW n \in Nat, IsPrefix(s, acc, n)
    PROVE  ForcedInOrder(s, taken)
<1>1. Len(s) = n /\ n <= Len(acc) /\ Len(acc) \in Nat
  BY DEF IsPrefix
<1>2. \A k \in 1..n : s[k] = acc[k] /\ k \in 1..Len(acc)
  BY <1>1 DEF IsPrefix
<1> QED BY <1>1, <1>2 DEF ForcedInOrder

\* Taking the next n batches off the queue, and putting one at its end.
LEMMA QueueTake ==
    ASSUME NEW queue, NEW taken \in Nat, NEW last \in Nat, QueueOK(queue, taken, last),
           NEW n \in 0 .. last - taken,
           NEW rest, \A i \in ForcedIDs : rest[i] =
               IF i \in taken + 1 .. taken + n THEN NoForcedBatch ELSE queue[i]
    PROVE  QueueOK(rest, taken + n, last)
<1>1. \A i \in ForcedIDs : i \in Nat
  BY SystemAssumption DEF ForcedIDs
<1>2. taken + n <= last
  BY DEF QueueOK
<1>3. ASSUME NEW i \in ForcedIDs
      PROVE  rest[i] # NoForcedBatch <=> taken + n < i /\ i <= last
  <2>1. CASE i \in taken + 1 .. taken + n
    BY <2>1, <1>1
  <2>2. CASE i \notin taken + 1 .. taken + n
    <3>1. rest[i] = queue[i] /\ (taken < i <=> taken + n < i)
      BY <2>2, <1>1
    <3> QED BY <3>1 DEF QueueOK
  <2> QED BY <2>1, <2>2
<1> QED BY <1>2, <1>3 DEF QueueOK

LEMMA QueueAdd ==
    ASSUME NEW queue, NEW taken \in Nat, NEW last \in Nat, QueueOK(queue, taken, last),
           NEW more, NEW entry, entry # NoForcedBatch,
           \A i \in ForcedIDs : more[i] = IF i = last + 1 THEN entry ELSE queue[i]
    PROVE  QueueOK(more, taken, last + 1)
<1>1. \A i \in ForcedIDs : i \in Nat
  BY SystemAssumption DEF ForcedIDs
<1> QED BY <1>1 DEF QueueOK

(***************************************************************************)
(* calculatePolPerForceBatch rounds down, so taking n of the pending       *)
(* batches at the average price leaves at least that price for each of the *)
(* others.                                                                 *)
(***************************************************************************)
LEMMA ShareLeavesEnough ==
    ASSUME NEW pol \in Nat, NEW pending \in Nat, NEW n \in 0..pending,
           NEW price \in Nat, pending * price <= pol,
           NEW share, share = IF pending = 0 THEN 0 ELSE pol \div pending
    PROVE  /\ share \in Nat /\ share * n \in Nat
           /\ pol - share * n \in Nat
           /\ (pending - n) * price <= pol - share * n
<1>1. CASE pending = 0
  BY <1>1
<1>2. CASE pending # 0
  <2>1. share \in Nat /\ share * pending <= pol /\ pol < (share + 1) * pending
    BY <1>2
  <2>2. price <= share
    <3>1. SUFFICES ASSUME share + 1 <= price PROVE FALSE
      BY <2>1
    <3>2. pending * (share + 1) <= pending * price
      BY <2>1, <3>1
    <3> QED BY <2>1, <3>2
  <2> DEFINE left == pending - n
  <2>3. left \in Nat /\ pending = left + n /\ n \in Nat
    OBVIOUS
  <2> HIDE DEF left
  <2>4. share * pending = share * left + share * n
    BY <2>1, <2>3
  <2>5. share * left \in Nat /\ share * n \in Nat /\ left * price \in Nat
    BY <2>1, <2>3
  <2>6. left * price <= share * left
    BY <2>1, <2>2, <2>3
  <2>7. left * price <= pol - share * n /\ pol - share * n \in Nat
    BY <2>1, <2>4, <2>5, <2>6
  <2> QED BY <2>1, <2>5, <2>7 DEF left
<1> QED BY <1>1, <1>2

\* There is a lowest fee: fees are natural numbers.
LEMMA LowestFeeExists == \E fee \in BatchFees : IsLowestFee(fee)
<1>1. BatchFees \in SUBSET Nat /\ BatchFees # {}
  BY ManagerAssumption
<1>2. \E fee \in BatchFees : \A other \in BatchFees : fee <= other
  BY <1>1, LeastElement
<1> QED BY <1>2 DEF IsLowestFee

-----------------------------------------------------------------------------
(* The initial states, and what a step leaves alone. *)

\* The lists of the composition are hashes and roots the manager may be given.
LEMMA ListsAreKnown ==
    /\ \A acc \in Seq(BatchData) : Len(acc) \in 1..MaxBatch => acc \in AccInputHashes
    /\ \A root \in Seq(StateEntries) : Len(root) \in 1..MaxBatch + 1 => root \in StateRoots
<1>1. ASSUME NEW acc \in Seq(BatchData), Len(acc) \in 1..MaxBatch
      PROVE  acc \in AccInputHashes
  <2>1. acc \in [1..Len(acc) -> BatchData]
    BY LenProperties
  <2>2. [1..Len(acc) -> BatchData] \subseteq AccInputHashes
    BY <1>1, ListsAssumption
  <2> QED BY <2>1, <2>2
<1>2. ASSUME NEW root \in Seq(StateEntries), Len(root) \in 1..MaxBatch + 1
      PROVE  root \in StateRoots
  <2>1. root \in [1..Len(root) -> StateEntries]
    BY LenProperties
  <2>2. [1..Len(root) -> StateEntries] \subseteq StateRoots
    BY <1>2, ListsAssumption DEF StateEntries
  <2> QED BY <2>1, <2>2
<1> QED BY <1>1, <1>2

\* Nothing is sequenced, no batch is forced and no POL is held at the start.
LEMMA SystemInitInvariant ==
    ASSUME SystemInit
    PROVE  SystemInv
<1>1. Init /\ IInv
  BY InitInvariant DEF SystemInit
<1>2. ConsensusTypeOK
  BY SystemAssumption DEF SystemInit, ConsensusTypeOK
<1>3. ProgramsOK
  <2>1. Len(rollupTypeMap) = Len(InitialTypes)
    BY <1>1, ManagerAssumption DEF Init
  <2> QED BY <1>1, <2>1, ManagerAssumption DEF Init, ProgramsOK
<1>4. ASSUME NEW r \in RollupIDs PROVE RollupOK(r)
  <2>1. /\ lastAccInputHash[r] = <<>> /\ lastForceBatch[r] = 0
        /\ lastForceBatchSequenced[r] = 0 /\ rollupPol[r] = 0
        /\ forcedBatches[r] = [i \in ForcedIDs |-> NoForcedBatch]
    BY DEF SystemInit
  <2>2. /\ sequencedBatches[r] = [b \in Batches |-> NoSequencedBatch]
        /\ lastBatchSequenced[r] = 0
        /\ batchNumToStateRoot[r] = [b \in Batches |-> ZeroHash]
    BY <1>1 DEF Init
  <2>3. RollupHistoryOK(r)
    <3>1. EndsOf(sequencedBatches[r]) = {0} /\ sequencedBatches[r][0].accInputHash = <<>>
      BY <2>2, BatchesAreNat, SystemAssumption
         DEF EndsOf, NoSequencedBatch, SequencedBatch
    <3>2. <<>> \in Seq(BatchData) /\ Len(<<>>) = 0
      OBVIOUS
    <3>3. IsPrefix(<<>>, <<>>, 0)
      BY <3>2 DEF IsPrefix
    <3> QED BY <2>1, <2>2, <3>1, <3>2, <3>3 DEF RollupHistoryOK, HistoryOK
  <2>4. RollupStatesOK(r)
    BY <2>2 DEF RollupStatesOK, StatesOK
  <2>5. RollupForcedOK(r)
    <3>1. ForcedInOrder(<<>>, 0)
      BY DEF ForcedInOrder
    <3>2. \A i \in ForcedIDs : i \in Nat /\ i # 0
      BY SystemAssumption DEF ForcedIDs
    <3>3. QueueOK(forcedBatches[r], 0, 0)
      BY <2>1, <3>2 DEF QueueOK
    <3>4. PendingForced(r) = 0
      BY <2>1 DEF PendingForced
    <3>5. FundedOK(0, 0)
      <4>1. PICK fee \in BatchFees : IsLowestFee(fee)
        BY LowestFeeExists
      <4>2. fee \in Nat /\ ForcedFeeFactor \in Nat
        BY ManagerAssumption, SystemAssumption
      <4>3. 0 >= 0 * fee * ForcedFeeFactor
        BY <4>2
      <4> QED BY <4>1, <4>3 DEF FundedOK
    <3> QED BY <2>1, <3>1, <3>3, <3>4, <3>5 DEF RollupForcedOK
  <2> QED BY <2>3, <2>4, <2>5 DEF RollupOK
<1> QED BY <1>1, <1>2, <1>3, <1>4 DEF SystemInv

\* A rollup whose entries a step leaves alone stays in order.
LEMMA UntouchedRollup ==
    ASSUME NEW q \in RollupIDs, RollupOK(q),
           lastAccInputHash'[q] = lastAccInputHash[q],
           lastForceBatch'[q] = lastForceBatch[q],
           lastForceBatchSequenced'[q] = lastForceBatchSequenced[q],
           forcedBatches'[q] = forcedBatches[q],
           rollupPol'[q] = rollupPol[q],
           lastBatchSequenced'[q] = lastBatchSequenced[q],
           lastVerifiedBatchBeforeUpgrade'[q] = lastVerifiedBatchBeforeUpgrade[q],
           sequencedBatches'[q] = sequencedBatches[q],
           batchNumToStateRoot'[q] = batchNumToStateRoot[q],
           rollupTypeID'[q] = rollupTypeID[q]
    PROVE  RollupOK(q)'
<1>1. RollupHistoryOK(q)'
  BY DEF RollupOK, RollupHistoryOK
<1>2. RollupStatesOK(q)'
  BY DEF RollupOK, RollupStatesOK
<1>3. RollupForcedOK(q)'
  BY DEF RollupOK, RollupForcedOK, PendingForced
<1> QED BY <1>1, <1>2, <1>3 DEF RollupOK

\* The queue and the POL for it do not move: what is left is the list.
LEMMA ForcedUntouched ==
    ASSUME NEW q \in RollupIDs, RollupForcedOK(q),
           ForcedInOrder(lastAccInputHash'[q], lastForceBatchSequenced[q]),
           UNCHANGED forcedVars
    PROVE  RollupForcedOK(q)'
BY DEF RollupForcedOK, PendingForced, forcedVars

\* What of the invariant an administrative step could touch.
LEMMA AdministrationKeeps ==
    ASSUME SystemInv, IInv', UNCHANGED consensusVars, ProgramsOK',
           UNCHANGED <<ledgerVars, rollupTypeID>>
    PROVE  SystemInv'
<1>1. ConsensusTypeOK'
  BY DEF SystemInv, ConsensusTypeOK, consensusVars, forcedVars
<1>2. ASSUME NEW q \in RollupIDs PROVE RollupOK(q)'
  BY UntouchedRollup DEF SystemInv, consensusVars, forcedVars, ledgerVars
<1> QED BY <1>1, <1>2 DEF SystemInv

-----------------------------------------------------------------------------
(* Administration, upgrades and pessimistic proofs. *)

LEMMA ProgramsKept ==
    ASSUME SystemInv, UNCHANGED rollupTypeID,
           \/ UNCHANGED rollupTypeMap
           \/ \E vt \in VerifierTypes : AddNewRollupType(vt)
           \/ \E t \in TypeIDs : ObsoleteRollupType(t)
    PROVE  ProgramsOK'
<1>1. /\ rollupTypeMap \in Seq(RollupTypes) /\ Len(rollupTypeMap) <= MaxTypes
      /\ MaxTypes \in Nat
  BY ManagerAssumption DEF SystemInv, IInv, TypeOK, ProgramsOK
<1>2. Len(rollupTypeMap') <= MaxTypes
  <2>1. CASE UNCHANGED rollupTypeMap
    BY <2>1, <1>1
  <2>2. ASSUME NEW vt \in VerifierTypes, AddNewRollupType(vt)
        PROVE  Len(rollupTypeMap') <= MaxTypes
    <3> DEFINE new == [rollupVerifierType |-> vt, obsolete |-> FALSE]
    <3>1. /\ new \in RollupTypes /\ Len(rollupTypeMap) < MaxTypes
          /\ rollupTypeMap' = Append(rollupTypeMap, new)
      BY <2>2 DEF AddNewRollupType, RollupTypes
    <3> HIDE DEF new
    <3>2. Len(rollupTypeMap') = Len(rollupTypeMap) + 1
      BY <1>1, <3>1, AppendProperties
    <3> QED BY <1>1, <3>1, <3>2
  <2>3. ASSUME NEW t \in TypeIDs, ObsoleteRollupType(t)
        PROVE  Len(rollupTypeMap') <= MaxTypes
    <3>1. Len(rollupTypeMap') = Len(rollupTypeMap)
      BY <1>1, <2>3 DEF ObsoleteRollupType
    <3> QED BY <1>1, <3>1
  <2> QED BY <2>1, <2>2, <2>3
<1> QED BY <1>2 DEF SystemInv, ProgramsOK

(***************************************************************************)
(* An upgrade puts another program in force from the last verified batch,  *)
(* above which there is no state yet.                                      *)
(***************************************************************************)
LEMMA SwitchSystem ==
    ASSUME SystemInv, IInv', NEW r \in Rollups, NEW t \in TypeIDs, SwitchType(r, t),
           UNCHANGED consensusVars
    PROVE  SystemInv'
<1>1. IInv /\ TypeOK /\ r \in RollupIDs
  BY RollupsAreIDs DEF SystemInv, IInv
<1>2. /\ t \in 0..MaxTypes /\ Len(rollupTypeMap') <= MaxTypes
      /\ rollupTypeID \in [RollupIDs -> 0..MaxTypes]
      /\ rollupTypeID' = [rollupTypeID EXCEPT ![r] = t]
      /\ rollupTypeID' \in [RollupIDs -> 0..MaxTypes]
  <2>1. /\ Len(rollupTypeMap) <= MaxTypes /\ rollupTypeMap \in Seq(RollupTypes)
        /\ MaxTypes \in Nat
        /\ rollupTypeID \in [RollupIDs -> 0..MaxTypes]
    BY <1>1, ManagerAssumption DEF SystemInv, ProgramsOK, TypeOK
  <2>2. t \in 0..MaxTypes
    BY <2>1 DEF TypeIDs
  <2> QED BY <2>1, <2>2 DEF SwitchType
<1>3. /\ UNCHANGED <<lastBatchSequenced, sequencedBatches, batchNumToStateRoot>>
      /\ lastVerifiedBatchBeforeUpgrade'[r] = lastVerifiedBatch[r]
      /\ \A q \in RollupIDs \ {r} :
            lastVerifiedBatchBeforeUpgrade'[q] = lastVerifiedBatchBeforeUpgrade[q]
  BY <1>1 DEF SwitchType, TypeOK
<1>4. ProgramsOK'
  BY <1>2 DEF ProgramsOK
<1>5. ConsensusTypeOK'
  BY DEF SystemInv, ConsensusTypeOK, consensusVars, forcedVars
<1>6. ASSUME NEW q \in RollupIDs PROVE RollupOK(q)'
  <2>1. RollupOK(q)
    BY DEF SystemInv
  <2>2. CASE q # r
    BY <2>1, <2>2, <1>1, <1>2, <1>3, UntouchedRollup DEF consensusVars, forcedVars
  <2>3. CASE q = r
    <3>1. RollupHistoryOK(r)'
      BY <2>1, <2>3, <1>3 DEF RollupOK, RollupHistoryOK, consensusVars
    <3>2. RollupForcedOK(r)'
      BY <2>1, <2>3 DEF RollupOK, RollupForcedOK, PendingForced, consensusVars, forcedVars
    <3>3. RollupStatesOK(r)'
      <4>1. /\ lastVerifiedBatch[r] \in Batches
            /\ \A b \in Batches : batchNumToStateRoot[r][b] # ZeroHash =>
                   b <= lastVerifiedBatch[r]
        BY <1>1 DEF IInv, TypeOK, RollupLedgerOK, LedgerOK
      <4>2. StatesOK(lastAccInputHash[r], batchNumToStateRoot[r],
                     lastVerifiedBatchBeforeUpgrade[r], rollupTypeID[r])
        BY <2>1, <2>3 DEF RollupOK, RollupStatesOK
      <4>3. StatesOK(lastAccInputHash[r], batchNumToStateRoot[r], lastVerifiedBatch[r], t)
        BY <4>1, <4>2, StatesSwitch
      <4>4. rollupTypeID'[r] = t
        BY <1>1, <1>2
      <4> QED BY <4>3, <4>4, <1>3 DEF RollupStatesOK, consensusVars
    <3> QED BY <2>3, <3>1, <3>2, <3>3 DEF RollupOK, RollupHistoryOK, RollupStatesOK,
               RollupForcedOK, PendingForced
  <2> QED BY <2>2, <2>3
<1> QED BY <1>4, <1>5, <1>6 DEF SystemInv

LEMMA AdministrationSystem ==
    ASSUME SystemInv, Administration \/ PessimisticVerification, UNCHANGED consensusVars
    PROVE  Next /\ SystemInv'
<1>1. Next
  BY DEF Next
<1> SUFFICES SystemInv'
  BY <1>1
<1>2. IInv'
  BY <1>1, NextInvariant DEF SystemInv
<1>3. ASSUME UNCHANGED <<ledgerVars, rollupTypeID>>,
             \/ UNCHANGED rollupTypeMap
             \/ \E vt \in VerifierTypes : AddNewRollupType(vt)
             \/ \E t \in TypeIDs : ObsoleteRollupType(t)
      PROVE  SystemInv'
  BY <1>2, <1>3, ProgramsKept, AdministrationKeeps
<1>4. CASE \E vt \in VerifierTypes : AddNewRollupType(vt)
  BY <1>3, <1>4 DEF AddNewRollupType
<1>5. CASE \E t \in TypeIDs : ObsoleteRollupType(t)
  BY <1>3, <1>5 DEF ObsoleteRollupType
<1>6. ASSUME NEW r \in Rollups, NEW t \in TypeIDs,
             \/ UpdateRollupByRollupAdmin(r, t)
             \/ UpdateRollup(r, t)
             \/ InitMigration(r, t)
      PROVE  SystemInv'
  BY <1>2, <1>6, SwitchSystem DEF UpdateRollupByRollupAdmin, UpdateRollup, InitMigration
<1>7. CASE DeactivateEmergencyState \/ \E b \in BOOLEAN : ActivateEmergencyState(b)
  BY <1>3, <1>7 DEF ActivateEmergencyState, DeactivateEmergencyState, registryVars
<1>8. CASE Tick \/ Bridging \/ \E fee \in BatchFees : SetBatchFee(fee)
  BY <1>3, <1>8 DEF Tick, Bridging, SetBatchFee, registryVars
<1>9. CASE PessimisticVerification
  BY <1>3, <1>9 DEF PessimisticVerification, VerifyPessimistic
<1> QED BY <1>1, <1>4, <1>5, <1>6, <1>7, <1>8, <1>9 DEF Administration

-----------------------------------------------------------------------------
(* Sequencing, by the trusted sequencer or by anyone. *)

\* The counters of a queue, and the number of batches pending in it.
LEMMA PendingFacts ==
    ASSUME SystemInv, NEW r \in RollupIDs
    PROVE  /\ lastForceBatch[r] \in Nat /\ lastForceBatchSequenced[r] \in Nat
           /\ lastForceBatchSequenced[r] <= lastForceBatch[r]
           /\ lastForceBatch[r] <= MaxForced /\ MaxForced \in Nat
           /\ PendingForced(r) \in Nat
           /\ rollupPol[r] \in Nat
           /\ PolPerForceBatch(r) \in Nat
<1>1. /\ MaxForced \in Nat
      /\ lastForceBatch[r] \in 0..MaxForced /\ lastForceBatchSequenced[r] \in 0..MaxForced
      /\ rollupPol[r] \in Nat
  BY SystemAssumption DEF SystemInv, ConsensusTypeOK
<1>2. lastForceBatchSequenced[r] <= lastForceBatch[r]
  BY DEF SystemInv, RollupOK, RollupForcedOK, QueueOK
<1>3. PendingForced(r) \in Nat
  BY <1>1, <1>2 DEF PendingForced
<1>4. PolPerForceBatch(r) \in Nat
  BY <1>1, <1>3 DEF PolPerForceBatch
<1> QED BY <1>1, <1>2, <1>3, <1>4

\* Forced batches leave the queue from its front, each with its share of the POL.
LEMMA TakeForcedFacts ==
    ASSUME SystemInv, NEW r \in RollupIDs, NEW m \in Nat, TakeForced(r, m)
    PROVE  /\ m <= PendingForced(r)
           /\ lastForceBatchSequenced'[r] = lastForceBatchSequenced[r] + m
           /\ lastForceBatchSequenced' \in [RollupIDs -> 0..MaxForced]
           /\ forcedBatches' \in
                 [RollupIDs -> [ForcedIDs -> ForcedData \cup {NoForcedBatch}]]
           /\ rollupPol' \in [RollupIDs -> Nat]
           /\ \A q \in RollupIDs \ {r} :
                 /\ lastForceBatchSequenced'[q] = lastForceBatchSequenced[q]
                 /\ forcedBatches'[q] = forcedBatches[q]
                 /\ rollupPol'[q] = rollupPol[q]
           /\ lastForceBatch' = lastForceBatch
           /\ QueueOK(forcedBatches'[r], lastForceBatchSequenced'[r], lastForceBatch'[r])
           /\ FundedOK(rollupPol'[r], PendingForced(r)')
<1> DEFINE taken == lastForceBatchSequenced[r]
           last == lastForceBatch[r]
           pol == rollupPol[r]
           share == PolPerForceBatch(r)
<1>1. /\ last \in Nat /\ taken \in Nat /\ taken <= last /\ last <= MaxForced
      /\ MaxForced \in Nat /\ PendingForced(r) \in Nat /\ pol \in Nat
      /\ PendingForced(r) = last - taken
  BY PendingFacts DEF PendingForced
<1>2. m <= PendingForced(r)
  BY DEF TakeForced, ForcedAvailable
<1>3. /\ lastForceBatchSequenced' = [lastForceBatchSequenced EXCEPT ![r] = taken + m]
      /\ forcedBatches' = [forcedBatches EXCEPT ![r] = DequeuedForced(r, m)]
      /\ rollupPol' = [rollupPol EXCEPT ![r] = pol - share * m]
      /\ lastForceBatch' = lastForceBatch
  BY DEF TakeForced
<1>4. /\ lastForceBatchSequenced \in [RollupIDs -> 0..MaxForced]
      /\ forcedBatches \in [RollupIDs -> [ForcedIDs -> ForcedData \cup {NoForcedBatch}]]
      /\ rollupPol \in [RollupIDs -> Nat]
      /\ QueueOK(forcedBatches[r], taken, last)
      /\ FundedOK(pol, PendingForced(r))
  BY DEF SystemInv, ConsensusTypeOK, RollupOK, RollupForcedOK
<1>5. /\ DequeuedForced(r, m) \in [ForcedIDs -> ForcedData \cup {NoForcedBatch}]
      /\ \A i \in ForcedIDs : DequeuedForced(r, m)[i] =
             IF i \in taken + 1 .. taken + m THEN NoForcedBatch ELSE forcedBatches[r][i]
  BY <1>4 DEF DequeuedForced
<1>6. QueueOK(DequeuedForced(r, m), taken + m, last)
  <2>1. m \in 0 .. last - taken
    BY <1>1, <1>2
  <2> HIDE DEF taken, last
  <2> QED BY <2>1, <1>1, <1>4, <1>5, QueueTake
<1>7. PICK fee \in BatchFees : IsLowestFee(fee) /\ pol >= PendingForced(r) * fee * ForcedFeeFactor
  BY <1>4 DEF FundedOK
<1> DEFINE price == fee * ForcedFeeFactor
<1>8. /\ fee \in Nat /\ ForcedFeeFactor \in Nat /\ price \in Nat
      /\ \A k \in Nat : k * fee * ForcedFeeFactor = k * price
  BY ManagerAssumption, SystemAssumption
<1> HIDE DEF price
<1>9. /\ share * m \in Nat /\ pol - share * m \in Nat
      /\ (PendingForced(r) - m) * price <= pol - share * m
  <2>1. PendingForced(r) * price <= pol
    BY <1>1, <1>7, <1>8
  <2>2. m \in 0..PendingForced(r)
    BY <1>1, <1>2
  <2>3. share = IF PendingForced(r) = 0 THEN 0 ELSE pol \div PendingForced(r)
    BY DEF PolPerForceBatch
  <2> HIDE DEF share, pol
  <2> QED BY <2>1, <2>2, <2>3, <1>1, <1>8, ShareLeavesEnough
<1>10. /\ PendingForced(r)' = PendingForced(r) - m
       /\ PendingForced(r)' \in Nat
       /\ taken + m \in 0..MaxForced
  <2>1. lastForceBatchSequenced'[r] = taken + m /\ lastForceBatch'[r] = last
    BY <1>3, <1>4
  <2>2. PendingForced(r)' = lastForceBatch'[r] - lastForceBatchSequenced'[r]
    BY DEF PendingForced
  <2> QED BY <2>1, <2>2, <1>1, <1>2
<1>11. FundedOK(pol - share * m, PendingForced(r)')
  <2>1. pol - share * m >= PendingForced(r)' * fee * ForcedFeeFactor
    <3>1. PendingForced(r)' * fee * ForcedFeeFactor = PendingForced(r)' * price
      BY <1>8, <1>10
    <3>2. PendingForced(r)' * price <= pol - share * m
      BY <1>9, <1>10
    <3>3. PendingForced(r)' * price \in Nat
      BY <1>8, <1>10
    <3> HIDE DEF share, pol
    <3> QED BY <3>1, <3>2, <3>3, <1>9
  <2> QED BY <2>1, <1>7 DEF FundedOK
<1> HIDE DEF share
<1>12. /\ lastForceBatchSequenced'[r] = taken + m /\ forcedBatches'[r] = DequeuedForced(r, m)
       /\ rollupPol'[r] = pol - share * m
       /\ lastForceBatchSequenced' \in [RollupIDs -> 0..MaxForced]
       /\ forcedBatches' \in [RollupIDs -> [ForcedIDs -> ForcedData \cup {NoForcedBatch}]]
       /\ rollupPol' \in [RollupIDs -> Nat]
  BY <1>3, <1>4, <1>5, <1>9, <1>10
<1>13. \A q \in RollupIDs \ {r} :
          /\ lastForceBatchSequenced'[q] = lastForceBatchSequenced[q]
          /\ forcedBatches'[q] = forcedBatches[q]
          /\ rollupPol'[q] = rollupPol[q]
  BY <1>3, <1>4
<1> QED BY <1>2, <1>3, <1>6, <1>11, <1>12, <1>13

(***************************************************************************)
(* A list that goes on with new batches is a step of the abstract chain.   *)
(***************************************************************************)
LEMMA ListGrows ==
    ASSUME SystemInv, NEW r \in RollupIDs, NEW new \in Seq(BatchData), Len(new) # 0,
           lastAccInputHash' =
               [lastAccInputHash EXCEPT ![r] = lastAccInputHash[r] \o new],
           UNCHANGED lastVerifiedBatch
    PROVE  Chain!Extend(r)
<1> DEFINE acc == lastAccInputHash[r]
<1>1. /\ lastAccInputHash \in [RollupIDs -> Seq(BatchData)] /\ acc \in Seq(BatchData)
      /\ Len(acc) \in Nat /\ Len(new) \in Nat
  BY DEF SystemInv, ConsensusTypeOK
<1>2. lastAccInputHash'[r] = acc \o new
  BY <1>1
<1> HIDE DEF acc
<1>3. /\ acc \o new \in Seq(BatchData)
      /\ Len(acc \o new) = Len(acc) + Len(new)
      /\ \A i \in 1 .. Len(acc) + Len(new) : (acc \o new)[i] =
             IF i <= Len(acc) THEN acc[i] ELSE new[i - Len(acc)]
  BY <1>1, ConcatProperties
<1>4. Len(acc \o new) > Len(acc) /\ \A k \in 1..Len(acc) : acc[k] = (acc \o new)[k]
  BY <1>1, <1>3
<1>5. acc = SubSeq(acc \o new, 1, Len(acc))
  BY <1>1, <1>3, <1>4, PrefixIsSubSeq
<1> QED BY <1>2, <1>3, <1>4, <1>5 DEF Chain!Extend, acc

(***************************************************************************)
(* A call of either kind: new batches that take m forced ones off the      *)
(* queue are put at the end of the list and reported to the manager.       *)
(***************************************************************************)
LEMMA SequencingSystem ==
    ASSUME SystemInv, NEW r \in Rollups, NEW new \in Seq(BatchData), NEW m \in Nat,
           NEW payment \in Nat,
           Len(new) # 0,
           TakeForced(r, m), TakesInOrder(new, lastForceBatchSequenced[r], m),
           lastAccInputHash' =
               [lastAccInputHash EXCEPT ![r] = lastAccInputHash[r] \o new],
           ReportBatches(r, Len(new), lastAccInputHash'[r], payment),
           UpdateGlobalExitRoot \/ UNCHANGED exitVars,
           UNCHANGED forceBatchTimeout
    PROVE  Next /\ SystemInv' /\ Chain!Extend(r)
<1> DEFINE n == Len(new)
           acc == lastAccInputHash[r]
           last == lastBatchSequenced[r]
<1>1. IInv /\ TypeOK /\ TotalsMatch /\ r \in RollupIDs /\ RollupOK(r)
  BY RollupsAreIDs DEF SystemInv, IInv
<1>2. /\ acc \in Seq(BatchData) /\ Len(acc) = last /\ last \in Nat /\ n \in Nat
      /\ HistoryOK(acc, sequencedBatches[r], last)
  BY <1>1, BatchesAreNat DEF RollupOK, RollupHistoryOK, HistoryOK, TypeOK
<1>3. /\ acc \o new \in Seq(BatchData)
      /\ Len(acc \o new) = last + n
      /\ lastAccInputHash'[r] = acc \o new
      /\ lastAccInputHash' \in [RollupIDs -> Seq(BatchData)]
      /\ \A q \in RollupIDs \ {r} : lastAccInputHash'[q] = lastAccInputHash[q]
  <2>1. acc \o new \in Seq(BatchData) /\ Len(acc \o new) = last + n
    BY <1>2, ConcatProperties
  <2>2. lastAccInputHash \in [RollupIDs -> Seq(BatchData)]
    BY DEF SystemInv, ConsensusTypeOK
  <2> QED BY <2>1, <2>2, <1>1
<1>4. /\ RecordSequence(r, n, acc \o new)
      /\ UNCHANGED <<totalVerifiedBatches, lastVerifiedBatch,
                     lastVerifiedBatchBeforeUpgrade, batchNumToStateRoot>>
      /\ polBalance + payment <= MaxPOL
      /\ UNCHANGED <<now, registryVars>>
  BY <1>3 DEF ReportBatches, OnSequenceBatches
<1>5. /\ n \in Batches /\ n # 0 /\ last + n \in Batches
      /\ acc \o new \in AccInputHashes
      /\ payment \in 0..MaxPOL
  <2>1. last + n <= MaxBatch /\ MaxBatch \in Nat /\ MaxPOL \in Nat
    BY <1>4, ManagerAssumption DEF RecordSequence
  <2>2. n \in Batches /\ n # 0 /\ last + n \in 1..MaxBatch /\ last + n \in Batches
    BY <2>1, <1>2 DEF Batches
  <2>3. polBalance \in Nat
    BY <1>1 DEF TypeOK
  <2>4. payment \in 0..MaxPOL
    BY <2>1, <2>3, <1>4
  <2>5. acc \o new \in AccInputHashes
    BY <2>2, <1>3, ListsAreKnown
  <2> QED BY <2>2, <2>4, <2>5
<1>6. Next /\ IInv'
  <2>1. ConsensusSequences(r, n, acc \o new, payment)
    BY <1>3 DEF ConsensusSequences
  <2>2. Next
    BY <2>1, <1>5 DEF Next
  <2> QED BY <2>2, <1>1, NextInvariant
<1>7. /\ lastBatchSequenced'[r] = last + n
      /\ EndsOf(sequencedBatches'[r]) = EndsOf(sequencedBatches[r]) \cup {last + n}
      /\ \A q \in RollupIDs \ {r} :
            /\ lastBatchSequenced'[q] = lastBatchSequenced[q]
            /\ sequencedBatches'[q] = sequencedBatches[q]
  BY <1>1, <1>2, <1>4, <1>5, RecordSequenceFacts
<1>8. \A b \in Batches : sequencedBatches'[r][b] =
          IF b = last + n THEN SequencedBatch(acc \o new, last) ELSE sequencedBatches[r][b]
  BY <1>1, <1>4 DEF RecordSequence, TypeOK
<1>9. /\ lastForceBatchSequenced'[r] = lastForceBatchSequenced[r] + m
      /\ lastForceBatchSequenced' \in [RollupIDs -> 0..MaxForced]
      /\ forcedBatches' \in [RollupIDs -> [ForcedIDs -> ForcedData \cup {NoForcedBatch}]]
      /\ rollupPol' \in [RollupIDs -> Nat]
      /\ lastForceBatch' = lastForceBatch
      /\ \A q \in RollupIDs \ {r} :
            /\ lastForceBatchSequenced'[q] = lastForceBatchSequenced[q]
            /\ forcedBatches'[q] = forcedBatches[q]
            /\ rollupPol'[q] = rollupPol[q]
      /\ QueueOK(forcedBatches'[r], lastForceBatchSequenced'[r], lastForceBatch'[r])
      /\ FundedOK(rollupPol'[r], PendingForced(r)')
  BY <1>1, TakeForcedFacts
<1>10. ConsensusTypeOK'
  BY <1>3, <1>9 DEF SystemInv, ConsensusTypeOK
<1>11. ProgramsOK'
  BY <1>4 DEF SystemInv, ProgramsOK, registryVars
<1>12. RollupHistoryOK(r)'
  <2>1. PICK longer : longer = sequencedBatches'[r]
    OBVIOUS
  <2>2. PICK seq : seq = sequencedBatches[r]
    OBVIOUS
  <2>3. /\ EndsOf(longer) = EndsOf(seq) \cup {last + n}
        /\ \A b \in Batches : longer[b] =
              IF b = last + n THEN SequencedBatch(acc \o new, last) ELSE seq[b]
        /\ HistoryOK(acc, seq, last) /\ last \in Batches
    BY <2>1, <2>2, <1>1, <1>2, <1>7, <1>8 DEF TypeOK
  <2> HIDE DEF last, acc
  <2>4. HistoryOK(acc \o new, longer, last + n)
    BY <2>3, <1>5, HistoryAppend
  <2> QED BY <2>1, <2>4, <1>3, <1>7 DEF RollupHistoryOK
<1>13. RollupStatesOK(r)'
  <2>1. StatesOK(acc, batchNumToStateRoot[r], lastVerifiedBatchBeforeUpgrade[r],
                 rollupTypeID[r])
    BY <1>1 DEF RollupOK, RollupStatesOK
  <2>2. ASSUME NEW b \in Batches, batchNumToStateRoot[r][b] # ZeroHash
        PROVE  b <= Len(acc \o new) /\ \A k \in 1..b : (acc \o new)[k] = acc[k]
    <3>1. b <= Len(acc) /\ b \in Nat /\ Len(acc) <= Len(acc \o new)
      <4>1. Executes(batchNumToStateRoot[r][b], acc, b)
        BY <2>1, <2>2 DEF StatesOK
      <4>2. b \in Nat /\ b <= Len(acc)
        BY <4>1, BatchesAreNat DEF Executes
      <4> QED BY <4>2, <1>2, <1>3
    <3>2. \A i \in 1 .. Len(acc) + Len(new) : (acc \o new)[i] =
              IF i <= Len(acc) THEN acc[i] ELSE new[i - Len(acc)]
      BY <1>2, ConcatProperties
    <3> QED BY <3>1, <3>2, <1>2, <1>3
  <2> HIDE DEF acc
  <2>3. StatesOK(acc \o new, batchNumToStateRoot[r], lastVerifiedBatchBeforeUpgrade[r],
                 rollupTypeID[r])
    BY <2>1, <2>2, StatesKept
  <2> QED BY <2>3, <1>3, <1>4 DEF RollupStatesOK, registryVars
<1>14. RollupForcedOK(r)'
  <2>1. ForcedInOrder(acc, lastForceBatchSequenced[r]) /\ lastForceBatchSequenced[r] \in Nat
    BY <1>1, PendingFacts DEF RollupOK, RollupForcedOK
  <2> HIDE DEF acc
  <2>2. ForcedInOrder(acc \o new, lastForceBatchSequenced[r] + m)
    BY <2>1, <1>2, ForcedExtend
  <2> QED BY <2>2, <1>3, <1>9 DEF RollupForcedOK
<1>15. ASSUME NEW q \in RollupIDs PROVE RollupOK(q)'
  <2>1. CASE q = r
    BY <2>1, <1>12, <1>13, <1>14 DEF RollupOK, RollupHistoryOK, RollupStatesOK,
       RollupForcedOK, PendingForced
  <2>2. CASE q # r
    <3>1. RollupOK(q)
      BY DEF SystemInv
    <3> QED BY <2>2, <3>1, <1>3, <1>4, <1>7, <1>9, UntouchedRollup DEF registryVars
  <2> QED BY <2>1, <2>2
<1>16. Chain!Extend(r)
  BY <1>1, <1>4, ListGrows
<1> QED BY <1>6, <1>10, <1>11, <1>15, <1>16 DEF SystemInv

\* A forced batch that is stored can be read: it is a batch of the list.
LEMMA StoredForcedBatch ==
    ASSUME SystemInv, NEW r \in RollupIDs, NEW i \in ForcedIDs,
           forcedBatches[r][i] # NoForcedBatch
    PROVE  ForcedBatch(r, i) \in BatchData /\ ForcedBatch(r, i).forced = i
<1>1. forcedBatches[r][i] \in ForcedData
  BY DEF SystemInv, ConsensusTypeOK
<1>2. forcedBatches[r][i].tx \in Txs /\ i \in 0..MaxForced
  BY <1>1, SystemAssumption DEF ForcedData, ForcedIDs
<1> QED BY <1>2 DEF ForcedBatch, BatchData

\* The j-th batch of the queue, for j up to the number taken.
LEMMA TakenForcedBatch ==
    ASSUME SystemInv, NEW r \in RollupIDs, NEW m \in Nat, TakeForced(r, m),
           NEW j \in 1..m
    PROVE  LET i == lastForceBatchSequenced[r] + j
           IN  ForcedBatch(r, i) \in BatchData /\ ForcedBatch(r, i).forced = i
<1> DEFINE i == lastForceBatchSequenced[r] + j
<1>1. forcedBatches[r][i] # NoForcedBatch /\ m <= PendingForced(r)
  BY DEF TakeForced, ForcedAvailable
<1>2. i \in ForcedIDs
  <2>1. PendingForced(r) = lastForceBatch[r] - lastForceBatchSequenced[r]
    BY DEF PendingForced
  <2> QED BY <2>1, <1>1, PendingFacts DEF ForcedIDs
<1> HIDE DEF i
<1>3. ForcedBatch(r, i) \in BatchData /\ ForcedBatch(r, i).forced = i
  BY <1>1, <1>2, StoredForcedBatch
<1> QED BY <1>3 DEF i

\* What the sequencer's list becomes is a list of batches, the forced in order.
LEMMA HashedFacts ==
    ASSUME SystemInv, NEW r \in RollupIDs, NEW batches \in Seq(Txs \cup {Forced}),
           NEW m, m = ForcedAmong(batches, Len(batches)), TakeForced(r, m)
    PROVE  /\ Hashed(r, batches) \in Seq(BatchData)
           /\ Len(Hashed(r, batches)) = Len(batches)
           /\ TakesInOrder(Hashed(r, batches), lastForceBatchSequenced[r], m)
<1> DEFINE taken == lastForceBatchSequenced[r]
           n == Len(batches)
           new == Hashed(r, batches)
           upTo(k) == ForcedAmong(batches, k)
<1>1. /\ n \in Nat /\ taken \in Nat /\ m \in 0..n
      /\ \A k \in 1..n : batches[k] \in Txs \cup {Forced}
  BY PendingFacts, ForcedAmongFacts
<1>2. ASSUME NEW k \in 1..n
      PROVE  /\ upTo(k) \in 0..m
             /\ batches[k] = Forced => upTo(k) \in 1..m
             /\ \A j \in 1..n : (j < k /\ batches[k] = Forced) => upTo(j) < upTo(k)
  <2>1. upTo(k) \in 0..k /\ upTo(k) <= m /\ m \in Nat
    BY <1>1, ForcedAmongFacts
  <2>2. \A j \in 0..k : (j < k /\ batches[k] = Forced) => upTo(j) < upTo(k)
    BY ForcedAmongFacts
  <2>3. upTo(0) \in 0..0
    BY ForcedAmongFacts
  <2>4. batches[k] = Forced => upTo(k) \in 1..m
    <3>1. 0 \in 0..k /\ 0 < k
      OBVIOUS
    <3> QED BY <2>1, <2>2, <2>3, <3>1
  <2> QED BY <2>1, <2>2, <2>4
<1> HIDE DEF upTo
<1>3. ASSUME NEW k \in 1..n
      PROVE  /\ new[k] \in BatchData
             /\ batches[k] = Forced => new[k].forced = taken + upTo(k)
             /\ batches[k] # Forced => new[k].forced = 0
  <2>1. CASE batches[k] = Forced
    <3>1. new[k] = ForcedBatch(r, taken + upTo(k))
      BY <2>1 DEF Hashed, upTo
    <3>2. upTo(k) \in 1..m
      BY <1>2, <2>1
    <3> HIDE DEF new
    <3> QED BY <2>1, <3>1, <3>2, <1>1, TakenForcedBatch
  <2>2. CASE batches[k] # Forced
    <3>1. new[k] = [forced |-> 0, tx |-> batches[k]]
      BY <2>2 DEF Hashed
    <3>2. batches[k] \in Txs /\ 0 \in 0..MaxForced
      BY <2>2, <1>1, SystemAssumption
    <3> HIDE DEF new
    <3> QED BY <2>2, <3>1, <3>2 DEF BatchData
  <2> QED BY <2>1, <2>2
<1>4. new \in Seq(BatchData) /\ Len(new) = n
  <2>1. new = [k \in 1..n |-> new[k]]
    BY DEF Hashed
  <2> HIDE DEF new
  <2>2. new \in [1..n -> BatchData]
    BY <2>1, <1>3
  <2> QED BY <2>2, <1>1
<1> HIDE DEF new
<1>5. TakesInOrder(new, taken, m)
  <2>1. ASSUME NEW k \in 1..n
        PROVE  new[k].forced = 0 \/ (taken < new[k].forced /\ new[k].forced <= taken + m)
    BY <1>1, <1>2, <1>3
  <2>2. ASSUME NEW j \in 1..n, NEW k \in 1..n, j < k,
               new[j].forced # 0, new[k].forced # 0
        PROVE  new[j].forced < new[k].forced
    <3>1. batches[j] = Forced /\ batches[k] = Forced
      BY <2>2, <1>3
    <3>2. upTo(j) < upTo(k) /\ upTo(j) \in 0..m /\ upTo(k) \in 0..m
      BY <2>2, <3>1, <1>2
    <3> QED BY <3>1, <3>2, <1>1, <1>3
  <2> QED BY <2>1, <2>2, <1>4 DEF TakesInOrder
<1> QED BY <1>4, <1>5 DEF new

\* The next m batches of the queue, as sequenceForceBatches reads them.
LEMMA ForcedRunFacts ==
    ASSUME SystemInv, NEW r \in RollupIDs, NEW m \in Nat \ {0}, TakeForced(r, m),
           NEW new, new = [k \in 1..m |-> ForcedBatch(r, lastForceBatchSequenced[r] + 1 + k - 1)]
    PROVE  /\ new \in Seq(BatchData) /\ Len(new) = m
           /\ TakesInOrder(new, lastForceBatchSequenced[r], m)
<1> DEFINE taken == lastForceBatchSequenced[r]
<1>1. taken \in Nat
  BY PendingFacts
<1>2. ASSUME NEW k \in 1..m PROVE new[k] \in BatchData /\ new[k].forced = taken + k
  <2>1. taken + 1 + k - 1 = taken + k
    BY <1>1
  <2>2. new[k] = ForcedBatch(r, taken + k)
    BY <2>1
  <2> QED BY <2>2, TakenForcedBatch
<1>3. new \in Seq(BatchData) /\ Len(new) = m
  <2>1. new \in [1..m -> BatchData]
    BY <1>2
  <2> QED BY <2>1
<1> HIDE DEF taken
<1>4. TakesInOrder(new, taken, m)
  <2>1. ASSUME NEW k \in 1..Len(new)
        PROVE  taken < new[k].forced /\ new[k].forced <= taken + m
    <3>1. k \in 1..m
      BY <1>3
    <3>2. new[k].forced = taken + k
      BY <3>1, <1>2
    <3> QED BY <3>1, <3>2, <1>1
  <2>2. ASSUME NEW j \in 1..Len(new), NEW k \in 1..Len(new), j < k
        PROVE  new[j].forced < new[k].forced
    <3>1. j \in 1..m /\ k \in 1..m
      BY <1>3
    <3>2. new[j].forced = taken + j /\ new[k].forced = taken + k
      BY <3>1, <1>2
    <3> QED BY <2>2, <3>1, <3>2, <1>1
  <2> QED BY <2>1, <2>2 DEF TakesInOrder
<1> QED BY <1>3, <1>4 DEF taken

LEMMA SequenceBatchesSystem ==
    ASSUME SystemInv, NEW r \in Rollups, NEW batches \in BatchLists,
           SequenceBatches(r, batches)
    PROVE  Next /\ SystemInv' /\ Chain!Extend(r)
<1> DEFINE n == Len(batches)
           m == ForcedAmong(batches, n)
           payment == PolPerForceBatch(r) * m + batchFee * (n - m)
<1>1. r \in RollupIDs /\ TypeOK
  BY RollupsAreIDs DEF SystemInv, IInv
<1>2. batches \in Seq(Txs \cup {Forced}) /\ n \in Nat /\ n # 0
  <2>1. PICK k \in 1..MaxSequence : batches \in [1..k -> Txs \cup {Forced}]
    BY DEF BatchLists
  <2>2. k \in Nat /\ k # 0
    BY SystemAssumption
  <2>3. batches \in Seq(Txs \cup {Forced}) /\ Len(batches) = k
    BY <2>1, <2>2
  <2> QED BY <2>2, <2>3
<1>3. m \in 0..n
  BY <1>2, ForcedAmongFacts
<1>4. /\ UpdateGlobalExitRoot /\ TakeForced(r, m)
      /\ lastAccInputHash' = [lastAccInputHash EXCEPT
             ![r] = lastAccInputHash[r] \o Hashed(r, batches)]
      /\ ReportBatches(r, n, lastAccInputHash'[r], payment)
      /\ UNCHANGED forceBatchTimeout
  BY DEF SequenceBatches, Accumulated
<1>5. payment \in Nat
  <2>1. PolPerForceBatch(r) \in Nat /\ batchFee \in Nat
    BY <1>1, PendingFacts, ManagerAssumption DEF TypeOK
  <2>2. PolPerForceBatch(r) * m \in Nat /\ batchFee * (n - m) \in Nat
    <3> HIDE DEF m, n
    <3> QED BY <2>1, <1>2, <1>3
  <2> QED BY <2>2
<1>6. /\ Hashed(r, batches) \in Seq(BatchData)
      /\ Len(Hashed(r, batches)) = n
      /\ TakesInOrder(Hashed(r, batches), lastForceBatchSequenced[r], m)
  BY <1>1, <1>2, <1>4, HashedFacts
<1>7. m \in Nat
  BY <1>2, <1>3
<1> HIDE DEF m, n, payment
<1> QED BY <1>2, <1>4, <1>5, <1>6, <1>7, SequencingSystem

LEMMA SequenceForceBatchesSystem ==
    ASSUME SystemInv, NEW r \in Rollups, NEW n \in 1..MaxSequence,
           SequenceForceBatches(r, n)
    PROVE  Next /\ SystemInv' /\ Chain!Extend(r)
<1> DEFINE new == [k \in 1..n |-> ForcedBatch(r, lastForceBatchSequenced[r] + 1 + k - 1)]
           payment == PolPerForceBatch(r) * n
<1>1. r \in RollupIDs /\ n \in Nat \ {0}
  BY RollupsAreIDs, SystemAssumption DEF SystemInv, IInv
<1>2. /\ TakeForced(r, n)
      /\ lastAccInputHash' = [lastAccInputHash EXCEPT ![r] = lastAccInputHash[r] \o new]
      /\ ReportBatches(r, n, lastAccInputHash'[r], payment)
      /\ UNCHANGED <<exitVars, forceBatchTimeout>>
  BY DEF SequenceForceBatches, Accumulated
<1>3. payment \in Nat
  <2>1. PolPerForceBatch(r) \in Nat
    BY <1>1, PendingFacts
  <2> QED BY <2>1, <1>1
<1>4. /\ new \in Seq(BatchData) /\ Len(new) = n
      /\ TakesInOrder(new, lastForceBatchSequenced[r], n)
  BY <1>1, <1>2, ForcedRunFacts
<1> HIDE DEF new, payment
<1> QED BY <1>1, <1>2, <1>3, <1>4, SequencingSystem

-----------------------------------------------------------------------------
(* A rollup that joins, the forcing of a batch and its timeout. *)

\* The genesis state and the first batch are known to the manager.
LEMMA GenesisFacts ==
    /\ <<InitialBatch>> \in Seq(BatchData) /\ Len(<<InitialBatch>>) = 1
    /\ <<InitialBatch>> \in AccInputHashes
    /\ GenesisRoot \in Seq(StateEntries) /\ Len(GenesisRoot) = 1
    /\ GenesisRoot \in StateRoots
<1>1. MaxBatch \in Nat /\ MaxBatch # 0 /\ MaxForced \in Nat /\ MaxTypes \in Nat
  BY ManagerAssumption, SystemAssumption, ListsAssumption
<1>2. InitialBatch \in BatchData
  BY <1>1 DEF InitialBatch, BatchData
<1>3. [batch |-> Genesis, program |-> 0] \in StateEntries
  BY <1>1 DEF StateEntries
<1>4. /\ <<InitialBatch>> \in Seq(BatchData) /\ Len(<<InitialBatch>>) = 1
      /\ GenesisRoot \in Seq(StateEntries) /\ Len(GenesisRoot) = 1
  BY <1>2, <1>3 DEF GenesisRoot
<1>5. 1 \in 1..MaxBatch /\ 1 \in 1 .. MaxBatch + 1
  BY <1>1
<1> QED BY <1>4, <1>5, ListsAreKnown

\* A new rollup starts from the genesis of its type with one batch sequenced.
LEMMA AttachRollupSystem ==
    ASSUME SystemInv, NEW t \in TypeIDs, NEW c \in ChainIDs, AttachRollup(t, c)
    PROVE  Next /\ SystemInv' /\ [Chain!Next]_(Chain!vars)
<1> DEFINE first == <<InitialBatch>>
<1>1. AttachAggchainToAL(t, c, GenesisRoot, first) /\ UNCHANGED forcedVars
  BY DEF AttachRollup
<1>2. Next
  BY <1>1, GenesisFacts DEF Next
<1> SUFFICES SystemInv' /\ [Chain!Next]_(Chain!vars)
  BY <1>2
<1>3. IInv /\ TypeOK /\ IInv'
  BY <1>2, NextInvariant DEF SystemInv, IInv
<1>4. PICK vt \in VerifierTypes : vt = VerifierTypeOf(t)
  BY <1>3, TypesAreKnown
<1>5. t \in Nat /\ RegisterRollup(c, t, vt)
  BY <1>1, <1>3, <1>4, TypesAreKnown DEF AttachAggchainToAL
<1>6. PICK r \in RollupIDs : r = rollupCount + 1 /\ Fresh(r)
  BY <1>3, <1>5, RegisterRollupFacts
<1>7. /\ rollupTypeMap' = rollupTypeMap
      /\ rollupTypeID' = [rollupTypeID EXCEPT ![r] = t]
  BY <1>5, <1>6 DEF RegisterRollup
<1>8. ProgramsOK'
  <2>1. t \in 0..MaxTypes
    <3>1. /\ Len(rollupTypeMap) <= MaxTypes /\ MaxTypes \in Nat
          /\ rollupTypeMap \in Seq(RollupTypes)
      BY <1>3, ManagerAssumption DEF SystemInv, ProgramsOK, TypeOK
    <3> QED BY <3>1 DEF TypeIDs
  <2> QED BY <2>1, <1>7 DEF SystemInv, ProgramsOK
<1>9. \A q \in RollupIDs \ {r} : rollupTypeID'[q] = rollupTypeID[q]
  BY <1>7 DEF SystemInv, ProgramsOK
<1>10. /\ lastAccInputHash \in [RollupIDs -> Seq(BatchData)]
       /\ forceBatchTimeout \in [RollupIDs -> Nat]
  BY DEF SystemInv, ConsensusTypeOK
<1>11. \A q \in RollupIDs : RollupOK(q)
  BY DEF SystemInv
<1>12. CASE vt = "StateTransition"
  <2>1. /\ RecordSequence(r, 1, first)
        /\ batchNumToStateRoot' = [batchNumToStateRoot EXCEPT ![r][0] = GenesisRoot]
        /\ UNCHANGED <<lastVerifiedBatch, lastVerifiedBatchBeforeUpgrade>>
        /\ lastAccInputHash' = [lastAccInputHash EXCEPT ![r] = first]
        /\ forceBatchTimeout' = [forceBatchTimeout EXCEPT ![r] = ForceBatchTimeout]
    BY <1>4, <1>6, <1>12 DEF AttachRollup, AttachAggchainToAL
  <2>2. ConsensusTypeOK'
    <3>1. /\ lastAccInputHash' \in [RollupIDs -> Seq(BatchData)]
          /\ forceBatchTimeout' \in [RollupIDs -> Nat]
      BY <2>1, <1>10, GenesisFacts, SystemAssumption
    <3> QED BY <3>1, <1>1 DEF SystemInv, ConsensusTypeOK, forcedVars
  <2>3. /\ lastBatchSequenced'[r] = lastBatchSequenced[r] + 1
        /\ EndsOf(sequencedBatches'[r]) = EndsOf(sequencedBatches[r]) \cup {lastBatchSequenced'[r]}
        /\ \A q \in RollupIDs \ {r} :
              /\ lastBatchSequenced'[q] = lastBatchSequenced[q]
              /\ sequencedBatches'[q] = sequencedBatches[q]
    <3>1. first \in AccInputHashes /\ 1 \in Nat \ {0}
      BY GenesisFacts
    <3> HIDE DEF first
    <3> QED BY <3>1, <1>3, <2>1, RecordSequenceFacts
  <2>4. \A b \in Batches : sequencedBatches'[r][b] =
            IF b = 1 THEN SequencedBatch(first, 0) ELSE sequencedBatches[r][b]
    <3>1. lastBatchSequenced[r] = 0 /\ 0 + 1 = 1
      BY <1>6 DEF Fresh
    <3> QED BY <3>1, <2>1, <1>3 DEF RecordSequence, TypeOK
  <2>5. \A q \in RollupIDs \ {r} :
           /\ batchNumToStateRoot'[q] = batchNumToStateRoot[q]
           /\ lastAccInputHash'[q] = lastAccInputHash[q]
    BY <2>1, <1>3, <1>10 DEF TypeOK
  <2>6. /\ lastAccInputHash'[r] = first /\ rollupTypeID'[r] = t
        /\ \A b \in Batches : batchNumToStateRoot'[r][b] =
               IF b = 0 THEN GenesisRoot ELSE ZeroHash
    <3>1. \A b \in Batches : batchNumToStateRoot[r][b] = ZeroHash
      BY <1>6 DEF Fresh
    <3>2. batchNumToStateRoot \in [RollupIDs -> [Batches -> StateRoots \cup {ZeroHash}]]
      BY <1>3 DEF TypeOK
    <3>3. rollupTypeID \in [RollupIDs -> 0..MaxTypes]
      BY DEF SystemInv, ProgramsOK
    <3> QED BY <3>1, <3>2, <3>3, <1>7, <1>10, <2>1
  <2>7. /\ lastBatchSequenced[r] = 0
        /\ HistoryOK(lastAccInputHash[r], sequencedBatches[r], 0)
        /\ lastAccInputHash[r] = <<>>
        /\ <<>> \o first = first
    <3>1. /\ lastBatchSequenced[r] = 0
          /\ HistoryOK(lastAccInputHash[r], sequencedBatches[r], 0)
      BY <1>6, <1>11 DEF Fresh, RollupOK, RollupHistoryOK
    <3>2. lastAccInputHash[r] = <<>>
      BY <3>1 DEF HistoryOK
    <3> QED BY <3>1, <3>2, GenesisFacts
  <2>8. Chain!Extend(r)
    <3>1. lastAccInputHash' = [lastAccInputHash EXCEPT ![r] = lastAccInputHash[r] \o first]
      BY <2>1, <2>7
    <3> HIDE DEF first
    <3>2. first \in Seq(BatchData) /\ Len(first) # 0
      BY GenesisFacts DEF first
    <3> QED BY <3>1, <3>2, <2>1, ListGrows
  <2>9. RollupHistoryOK(r)'
    <3>1. 0 + Len(first) = 1
      BY GenesisFacts
    <3>2. 0 \in Batches /\ 1 \in Batches
      BY <2>1, <2>7, ManagerAssumption DEF RecordSequence, Batches
    <3>3. /\ EndsOf(sequencedBatches'[r]) = EndsOf(sequencedBatches[r]) \cup {1}
          /\ lastBatchSequenced'[r] = 1
      BY <2>3, <2>7
    <3>4. PICK seq, longer : seq = sequencedBatches[r] /\ longer = sequencedBatches'[r]
      OBVIOUS
    <3> HIDE DEF first
    <3>5. HistoryOK(<<>> \o first, longer, 0 + Len(first))
      <4>1. /\ 0 + Len(first) \in Batches
            /\ HistoryOK(<<>>, seq, 0)
            /\ EndsOf(longer) = EndsOf(seq) \cup {0 + Len(first)}
            /\ \A b \in Batches : longer[b] =
                  IF b = 0 + Len(first) THEN SequencedBatch(<<>> \o first, 0) ELSE seq[b]
        BY <2>7, <3>1, <3>2, <3>3, <3>4, <2>4
      <4>2. first \in Seq(BatchData)
        BY GenesisFacts DEF first
      <4> QED BY <4>1, <4>2, <3>2, HistoryAppend
    <3> QED BY <2>6, <2>7, <3>1, <3>3, <3>4, <3>5 DEF RollupHistoryOK
  <2>10. RollupStatesOK(r)'
    <3>1. Executes(GenesisRoot, first, 0)
      BY GenesisFacts DEF Executes
    <3>2. lastVerifiedBatchBeforeUpgrade'[r] = 0
      BY <2>1, <1>6 DEF Fresh
    <3>3. PICK roots : roots = batchNumToStateRoot'[r]
      OBVIOUS
    <3> HIDE DEF first
    <3>4. StatesOK(first, roots, 0, t)
      <4>1. \A b \in Batches : roots[b] # ZeroHash => b = 0 /\ roots[b] = GenesisRoot
        BY <3>3, <2>6
      <4>2. \A a \in Batches : ~(a < 0)
        BY BatchesAreNat
      <4> QED BY <4>1, <4>2, <3>1 DEF StatesOK
    <3> QED BY <3>2, <3>3, <3>4, <2>6 DEF RollupStatesOK
  <2>11. RollupForcedOK(r)'
    <3>1. ForcedInOrder(first, lastForceBatchSequenced[r])
      <4>1. lastForceBatchSequenced[r] \in Nat
        BY SystemAssumption DEF SystemInv, ConsensusTypeOK
      <4>2. Len(first) = 1 /\ first[1].forced = 0
        BY DEF InitialBatch
      <4> HIDE DEF first
      <4> QED BY <4>1, <4>2 DEF ForcedInOrder
    <3> QED BY <3>1, <2>6, <1>1, <1>11, ForcedUntouched DEF RollupOK
  <2>12. ASSUME NEW q \in RollupIDs PROVE RollupOK(q)'
    <3>1. CASE q = r
      BY <3>1, <2>9, <2>10, <2>11 DEF RollupOK, RollupHistoryOK, RollupStatesOK,
         RollupForcedOK, PendingForced
    <3>2. CASE q # r
      BY <3>2, <1>1, <1>9, <1>11, <2>1, <2>3, <2>5, UntouchedRollup DEF forcedVars
    <3> QED BY <3>1, <3>2
  <2> QED BY <1>3, <1>8, <2>2, <2>12, <2>8 DEF SystemInv, Chain!Next
<1>13. CASE vt # "StateTransition"
  <2>1. UNCHANGED <<ledgerVars, lastAccInputHash, forceBatchTimeout>>
    BY <1>4, <1>13 DEF AttachRollup, AttachAggchainToAL
  <2>2. ConsensusTypeOK'
    BY <2>1, <1>1 DEF SystemInv, ConsensusTypeOK, forcedVars
  <2>3. ASSUME NEW q \in RollupIDs PROVE RollupOK(q)'
    <3>1. CASE q # r
      BY <3>1, <2>1, <1>1, <1>9, <1>11, UntouchedRollup DEF forcedVars, ledgerVars
    <3>2. CASE q = r
      <4>1. RollupHistoryOK(r)'
        BY <2>1, <1>11 DEF RollupOK, RollupHistoryOK, ledgerVars
      <4>2. RollupStatesOK(r)'
        <5>1. \A b \in Batches : batchNumToStateRoot'[r][b] = ZeroHash
          BY <2>1, <1>6 DEF Fresh, ledgerVars
        <5> QED BY <5>1 DEF RollupStatesOK, StatesOK
      <4>3. RollupForcedOK(r)'
        BY <2>1, <1>1, <1>11, ForcedUntouched DEF RollupOK, RollupForcedOK
      <4> QED BY <3>2, <4>1, <4>2, <4>3 DEF RollupOK, RollupHistoryOK, RollupStatesOK,
                 RollupForcedOK, PendingForced
    <3> QED BY <3>1, <3>2
  <2> QED BY <1>3, <1>8, <2>1, <2>2, <2>3 DEF SystemInv, Chain!vars, ledgerVars
<1> QED BY <1>12, <1>13

\* What a step that the manager does not see leaves of the invariant.
LEMMA ManagerUntouched ==
    ASSUME SystemInv, UNCHANGED managerVars
    PROVE  /\ IInv' /\ ProgramsOK'
           /\ UNCHANGED <<ledgerVars, rollupTypeMap, rollupTypeID>>
<1>1. IInv'
  BY NextInvariant DEF SystemInv
<1>2. UNCHANGED <<ledgerVars, rollupTypeMap, rollupTypeID>>
  BY DEF managerVars, registryVars
<1> QED BY <1>1, <1>2 DEF SystemInv, ProgramsOK

(***************************************************************************)
(* A forced batch is put at the end of the queue with its fee, which is at *)
(* least the lowest one.                                                   *)
(***************************************************************************)
LEMMA ForceBatchSystem ==
    ASSUME SystemInv, NEW r \in Rollups, NEW tx \in Txs, ForceBatch(r, tx)
    PROVE  SystemInv'
<1> DEFINE taken == lastForceBatchSequenced[r]
           last == lastForceBatch[r]
           pol == rollupPol[r]
           entry == [tx |-> tx, forcedTimestamp |-> now]
<1>1. IInv' /\ ProgramsOK' /\ UNCHANGED <<ledgerVars, rollupTypeMap, rollupTypeID>>
  BY ManagerUntouched DEF ForceBatch
<1>2. TypeOK /\ r \in RollupIDs
  BY RollupsAreIDs DEF SystemInv, IInv
<1>3. /\ last \in Nat /\ taken \in Nat /\ taken <= last /\ MaxForced \in Nat
      /\ PendingForced(r) \in Nat /\ pol \in Nat
      /\ PendingForced(r) = last - taken
      /\ last < MaxForced
  BY <1>2, PendingFacts DEF PendingForced, ForceBatch
<1>4. last + 1 \in ForcedIDs /\ last + 1 \in 0..MaxForced
  <2> HIDE DEF last
  <2> QED BY <1>3 DEF ForcedIDs
<1>5. entry \in ForcedData /\ entry # NoForcedBatch
  BY <1>2, ListsAssumption DEF ForcedData, TypeOK
<1>6. /\ lastForceBatch' = [lastForceBatch EXCEPT ![r] = last + 1]
      /\ forcedBatches' = [forcedBatches EXCEPT ![r][last + 1] = entry]
      /\ rollupPol' = [rollupPol EXCEPT ![r] = pol + batchFee * ForcedFeeFactor]
      /\ UNCHANGED <<lastAccInputHash, lastForceBatchSequenced, forceBatchTimeout>>
  BY DEF ForceBatch, GetForcedBatchFee
<1>7. /\ batchFee \in BatchFees /\ batchFee \in Nat /\ ForcedFeeFactor \in Nat
      /\ batchFee * ForcedFeeFactor \in Nat
  BY <1>2, ManagerAssumption, SystemAssumption DEF TypeOK
<1>8. /\ lastForceBatch \in [RollupIDs -> 0..MaxForced]
      /\ forcedBatches \in [RollupIDs -> [ForcedIDs -> ForcedData \cup {NoForcedBatch}]]
      /\ rollupPol \in [RollupIDs -> Nat]
      /\ RollupOK(r)
  BY <1>2 DEF SystemInv, ConsensusTypeOK
<1> HIDE DEF entry
<1>9. /\ lastForceBatch' \in [RollupIDs -> 0..MaxForced]
      /\ forcedBatches' \in [RollupIDs -> [ForcedIDs -> ForcedData \cup {NoForcedBatch}]]
      /\ lastForceBatch'[r] = last + 1
      /\ \A i \in ForcedIDs :
            forcedBatches'[r][i] = IF i = last + 1 THEN entry ELSE forcedBatches[r][i]
      /\ \A q \in RollupIDs \ {r} :
            /\ lastForceBatch'[q] = lastForceBatch[q]
            /\ forcedBatches'[q] = forcedBatches[q]
  <2> HIDE DEF last
  <2> QED BY <1>2, <1>4, <1>5, <1>6, <1>8
<1>10. /\ rollupPol' \in [RollupIDs -> Nat]
       /\ rollupPol'[r] = pol + batchFee * ForcedFeeFactor
       /\ \A q \in RollupIDs \ {r} : rollupPol'[q] = rollupPol[q]
  <2>1. pol + batchFee * ForcedFeeFactor \in Nat
    BY <1>3, <1>7
  <2> HIDE DEF pol
  <2> QED BY <2>1, <1>2, <1>6, <1>8
<1>11. ConsensusTypeOK'
  BY <1>6, <1>9, <1>10 DEF SystemInv, ConsensusTypeOK
<1>12. QueueOK(forcedBatches'[r], taken, last + 1)
  <2>1. QueueOK(forcedBatches[r], taken, last)
    BY <1>8 DEF RollupOK, RollupForcedOK
  <2>2. PICK queue, more : queue = forcedBatches[r] /\ more = forcedBatches'[r]
    OBVIOUS
  <2>3. /\ QueueOK(queue, taken, last)
        /\ \A i \in ForcedIDs : more[i] = IF i = last + 1 THEN entry ELSE queue[i]
    BY <2>1, <2>2, <1>9
  <2> HIDE DEF taken, last
  <2>4. QueueOK(more, taken, last + 1)
    BY <2>3, <1>3, <1>5, QueueAdd
  <2> QED BY <2>2, <2>4
<1>13. FundedOK(rollupPol'[r], last + 1 - taken)
  <2>1. PICK fee \in BatchFees :
            IsLowestFee(fee) /\ pol >= PendingForced(r) * fee * ForcedFeeFactor
    BY <1>8 DEF RollupOK, RollupForcedOK, FundedOK
  <2>2. fee \in Nat /\ fee <= batchFee
    BY <2>1, <1>7, ManagerAssumption DEF IsLowestFee
  <2> DEFINE price == fee * ForcedFeeFactor
             pending == PendingForced(r)
  <2>3. price \in Nat /\ price <= batchFee * ForcedFeeFactor
    <3>1. PICK more \in Nat : batchFee = fee + more
      <4>1. batchFee - fee \in Nat /\ batchFee = fee + (batchFee - fee)
        BY <2>2, <1>7
      <4> QED BY <4>1
    <3>2. batchFee * ForcedFeeFactor = fee * ForcedFeeFactor + more * ForcedFeeFactor
      BY <3>1, <2>2, <1>7
    <3>3. fee * ForcedFeeFactor \in Nat /\ more * ForcedFeeFactor \in Nat
      BY <3>1, <2>2, <1>7
    <3> QED BY <3>2, <3>3
  <2>4. /\ pending \in Nat
        /\ pending * fee * ForcedFeeFactor = pending * price
        /\ (pending + 1) * fee * ForcedFeeFactor = (pending + 1) * price
        /\ (pending + 1) * price = pending * price + price
        /\ pending * price \in Nat
    BY <1>3, <1>7, <2>2, <2>3
  <2>5. last + 1 - taken = pending + 1
    <3> HIDE DEF last, taken
    <3> QED BY <1>3
  <2> HIDE DEF price, pending
  <2>6. pol + batchFee * ForcedFeeFactor >= (pending + 1) * fee * ForcedFeeFactor
    <3>1. pol >= pending * price
      BY <2>1, <2>4 DEF pending
    <3> HIDE DEF pol
    <3> QED BY <3>1, <2>3, <2>4, <1>3, <1>7
  <2> QED BY <2>1, <2>5, <2>6, <1>10 DEF FundedOK
<1>14. RollupForcedOK(r)'
  <2>1. PendingForced(r)' = last + 1 - taken
    <3>1. lastForceBatch'[r] = last + 1 /\ lastForceBatchSequenced'[r] = taken
      BY <1>6, <1>9
    <3> HIDE DEF last, taken
    <3> QED BY <3>1, <1>3 DEF PendingForced
  <2>2. ForcedInOrder(lastAccInputHash'[r], lastForceBatchSequenced'[r])
    BY <1>6, <1>8 DEF RollupOK, RollupForcedOK
  <2> QED BY <2>1, <2>2, <1>6, <1>9, <1>12, <1>13 DEF RollupForcedOK
<1>15. ASSUME NEW q \in RollupIDs PROVE RollupOK(q)'
  <2>1. CASE q = r
    <3>1. RollupHistoryOK(r)' /\ RollupStatesOK(r)'
      BY <1>1, <1>6, <1>8 DEF RollupOK, RollupHistoryOK, RollupStatesOK, ledgerVars
    <3> QED BY <2>1, <3>1, <1>14 DEF RollupOK, RollupHistoryOK, RollupStatesOK,
               RollupForcedOK, PendingForced
  <2>2. CASE q # r
    <3>1. RollupOK(q)
      BY DEF SystemInv
    <3> QED BY <2>2, <3>1, <1>1, <1>6, <1>9, <1>10, UntouchedRollup DEF ledgerVars
  <2> QED BY <2>1, <2>2
<1> QED BY <1>1, <1>11, <1>15 DEF SystemInv

LEMMA SetForceBatchTimeoutSystem ==
    ASSUME SystemInv, NEW r \in Rollups, NEW timeout \in ForceBatchTimeouts,
           SetForceBatchTimeout(r, timeout)
    PROVE  SystemInv'
<1>1. IInv' /\ ProgramsOK' /\ UNCHANGED <<ledgerVars, rollupTypeMap, rollupTypeID>>
  BY ManagerUntouched DEF SetForceBatchTimeout
<1>2. UNCHANGED <<lastAccInputHash, forcedVars>>
  BY DEF SetForceBatchTimeout
<1>3. forceBatchTimeout' \in [RollupIDs -> Nat]
  <2>1. timeout \in Nat
    BY SystemAssumption
  <2> QED BY <2>1 DEF SystemInv, ConsensusTypeOK, SetForceBatchTimeout
<1>4. ConsensusTypeOK'
  BY <1>2, <1>3 DEF SystemInv, ConsensusTypeOK, forcedVars
<1>5. ASSUME NEW q \in RollupIDs PROVE RollupOK(q)'
  <2>1. RollupOK(q)
    BY DEF SystemInv
  <2> QED BY <2>1, <1>1, <1>2, UntouchedRollup DEF ledgerVars, forcedVars
<1> QED BY <1>1, <1>4, <1>5 DEF SystemInv

-----------------------------------------------------------------------------
(* Rollback and verification. *)

(***************************************************************************)
(* A rollback cuts the list at its target, above every state, and gives    *)
(* the consensus contract the hash of what is left.  The queue stays as it *)
(* is: forced batches that are cut off do not return to it.                *)
(***************************************************************************)
LEMMA RollbackSystem ==
    ASSUME SystemInv, NEW r \in Rollups, NEW target \in Batches, Rollback(r, target)
    PROVE  Next /\ SystemInv' /\ Chain!Truncate(r)
<1> DEFINE cut == sequencedBatches'[r][target].accInputHash
<1>1. /\ RollbackBatches(r, target)
      /\ lastAccInputHash' = [lastAccInputHash EXCEPT ![r] = cut]
      /\ UNCHANGED <<forcedVars, forceBatchTimeout>>
  BY DEF Rollback, HashToRollback
<1>2. Next
  BY <1>1 DEF Next
<1> SUFFICES SystemInv' /\ Chain!Truncate(r)
  BY <1>2
<1>3. IInv /\ TypeOK /\ IInv'
  BY <1>2, NextInvariant DEF SystemInv, IInv
<1>4. /\ r \in RollupIDs
      /\ target < lastBatchSequenced[r] /\ lastVerifiedBatch[r] <= target
      /\ sequencedBatches' \in [RollupIDs -> Ledger]
      /\ EndsOf(sequencedBatches'[r]) = {e \in EndsOf(sequencedBatches[r]) : e <= target}
      /\ target \in EndsOf(sequencedBatches[r])
      /\ \A b \in Batches : b <= target => sequencedBatches'[r][b] = sequencedBatches[r][b]
      /\ lastBatchSequenced'[r] = target
      /\ \A q \in RollupIDs \ {r} :
            /\ sequencedBatches'[q] = sequencedBatches[q]
            /\ lastBatchSequenced'[q] = lastBatchSequenced[q]
  BY <1>1, <1>3, RollbackFacts
<1>5. UNCHANGED <<rollupTypeMap, rollupTypeID, lastVerifiedBatch,
                  lastVerifiedBatchBeforeUpgrade, batchNumToStateRoot>>
  BY <1>1 DEF RollbackBatches, registryVars
<1>6. PICK acc \in Seq(BatchData), seq \in Ledger, shorter \in Ledger, last \in Batches :
          /\ acc = lastAccInputHash[r] /\ seq = sequencedBatches[r]
          /\ shorter = sequencedBatches'[r] /\ last = lastBatchSequenced[r]
  <2>1. /\ lastAccInputHash[r] \in Seq(BatchData)
        /\ sequencedBatches[r] \in Ledger /\ sequencedBatches'[r] \in Ledger
        /\ lastBatchSequenced[r] \in Batches
    BY <1>3, <1>4 DEF SystemInv, ConsensusTypeOK, TypeOK, Ledger
  <2> QED BY <2>1
<1>7. RollupOK(r) /\ HistoryOK(acc, seq, last) /\ acc \in Seq(BatchData) /\ Len(acc) = last
  BY <1>4, <1>6 DEF SystemInv, RollupOK, RollupHistoryOK, HistoryOK
<1>8. HistoryOK(cut, shorter, target) /\ IsPrefix(cut, acc, target)
  <2>1. /\ target \in EndsOf(seq)
        /\ EndsOf(shorter) = {e \in EndsOf(seq) : e <= target}
        /\ \A b \in EndsOf(shorter) : shorter[b] = seq[b]
    BY <1>4, <1>6 DEF EndsOf
  <2>2. cut = shorter[target].accInputHash
    BY <1>6
  <2> HIDE DEF cut
  <2> QED BY <2>1, <2>2, <1>7, HistoryTruncate
<1> HIDE DEF cut
<1>9. /\ cut \in Seq(BatchData) /\ Len(cut) = target /\ target \in Nat
      /\ \A k \in 1..target : cut[k] = acc[k]
  BY <1>8, BatchesAreNat DEF IsPrefix
<1>10. /\ lastAccInputHash' \in [RollupIDs -> Seq(BatchData)]
       /\ lastAccInputHash'[r] = cut
       /\ \A q \in RollupIDs \ {r} : lastAccInputHash'[q] = lastAccInputHash[q]
  <2>1. lastAccInputHash \in [RollupIDs -> Seq(BatchData)]
    BY DEF SystemInv, ConsensusTypeOK
  <2> QED BY <2>1, <1>1, <1>4, <1>9
<1>11. ConsensusTypeOK'
  BY <1>1, <1>10 DEF SystemInv, ConsensusTypeOK, forcedVars
<1>12. ProgramsOK'
  BY <1>5 DEF SystemInv, ProgramsOK
<1>13. RollupHistoryOK(r)'
  BY <1>4, <1>6, <1>8, <1>10 DEF RollupHistoryOK
<1>14. RollupStatesOK(r)'
  <2>1. StatesOK(acc, batchNumToStateRoot[r], lastVerifiedBatchBeforeUpgrade[r],
                 rollupTypeID[r])
    BY <1>6, <1>7 DEF RollupOK, RollupStatesOK
  <2>2. ASSUME NEW b \in Batches, batchNumToStateRoot[r][b] # ZeroHash
        PROVE  b <= Len(cut) /\ \A k \in 1..b : cut[k] = acc[k]
    <3>1. b <= lastVerifiedBatch[r]
      BY <1>3, <1>4, <2>2 DEF IInv, RollupLedgerOK, LedgerOK
    <3>2. b \in Nat /\ lastVerifiedBatch[r] \in Nat
      BY <1>3, <1>4, BatchesAreNat DEF TypeOK
    <3>3. b <= target
      BY <1>4, <1>9, <3>1, <3>2
    <3> QED BY <3>2, <3>3, <1>9
  <2>3. StatesOK(cut, batchNumToStateRoot[r], lastVerifiedBatchBeforeUpgrade[r],
                 rollupTypeID[r])
    BY <2>1, <2>2, StatesKept
  <2> QED BY <2>3, <1>5, <1>10 DEF RollupStatesOK
<1>15. RollupForcedOK(r)'
  <2>1. ForcedInOrder(acc, lastForceBatchSequenced[r])
    BY <1>6, <1>7 DEF RollupOK, RollupForcedOK
  <2>2. ForcedInOrder(cut, lastForceBatchSequenced[r])
    BY <2>1, <1>7, <1>8, <1>9, ForcedTruncate
  <2> QED BY <2>2, <1>1, <1>4, <1>7, <1>10, ForcedUntouched DEF RollupOK
<1>16. ASSUME NEW q \in RollupIDs PROVE RollupOK(q)'
  <2>1. CASE q = r
    BY <2>1, <1>13, <1>14, <1>15 DEF RollupOK, RollupHistoryOK, RollupStatesOK,
       RollupForcedOK, PendingForced
  <2>2. CASE q # r
    <3>1. RollupOK(q)
      BY DEF SystemInv
    <3> QED BY <2>2, <3>1, <1>1, <1>4, <1>5, <1>10, UntouchedRollup DEF forcedVars
  <2> QED BY <2>1, <2>2
<1>17. Chain!Truncate(r)
  <2>1. cut = SubSeq(acc, 1, target) /\ target \in lastVerifiedBatch[r] .. Len(acc) - 1
    <3>1. Len(acc) \in Nat /\ target <= Len(acc) /\ lastVerifiedBatch[r] \in Nat
      BY <1>3, <1>4, <1>6, <1>7, <1>8, BatchesAreNat DEF IsPrefix, TypeOK
    <3>2. cut = SubSeq(acc, 1, target)
      BY <3>1, <1>6, <1>9, PrefixIsSubSeq
    <3> QED BY <3>1, <3>2, <1>4, <1>6, <1>7, <1>9
  <2> QED BY <2>1, <1>1, <1>5, <1>6 DEF Chain!Truncate, cut
<1> QED BY <1>3, <1>11, <1>12, <1>16, <1>17 DEF SystemInv

(***************************************************************************)
(* A proof of the batches from init to final adds the state they lead to.  *)
(* It is a root the manager may be given, so the step is one of its own.   *)
(***************************************************************************)
LEMMA VerifySystem ==
    ASSUME SystemInv, NEW r \in Rollups, NEW init \in Batches, NEW final \in Batches,
           NEW ler \in LocalExitRoots, Verify(r, init, final, ler)
    PROVE  Next /\ SystemInv' /\ Chain!Verify(r)
<1>1. IInv /\ TypeOK /\ r \in RollupIDs /\ RollupOK(r) /\ ProgramsOK
  BY RollupsAreIDs DEF SystemInv, IInv
<1>2. PICK acc \in Seq(BatchData), seq \in Ledger,
           roots \in [Batches -> StateRoots \cup {ZeroHash}],
           before \in Batches, verified \in Batches, program \in 0..MaxTypes :
          /\ acc = lastAccInputHash[r] /\ seq = sequencedBatches[r]
          /\ roots = batchNumToStateRoot[r]
          /\ before = lastVerifiedBatchBeforeUpgrade[r]
          /\ verified = lastVerifiedBatch[r] /\ program = rollupTypeID[r]
  <2>1. /\ lastAccInputHash[r] \in Seq(BatchData)
        /\ sequencedBatches[r] \in Ledger
        /\ batchNumToStateRoot[r] \in [Batches -> StateRoots \cup {ZeroHash}]
        /\ lastVerifiedBatchBeforeUpgrade[r] \in Batches
        /\ lastVerifiedBatch[r] \in Batches /\ rollupTypeID[r] \in 0..MaxTypes
    BY <1>1 DEF SystemInv, ConsensusTypeOK, TypeOK, Ledger, ProgramsOK
  <2> QED BY <2>1
<1>3. /\ HistoryOK(acc, seq, lastBatchSequenced[r])
      /\ StatesOK(acc, roots, before, program)
      /\ \A b \in Batches : roots[b] # ZeroHash => b <= verified
  BY <1>1, <1>2 DEF RollupOK, RollupHistoryOK, RollupStatesOK, IInv, RollupLedgerOK, LedgerOK
<1>4. /\ CanVerify(r, init, final)
      /\ UNCHANGED consensusVars
      /\ VerifyBatches(r, init, final, ler, ProvedStateRoot(r, init, final))
  BY DEF Verify
<1>5. /\ final \in EndsOf(seq) /\ verified < final /\ final <= lastBatchSequenced[r]
      /\ before <= init /\ init <= verified /\ roots[init] # ZeroHash
  <2>1. before \in Nat /\ init \in Nat /\ verified \in Nat
    BY BatchesAreNat
  <2> QED BY <2>1, <1>1, <1>2, <1>4, VerifiableBatch DEF CanVerify
<1>6. PICK hash : hash = seq[final].accInputHash
  OBVIOUS
<1>7. /\ acc \in Seq(BatchData) /\ Len(acc) = lastBatchSequenced[r]
      /\ IsPrefix(hash, acc, final)
  BY <1>3, <1>5, <1>6 DEF HistoryOK
<1>8. PICK root : root = Continued(roots[init], hash, init, final, program)
  OBVIOUS
<1>9. ProvedStateRoot(r, init, final) = root
  BY <1>2, <1>6, <1>8 DEF ProvedStateRoot, Continued
<1>10. init \in Nat /\ final \in Nat /\ verified \in Nat /\ init < final
  BY <1>5, BatchesAreNat
<1>11. root \in StateRoots
  <2>1. Executes(roots[init], acc, init)
    BY <1>3, <1>5 DEF StatesOK
  <2>2. root \in Seq(StateEntries) /\ Len(root) = final + 1
    <3>1. /\ roots[init] \in Seq(StateEntries) /\ Len(roots[init]) = init + 1
          /\ hash \in Seq(BatchData) /\ Len(hash) = final
      BY <2>1, <1>7 DEF Executes, IsPrefix
    <3> QED BY <3>1, <1>8, <1>10, ContinuedFacts DEF ContinuesTo
  <2>3. final + 1 \in 1 .. MaxBatch + 1
    BY <1>10, ManagerAssumption DEF Batches
  <2> QED BY <2>2, <2>3, ListsAreKnown
<1>12. VerifyBatches(r, init, final, ler, root)
  BY <1>4, <1>9
<1>13. Next
  BY <1>1, <1>11, <1>12 DEF Next
<1> SUFFICES SystemInv' /\ Chain!Verify(r)
  BY <1>13
<1>14. IInv'
  BY <1>1, <1>13, NextInvariant
<1>15. /\ UNCHANGED <<rollupTypeMap, rollupTypeID, lastBatchSequenced,
                      lastVerifiedBatchBeforeUpgrade, sequencedBatches>>
       /\ batchNumToStateRoot' = [batchNumToStateRoot EXCEPT ![r][final] = root]
  BY <1>12 DEF VerifyBatches, registryVars
<1>16. /\ \A b \in Batches :
             batchNumToStateRoot'[r][b] = IF b = final THEN root ELSE roots[b]
       /\ \A q \in RollupIDs \ {r} : batchNumToStateRoot'[q] = batchNumToStateRoot[q]
  BY <1>1, <1>2, <1>15 DEF TypeOK
<1>17. ConsensusTypeOK' /\ ProgramsOK'
  BY <1>4, <1>15 DEF SystemInv, ConsensusTypeOK, ProgramsOK, consensusVars, forcedVars
<1>18. RollupStatesOK(r)'
  <2>1. PICK more : more = batchNumToStateRoot'[r]
    OBVIOUS
  <2>2. \A b \in Batches : more[b] =
            IF b = final THEN Continued(roots[init], hash, init, final, program)
            ELSE roots[b]
    BY <2>1, <1>8, <1>16
  <2>3. final <= Len(acc)
    BY <1>5, <1>7
  <2>4. StatesOK(acc, more, before, program)
    BY <2>2, <2>3, <1>3, <1>5, <1>7, StatesVerify
  <2> QED BY <2>1, <2>4, <1>2, <1>4, <1>15 DEF RollupStatesOK, consensusVars
<1>19. RollupHistoryOK(r)' /\ RollupForcedOK(r)'
  BY <1>1, <1>4, <1>15 DEF RollupOK, RollupHistoryOK, RollupForcedOK, PendingForced,
     consensusVars, forcedVars
<1>20. ASSUME NEW q \in RollupIDs PROVE RollupOK(q)'
  <2>1. CASE q = r
    BY <2>1, <1>18, <1>19 DEF RollupOK, RollupHistoryOK, RollupStatesOK,
       RollupForcedOK, PendingForced
  <2>2. CASE q # r
    <3>1. RollupOK(q)
      BY DEF SystemInv
    <3> QED BY <2>2, <3>1, <1>4, <1>15, <1>16, UntouchedRollup
            DEF consensusVars, forcedVars
  <2> QED BY <2>1, <2>2
<1>21. Chain!Verify(r)
  <2>1. lastVerifiedBatch' = [lastVerifiedBatch EXCEPT ![r] = final]
    BY <1>12 DEF VerifyBatches
  <2>2. final \in lastVerifiedBatch[r] + 1 .. Len(lastAccInputHash[r])
    BY <1>2, <1>5, <1>7, <1>10
  <2> QED BY <2>1, <2>2, <1>4 DEF Chain!Verify, consensusVars
<1> QED BY <1>14, <1>17, <1>20, <1>21 DEF SystemInv

-----------------------------------------------------------------------------
(* The theorems. *)

\* Every step of the composition keeps the invariant, and is a step of the
\* manager and of the abstract chain, or leaves either alone.
LEMMA SystemStep ==
    ASSUME SystemInv, [SystemNext]_systemVars
    PROVE  SystemInv' /\ [Next]_managerVars /\ [Chain!Next]_(Chain!vars)
<1>1. CASE UNCHANGED systemVars
  <2>1. UNCHANGED managerVars /\ UNCHANGED consensusVars
    BY <1>1 DEF systemVars
  <2>2. SystemInv'
    <3>1. IInv' /\ ProgramsOK' /\ UNCHANGED <<ledgerVars, rollupTypeMap, rollupTypeID>>
      BY <2>1, ManagerUntouched
    <3> QED BY <2>1, <3>1, AdministrationKeeps
  <2>3. UNCHANGED Chain!vars
    BY <2>1 DEF Chain!vars, managerVars, ledgerVars, consensusVars
  <2> QED BY <2>1, <2>2, <2>3
<1>2. CASE (Administration \/ PessimisticVerification) /\ UNCHANGED consensusVars
  <2>1. Next /\ SystemInv'
    BY <1>2, AdministrationSystem
  <2>2. UNCHANGED Chain!vars
    <3>1. UNCHANGED lastVerifiedBatch
      BY <1>2 DEF Administration, PessimisticVerification, AddNewRollupType,
         ObsoleteRollupType, UpdateRollupByRollupAdmin, UpdateRollup, InitMigration,
         SwitchType, ActivateEmergencyState, DeactivateEmergencyState, SetBatchFee,
         Tick, Bridging, VerifyPessimistic, ledgerVars
    <3> QED BY <3>1, <1>2 DEF Chain!vars, consensusVars
  <2> QED BY <2>1, <2>2
<1>3. ASSUME NEW t \in TypeIDs, NEW c \in ChainIDs, AttachRollup(t, c)
      PROVE  Next /\ SystemInv' /\ [Chain!Next]_(Chain!vars)
  BY <1>3, AttachRollupSystem
<1>4. ASSUME NEW r \in Rollups,
             \/ \E batches \in BatchLists : SequenceBatches(r, batches)
             \/ \E tx \in Txs : ForceBatch(r, tx)
             \/ \E n \in 1..MaxSequence : SequenceForceBatches(r, n)
             \/ \E timeout \in ForceBatchTimeouts : SetForceBatchTimeout(r, timeout)
             \/ \E target \in Batches : Rollback(r, target)
             \/ \E init, final \in Batches, ler \in LocalExitRoots :
                   Verify(r, init, final, ler)
      PROVE  SystemInv' /\ [Next]_managerVars /\ [Chain!Next]_(Chain!vars)
  <2>1. r \in RollupIDs
    BY RollupsAreIDs DEF SystemInv, IInv
  <2>2. ASSUME NEW batches \in BatchLists, SequenceBatches(r, batches)
        PROVE  Next /\ SystemInv' /\ Chain!Extend(r)
    BY <2>2, SequenceBatchesSystem
  <2>3. ASSUME NEW n \in 1..MaxSequence, SequenceForceBatches(r, n)
        PROVE  Next /\ SystemInv' /\ Chain!Extend(r)
    BY <2>3, SequenceForceBatchesSystem
  <2>4. ASSUME NEW tx \in Txs, ForceBatch(r, tx)
        PROVE  SystemInv' /\ UNCHANGED managerVars /\ UNCHANGED Chain!vars
    <3>1. UNCHANGED managerVars /\ UNCHANGED lastAccInputHash
      BY <2>4 DEF ForceBatch
    <3> QED BY <2>4, <3>1, ForceBatchSystem DEF Chain!vars, managerVars, ledgerVars
  <2>5. ASSUME NEW timeout \in ForceBatchTimeouts, SetForceBatchTimeout(r, timeout)
        PROVE  SystemInv' /\ UNCHANGED managerVars /\ UNCHANGED Chain!vars
    <3>1. UNCHANGED managerVars /\ UNCHANGED lastAccInputHash
      BY <2>5 DEF SetForceBatchTimeout
    <3> QED BY <2>5, <3>1, SetForceBatchTimeoutSystem
            DEF Chain!vars, managerVars, ledgerVars
  <2>6. ASSUME NEW target \in Batches, Rollback(r, target)
        PROVE  Next /\ SystemInv' /\ Chain!Truncate(r)
    BY <2>6, RollbackSystem
  <2>7. ASSUME NEW init \in Batches, NEW final \in Batches, NEW ler \in LocalExitRoots,
               Verify(r, init, final, ler)
        PROVE  Next /\ SystemInv' /\ Chain!Verify(r)
    BY <2>7, VerifySystem
  <2>8. CASE \/ \E tx \in Txs : ForceBatch(r, tx)
             \/ \E timeout \in ForceBatchTimeouts : SetForceBatchTimeout(r, timeout)
    BY <2>4, <2>5, <2>8
  <2>9. CASE \/ \E batches \in BatchLists : SequenceBatches(r, batches)
             \/ \E n \in 1..MaxSequence : SequenceForceBatches(r, n)
             \/ \E target \in Batches : Rollback(r, target)
             \/ \E init, final \in Batches, ler \in LocalExitRoots :
                   Verify(r, init, final, ler)
    <3>1. Next /\ SystemInv' /\ (Chain!Extend(r) \/ Chain!Truncate(r) \/ Chain!Verify(r))
      BY <2>2, <2>3, <2>6, <2>7, <2>9
    <3> QED BY <2>1, <3>1 DEF Chain!Next
  <2> QED BY <1>4, <2>8, <2>9
<1> QED BY <1>1, <1>2, <1>3, <1>4 DEF SystemNext

\* The invariant of the composition holds of every behaviour of it.
THEOREM SystemInvariant == SystemSpec => []SystemInv
<1>1. SystemInit => SystemInv
  BY SystemInitInvariant
<1>2. SystemInv /\ [SystemNext]_systemVars => SystemInv'
  BY SystemStep
<1> QED BY <1>1, <1>2, PTL DEF SystemSpec

(***************************************************************************)
(* The composition implements the manager: what PolygonRollupBaseEtrog     *)
(* reports and pays is among what the manager takes from a consensus       *)
(* contract, so every theorem about the manager alone holds of both.       *)
(***************************************************************************)
THEOREM SystemImplementsManager == SystemSpec => Spec
<1>1. SystemInit => Init
  BY DEF SystemInit
<1>2. SystemInv /\ [SystemNext]_systemVars => [Next]_managerVars
  BY SystemStep
<1> QED BY <1>1, <1>2, SystemInvariant, PTL DEF SystemSpec, Spec

(***************************************************************************)
(* The two contracts together implement the abstract chain: batches are    *)
(* added at the end, only unverified ones are taken off, and verification  *)
(* only advances (sequenceBatches, sequenceForceBatches, rollbackBatches,  *)
(* _verifyAndRewardBatches).                                               *)
(***************************************************************************)
THEOREM SystemImplementsChain == SystemSpec => ImplementsBatchChain
<1>1. SystemInit => Chain!Init
  BY DEF SystemInit, Init, Chain!Init
<1>2. SystemInv /\ [SystemNext]_systemVars => [Chain!Next]_(Chain!vars)
  BY SystemStep
<1> QED BY <1>1, <1>2, SystemInvariant, PTL DEF SystemSpec, ImplementsBatchChain, Chain!Spec

(***************************************************************************)
(* Manager and consensus contract agree on the batches of every rollup: a  *)
(* stored sequence ends a prefix of the list the consensus contract goes   *)
(* on from (onSequenceBatches, the rollbackBatches callback).              *)
(***************************************************************************)
THEOREM HistoriesAgree == SystemSpec => []OneBatchHistory
<1>1. ASSUME SystemInv, NEW r \in RollupIDs
      PROVE  /\ Len(lastAccInputHash[r]) = lastBatchSequenced[r]
             /\ \A b \in SequenceEnds(r) :
                   sequencedBatches[r][b].accInputHash = SubSeq(lastAccInputHash[r], 1, b)
  <2> DEFINE acc == lastAccInputHash[r]
  <2>1. HistoryOK(acc, sequencedBatches[r], lastBatchSequenced[r])
    BY <1>1 DEF SystemInv, RollupOK, RollupHistoryOK
  <2>2. SequenceEnds(r) = EndsOf(sequencedBatches[r])
    BY DEF SequenceEnds, IsSequenced, EndsOf
  <2>3. ASSUME NEW b \in EndsOf(sequencedBatches[r])
        PROVE  sequencedBatches[r][b].accInputHash = SubSeq(acc, 1, b)
    <3>1. /\ b \in Nat /\ acc \in Seq(BatchData)
          /\ IsPrefix(sequencedBatches[r][b].accInputHash, acc, b)
      BY <2>1, BatchesAreNat DEF HistoryOK, EndsOf
    <3> HIDE DEF acc
    <3> QED BY <3>1, PrefixIsSubSeq DEF IsPrefix
  <2> QED BY <2>1, <2>2, <2>3 DEF HistoryOK
<1>2. SystemInv => OneBatchHistory
  BY <1>1 DEF OneBatchHistory
<1> QED BY <1>2, SystemInvariant, PTL

(***************************************************************************)
(* A stored state root executes exactly the batches sequenced up to its    *)
(* batch, and continues the roots before it: no batch is executed twice,   *)
(* by whatever programs, across rollbacks and upgrades                     *)
(* (_verifyAndRewardBatches, lastVerifiedBatchBeforeUpgrade).              *)
(***************************************************************************)
THEOREM StatesExecuteOnce == SystemSpec => []StatesAreOneExecution
<1>1. ASSUME SystemInv, NEW r \in RollupIDs, NEW b \in Batches,
             batchNumToStateRoot[r][b] # ZeroHash
      PROVE  /\ b <= Len(lastAccInputHash[r])
             /\ [k \in 1..b |-> batchNumToStateRoot[r][b][k + 1].batch]
                    = SubSeq(lastAccInputHash[r], 1, b)
  <2> DEFINE acc == lastAccInputHash[r]
             root == batchNumToStateRoot[r][b]
             batches == [k \in 1..b |-> root[k + 1].batch]
  <2>1. Executes(root, acc, b) /\ acc \in Seq(BatchData) /\ b \in Nat
    BY <1>1, BatchesAreNat
       DEF SystemInv, ConsensusTypeOK, RollupOK, RollupStatesOK, StatesOK
  <2>2. b <= Len(acc) /\ \A k \in 1..b : root[k + 1].batch = acc[k]
    BY <2>1 DEF Executes
  <2> HIDE DEF acc, root
  <2>3. \A k \in 1..b : batches[k] = acc[k] /\ acc[k] \in BatchData
    BY <2>1, <2>2
  <2>4. batches \in Seq(BatchData) /\ Len(batches) = b
    <3>1. batches = [k \in 1..b |-> batches[k]]
      OBVIOUS
    <3> HIDE DEF batches
    <3>2. batches \in [1..b -> BatchData]
      BY <2>3, <3>1
    <3> QED BY <2>1, <3>2
  <2> HIDE DEF batches
  <2>5. batches = SubSeq(acc, 1, b)
    BY <2>1, <2>2, <2>3, <2>4, PrefixIsSubSeq
  <2> QED BY <2>2, <2>5 DEF batches, acc, root
<1>2. ASSUME SystemInv, NEW r \in RollupIDs, NEW a \in Batches, NEW b \in Batches, a < b,
             batchNumToStateRoot[r][a] # ZeroHash, batchNumToStateRoot[r][b] # ZeroHash
      PROVE  SubSeq(batchNumToStateRoot[r][b], 1, a + 1) = batchNumToStateRoot[r][a]
  <2> DEFINE early == batchNumToStateRoot[r][a]
             late == batchNumToStateRoot[r][b]
  <2>1. /\ Executes(early, lastAccInputHash[r], a)
        /\ Executes(late, lastAccInputHash[r], b)
        /\ \A k \in 1 .. a + 1 : late[k] = early[k]
    BY <1>2 DEF SystemInv, RollupOK, RollupStatesOK, StatesOK
  <2>2. /\ a \in Nat /\ b \in Nat /\ early \in Seq(StateEntries) /\ Len(early) = a + 1
        /\ late \in Seq(StateEntries) /\ Len(late) = b + 1
    BY <2>1, BatchesAreNat DEF Executes
  <2> HIDE DEF early, late
  <2>3. early = SubSeq(late, 1, a + 1)
    <3>1. a + 1 \in Nat /\ a + 1 <= Len(late)
      BY <1>2, <2>2
    <3> QED BY <2>1, <2>2, <3>1, PrefixIsSubSeq
  <2> QED BY <2>3 DEF early, late
<1>3. SystemInv => StatesAreOneExecution
  BY <1>1, <1>2 DEF StatesAreOneExecution, StateExecutesHistory, NoReexecution
<1> QED BY <1>3, SystemInvariant, PTL

(***************************************************************************)
(* The POL a consensus contract holds covers the lowest fee for each of    *)
(* its pending forced batches, however the fee moves and however many are  *)
(* taken at a time (forceBatch, calculatePolPerForceBatch).                *)
(***************************************************************************)
THEOREM ForcedStayFunded == SystemSpec => []ForcedBatchesFunded
<1>1. SystemInv => ForcedBatchesFunded
  BY DEF SystemInv, RollupOK, RollupForcedOK, FundedOK, IsLowestFee, ForcedBatchesFunded
<1> QED BY <1>1, SystemInvariant, PTL

(***************************************************************************)
(* A forced batch is sequenced at most once and in order, and the queue    *)
(* holds those not sequenced yet and no other (sequenceBatches,            *)
(* sequenceForceBatches).                                                  *)
(***************************************************************************)
THEOREM ForcedAreInOrder == SystemSpec => []ForcedOnceInOrder
<1>1. ASSUME SystemInv, NEW r \in RollupIDs
      PROVE  /\ ForcedInOrder(lastAccInputHash[r], lastForceBatchSequenced[r])
             /\ {i \in ForcedIDs : forcedBatches[r][i] # NoForcedBatch}
                    = lastForceBatchSequenced[r] + 1 .. lastForceBatch[r]
  <2>1. /\ ForcedInOrder(lastAccInputHash[r], lastForceBatchSequenced[r])
        /\ QueueOK(forcedBatches[r], lastForceBatchSequenced[r], lastForceBatch[r])
    BY <1>1 DEF SystemInv, RollupOK, RollupForcedOK
  <2>2. /\ lastForceBatch[r] \in Nat /\ lastForceBatchSequenced[r] \in Nat
        /\ lastForceBatch[r] <= MaxForced /\ MaxForced \in Nat
    BY <1>1, PendingFacts
  <2>3. \A i : i \in lastForceBatchSequenced[r] + 1 .. lastForceBatch[r] <=>
            i \in ForcedIDs /\ lastForceBatchSequenced[r] < i /\ i <= lastForceBatch[r]
    BY <2>2 DEF ForcedIDs
  <2> QED BY <2>1, <2>3 DEF QueueOK
<1>2. SystemInv => ForcedOnceInOrder
  BY <1>1 DEF ForcedOnceInOrder, ForcedInOrder
<1> QED BY <1>2, SystemInvariant, PTL

(***************************************************************************)
(* The aggregator is never stuck behind the consensus contract either: the *)
(* checks pass and the reward is covered, as the manager promises of any   *)
(* consensus contract, and a sound proof of the pending batches exists,    *)
(* because their hash continues the one of the last verified batch.        *)
(***************************************************************************)
THEOREM PendingBatchesAreProvable ==
    SystemSpec =>
        [](/\ AggregatorNeverStuck
           /\ \A r \in RollupIDs : Provable(r, lastVerifiedBatch[r], lastBatchSequenced[r]))
<1>1. ASSUME SystemInv, NEW r \in RollupIDs
      PROVE  Provable(r, lastVerifiedBatch[r], lastBatchSequenced[r])
  <2> DEFINE init == lastVerifiedBatch[r]
             final == lastBatchSequenced[r]
             start == sequencedBatches[r][init].accInputHash
             end == sequencedBatches[r][final].accInputHash
  <2>1. /\ init \in EndsOf(sequencedBatches[r]) /\ final \in EndsOf(sequencedBatches[r])
        /\ init <= final /\ init \in Nat /\ final \in Nat
    BY <1>1, BatchesAreNat DEF SystemInv, IInv, TypeOK, RollupLedgerOK, LedgerOK
  <2>2. HistoryOK(lastAccInputHash[r], sequencedBatches[r], final)
    BY <1>1 DEF SystemInv, RollupOK, RollupHistoryOK
  <2>3. /\ IsPrefix(start, lastAccInputHash[r], init)
        /\ IsPrefix(end, lastAccInputHash[r], final)
    BY <2>1, <2>2 DEF HistoryOK
  <2> HIDE DEF init, final, start, end
  <2>4. start = SubSeq(end, 1, init)
    BY <2>1, <2>3, PrefixIsSubSeq DEF IsPrefix
  <2> QED BY <2>4 DEF Provable, start, end, init, final
<1>2. SystemInv => \A r \in RollupIDs : Provable(r, lastVerifiedBatch[r], lastBatchSequenced[r])
  BY <1>1
<1>3. SystemSpec => []AggregatorNeverStuck
  BY SystemImplementsManager, AggregatorIsNeverStuck, PTL
<1> QED BY <1>2, <1>3, SystemInvariant, PTL

-----------------------------------------------------------------------------
(* The trees.  First recursive functions over heights. *)

\* Induction over the numbers up to n.
LEMMA Induction ==
    ASSUME NEW n \in Nat, NEW S, 0 \in S, \A h \in 0..n : h + 1 \in 0..n /\ h \in S => h + 1 \in S
    PROVE  \A h \in 0..n : h \in S
<1> DEFINE Missing == {m \in 0..n : m \notin S}
<1>1. ASSUME Missing # {} PROVE FALSE
  <2>1. PICK m \in Missing : \A k \in Missing : m <= k
    <3>1. Missing \in SUBSET Nat
      OBVIOUS
    <3> HIDE DEF Missing
    <3> QED BY <1>1, <3>1, LeastElement
  <2>2. m # 0 /\ m \in 0..n
    BY <2>1
  <2>3. m - 1 \in 0..n /\ m - 1 \notin Missing /\ (m - 1) + 1 = m
    BY <2>1, <2>2
  <2>4. m - 1 \in S
    BY <2>3
  <2> QED BY <2>1, <2>3, <2>4
<1> QED BY <1>1

IsPowerOfTwo(f, n) == f = [h \in 0..n |-> IF h = 0 THEN 1 ELSE 2 * f[h - 1]]

LEMMA PowerOfTwoExists == \A n \in Nat : \E f : IsPowerOfTwo(f, n)
<1> SUFFICES ASSUME NEW n \in Nat PROVE \E f : IsPowerOfTwo(f, n)
  OBVIOUS
<1> DEFINE S == {h \in 0..n : \E f : IsPowerOfTwo(f, h)}
<1>1. 0 \in S
  <2>1. IsPowerOfTwo([h \in 0..0 |-> 1], 0)
    BY DEF IsPowerOfTwo
  <2> QED BY <2>1
<1>2. ASSUME NEW h \in 0..n, h + 1 \in 0..n, h \in S PROVE h + 1 \in S
  <2>1. PICK f : IsPowerOfTwo(f, h)
    BY <1>2
  <2> DEFINE g == [k \in 0 .. h + 1 |-> IF k = h + 1 THEN 2 * f[h] ELSE f[k]]
  <2>2. ASSUME NEW k \in 0 .. h + 1 PROVE g[k] = IF k = 0 THEN 1 ELSE 2 * g[k - 1]
    <3>1. CASE k = h + 1
      BY <3>1
    <3>2. CASE k # h + 1
      <4>1. k \in 0..h /\ (k # 0 => k - 1 \in 0..h)
        BY <3>2
      <4>2. f[k] = IF k = 0 THEN 1 ELSE 2 * f[k - 1]
        BY <4>1, <2>1 DEF IsPowerOfTwo
      <4> QED BY <4>1, <4>2, <3>2
    <3> QED BY <3>1, <3>2
  <2>3. IsPowerOfTwo(g, h + 1)
    BY <2>2 DEF IsPowerOfTwo
  <2> QED BY <1>2, <2>3
<1> HIDE DEF S
<1>3. \A h \in 0..n : h \in S
  BY <1>1, <1>2, Induction
<1> QED BY <1>3 DEF S

\* The powers of two, height by height.
LEMMA PowersOfTwo ==
    /\ PowerOfTwo[0] = 1
    /\ \A h \in 0..Depth : PowerOfTwo[h] \in Nat \ {0}
    /\ \A h \in Heights : PowerOfTwo[h + 1] = 2 * PowerOfTwo[h]
<1> DEFINE power == CHOOSE f : IsPowerOfTwo(f, Depth)
<1>0. Depth \in Nat
  BY TreeAssumption
<1>1. IsPowerOfTwo(power, Depth)
  BY <1>0, PowerOfTwoExists
<1>2. PowerOfTwo = power
  BY DEF PowerOfTwo, IsPowerOfTwo
<1> HIDE DEF power
<1>3. \A h \in 0..Depth : PowerOfTwo[h] = IF h = 0 THEN 1 ELSE 2 * PowerOfTwo[h - 1]
  BY <1>1, <1>2 DEF IsPowerOfTwo
<1>4. \A h \in 0..Depth : PowerOfTwo[h] \in Nat \ {0}
  <2> DEFINE S == {h \in 0..Depth : PowerOfTwo[h] \in Nat \ {0}}
  <2>1. 0 \in S
    BY <1>0, <1>3
  <2>2. ASSUME NEW h \in 0..Depth, h + 1 \in 0..Depth, h \in S PROVE h + 1 \in S
    <3>1. PowerOfTwo[h + 1] = 2 * PowerOfTwo[h]
      BY <1>0, <1>3, <2>2
    <3> QED BY <2>2, <3>1
  <2> HIDE DEF S
  <2>3. \A h \in 0..Depth : h \in S
    BY <1>0, <2>1, <2>2, Induction
  <2> QED BY <2>3 DEF S
<1>5. ASSUME NEW h \in Heights PROVE PowerOfTwo[h + 1] = 2 * PowerOfTwo[h]
  <2>1. h + 1 \in 0..Depth /\ h + 1 # 0 /\ (h + 1) - 1 = h
    BY <1>0 DEF Heights
  <2> QED BY <2>1, <1>3
<1> QED BY <1>0, <1>3, <1>4, <1>5

\* Shifting a counter: it is halved at every height, and nothing is left at the last.
LEMMA Shifts ==
    ASSUME NEW n \in 0 .. MaxDepositCount
    PROVE  /\ ShiftRight(n, 0) = n
           /\ \A h \in 0..Depth : ShiftRight(n, h) \in 0 .. PowerOfTwo[Depth - h] - 1
           /\ \A h \in Heights : ShiftRight(n, h + 1) = ShiftRight(n, h) \div 2
           /\ ShiftRight(n, Depth) = 0
<1>0. Depth \in Nat /\ n \in Nat
  BY TreeAssumption, PowersOfTwo DEF MaxDepositCount
<1>1. ShiftRight(n, 0) = n
  BY <1>0, PowersOfTwo DEF ShiftRight
<1>2. ASSUME NEW h \in Heights PROVE ShiftRight(n, h + 1) = ShiftRight(n, h) \div 2
  <2>1. h \in 0..Depth /\ PowerOfTwo[h] \in Nat /\ PowerOfTwo[h] > 0
        /\ PowerOfTwo[h + 1] = 2 * PowerOfTwo[h]
    BY <1>0, PowersOfTwo DEF Heights
  <2>2. \A p \in Nat : p > 0 => n \div (2 * p) = (n \div p) \div 2
    BY <1>0
  <2> QED BY <2>1, <2>2 DEF ShiftRight
<1>3. \A h \in 0..Depth : ShiftRight(n, h) \in 0 .. PowerOfTwo[Depth - h] - 1
  <2> DEFINE S == {h \in 0..Depth : ShiftRight(n, h) \in 0 .. PowerOfTwo[Depth - h] - 1}
  <2>1. 0 \in S
    <3>1. Depth - 0 = Depth /\ 0 \in 0..Depth
      BY <1>0
    <3>2. n \in 0 .. PowerOfTwo[Depth] - 1
      BY DEF MaxDepositCount
    <3> QED BY <1>1, <3>1, <3>2
  <2>2. ASSUME NEW h \in 0..Depth, h + 1 \in 0..Depth, h \in S PROVE h + 1 \in S
    <3>1. h \in Heights /\ Depth - (h + 1) \in Heights
          /\ (Depth - (h + 1)) + 1 = Depth - h
          /\ Depth - (h + 1) \in 0..Depth
      BY <2>2, <1>0 DEF Heights
    <3>2. PowerOfTwo[Depth - h] = 2 * PowerOfTwo[Depth - (h + 1)]
          /\ PowerOfTwo[Depth - (h + 1)] \in Nat
      BY <3>1, PowersOfTwo
    <3>3. ShiftRight(n, h + 1) = ShiftRight(n, h) \div 2
      BY <3>1, <1>2
    <3>4. ShiftRight(n, h) \in 0 .. PowerOfTwo[Depth - h] - 1
      BY <2>2
    <3>5. ShiftRight(n, h + 1) \in 0 .. PowerOfTwo[Depth - (h + 1)] - 1
      BY <3>2, <3>3, <3>4
    <3> QED BY <2>2, <3>5
  <2> HIDE DEF S
  <2>3. \A h \in 0..Depth : h \in S
    BY <1>0, <2>1, <2>2, Induction
  <2> QED BY <2>3 DEF S
<1>4. ShiftRight(n, Depth) = 0
  <2>1. Depth \in 0..Depth /\ Depth - Depth = 0
    BY <1>0
  <2> QED BY <2>1, <1>3, PowersOfTwo
<1> QED BY <1>1, <1>2, <1>3, <1>4

IsZeroHashes(f, n) ==
    f = [h \in 0..n |-> IF h = 0 THEN EmptyLeaf ELSE EfficientKeccak256(f[h - 1], f[h - 1])]

LEMMA ZeroHashesExist == \A n \in Nat : \E f : IsZeroHashes(f, n)
<1> SUFFICES ASSUME NEW n \in Nat PROVE \E f : IsZeroHashes(f, n)
  OBVIOUS
<1> DEFINE S == {h \in 0..n : \E f : IsZeroHashes(f, h)}
<1>1. 0 \in S
  <2>1. IsZeroHashes([h \in 0..0 |-> EmptyLeaf], 0)
    BY DEF IsZeroHashes
  <2> QED BY <2>1
<1>2. ASSUME NEW h \in 0..n, h + 1 \in 0..n, h \in S PROVE h + 1 \in S
  <2>1. PICK f : IsZeroHashes(f, h)
    BY <1>2
  <2> DEFINE g == [k \in 0 .. h + 1 |-> IF k = h + 1 THEN EfficientKeccak256(f[h], f[h])
                                        ELSE f[k]]
  <2>2. ASSUME NEW k \in 0 .. h + 1
        PROVE  g[k] = IF k = 0 THEN EmptyLeaf ELSE EfficientKeccak256(g[k - 1], g[k - 1])
    <3>1. CASE k = h + 1
      BY <3>1
    <3>2. CASE k # h + 1
      <4>1. k \in 0..h /\ (k # 0 => k - 1 \in 0..h)
        BY <3>2
      <4>2. f[k] = IF k = 0 THEN EmptyLeaf ELSE EfficientKeccak256(f[k - 1], f[k - 1])
        BY <4>1, <2>1 DEF IsZeroHashes
      <4> QED BY <4>1, <4>2, <3>2
    <3> QED BY <3>1, <3>2
  <2>3. IsZeroHashes(g, h + 1)
    BY <2>2 DEF IsZeroHashes
  <2> QED BY <1>2, <2>3
<1> HIDE DEF S
<1>3. \A h \in 0..n : h \in S
  BY <1>1, <1>2, Induction
<1> QED BY <1>3 DEF S

\* The zero hash of a height is that of two subtrees below.
LEMMA ZeroHashesByHeight ==
    /\ ZeroHashes[0] = EmptyLeaf
    /\ \A h \in Heights : ZeroHashes[h + 1] = EfficientKeccak256(ZeroHashes[h], ZeroHashes[h])
<1> DEFINE zero == CHOOSE f : IsZeroHashes(f, Depth)
<1>0. Depth \in Nat
  BY TreeAssumption
<1>1. IsZeroHashes(zero, Depth)
  BY <1>0, ZeroHashesExist
<1>2. ZeroHashes = zero
  BY DEF ZeroHashes, IsZeroHashes
<1> HIDE DEF zero
<1>3. \A h \in 0..Depth :
          ZeroHashes[h] = IF h = 0 THEN EmptyLeaf
                          ELSE EfficientKeccak256(ZeroHashes[h - 1], ZeroHashes[h - 1])
  BY <1>1, <1>2 DEF IsZeroHashes
<1>4. ASSUME NEW h \in Heights
      PROVE  ZeroHashes[h + 1] = EfficientKeccak256(ZeroHashes[h], ZeroHashes[h])
  <2>1. h + 1 \in 0..Depth /\ h + 1 # 0 /\ (h + 1) - 1 = h
    BY <1>0 DEF Heights
  <2> QED BY <2>1, <1>3
<1> QED BY <1>0, <1>3, <1>4

(***************************************************************************)
(* A path from a leaf to the root: at every height the node is hashed with *)
(* a sibling on its left or on its right.  The three loops of the contract *)
(* are such paths.                                                         *)
(***************************************************************************)
Above(node, isRight, sibling) ==
    IF isRight THEN EfficientKeccak256(sibling, node) ELSE EfficientKeccak256(node, sibling)

IsPath(f, n, start, isRight, sibling) ==
    f = [h \in 0..n |-> IF h = 0 THEN start
                        ELSE Above(f[h - 1], isRight[h - 1], sibling[h - 1])]

LEMMA PathExists ==
    ASSUME NEW n \in Nat, NEW start, NEW isRight, NEW sibling
    PROVE  \E f : IsPath(f, n, start, isRight, sibling)
<1> DEFINE S == {h \in 0..n : \E f : IsPath(f, h, start, isRight, sibling)}
<1>1. 0 \in S
  <2>1. IsPath([h \in 0..0 |-> start], 0, start, isRight, sibling)
    BY DEF IsPath
  <2> QED BY <2>1
<1>2. ASSUME NEW h \in 0..n, h + 1 \in 0..n, h \in S PROVE h + 1 \in S
  <2>1. PICK f : IsPath(f, h, start, isRight, sibling)
    BY <1>2
  <2> DEFINE g == [k \in 0 .. h + 1 |-> IF k = h + 1 THEN Above(f[h], isRight[h], sibling[h])
                                        ELSE f[k]]
  <2>2. ASSUME NEW k \in 0 .. h + 1
        PROVE  g[k] = IF k = 0 THEN start ELSE Above(g[k - 1], isRight[k - 1], sibling[k - 1])
    <3>1. CASE k = h + 1
      BY <3>1
    <3>2. CASE k # h + 1
      <4>1. k \in 0..h /\ (k # 0 => k - 1 \in 0..h)
        BY <3>2
      <4>2. f[k] = IF k = 0 THEN start ELSE Above(f[k - 1], isRight[k - 1], sibling[k - 1])
        BY <4>1, <2>1 DEF IsPath
      <4> QED BY <4>1, <4>2, <3>2
    <3> QED BY <3>1, <3>2
  <2>3. IsPath(g, h + 1, start, isRight, sibling)
    BY <2>2 DEF IsPath
  <2> QED BY <1>2, <2>3
<1> HIDE DEF S
<1>3. \A h \in 0..n : h \in S
  BY <1>1, <1>2, Induction
<1> QED BY <1>3 DEF S

\* getRoot climbs from the first empty leaf, with the branch on its left and zeros on its right.
LEMMA GetRootPath ==
    \E node : /\ GetRoot = node[Depth]
              /\ node[0] = EmptyLeaf
              /\ \A h \in Heights :
                     node[h + 1] = IF Bit(depositCount, h) = 1
                                   THEN EfficientKeccak256(branch[h], node[h])
                                   ELSE EfficientKeccak256(node[h], ZeroHashes[h])
<1> DEFINE isRight == [h \in Heights |-> Bit(depositCount, h) = 1]
           sibling == [h \in Heights |-> IF Bit(depositCount, h) = 1 THEN branch[h]
                                         ELSE ZeroHashes[h]]
           IsNode(f) == f = [h \in 0..Depth |->
                                IF h = 0 THEN EmptyLeaf
                                ELSE IF Bit(depositCount, h - 1) = 1
                                THEN EfficientKeccak256(branch[h - 1], f[h - 1])
                                ELSE EfficientKeccak256(f[h - 1], ZeroHashes[h - 1])]
           node == CHOOSE f : IsNode(f)
<1>0. Depth \in Nat
  BY TreeAssumption
<1>1. PICK f : IsPath(f, Depth, EmptyLeaf, isRight, sibling)
  <2> HIDE DEF isRight, sibling
  <2> QED BY <1>0, PathExists
<1>2. ASSUME NEW h \in 0..Depth, h # 0
      PROVE  Above(f[h - 1], isRight[h - 1], sibling[h - 1])
                 = IF Bit(depositCount, h - 1) = 1
                   THEN EfficientKeccak256(branch[h - 1], f[h - 1])
                   ELSE EfficientKeccak256(f[h - 1], ZeroHashes[h - 1])
  <2>1. h - 1 \in Heights
    BY <1>0, <1>2 DEF Heights
  <2> QED BY <2>1 DEF Above
<1>3. IsNode(f)
  <2> HIDE DEF isRight, sibling
  <2> QED BY <1>1, <1>2 DEF IsPath
<1>4. IsNode(node)
  BY <1>3
<1>5. GetRoot = node[Depth]
  BY DEF GetRoot
<1> HIDE DEF node
<1>6. \A h \in 0..Depth : node[h] = IF h = 0 THEN EmptyLeaf
                                    ELSE IF Bit(depositCount, h - 1) = 1
                                    THEN EfficientKeccak256(branch[h - 1], node[h - 1])
                                    ELSE EfficientKeccak256(node[h - 1], ZeroHashes[h - 1])
  BY <1>4
<1>7. ASSUME NEW h \in Heights
      PROVE  node[h + 1] = IF Bit(depositCount, h) = 1
                           THEN EfficientKeccak256(branch[h], node[h])
                           ELSE EfficientKeccak256(node[h], ZeroHashes[h])
  <2>1. h + 1 \in 0..Depth /\ h + 1 # 0 /\ (h + 1) - 1 = h
    BY <1>0 DEF Heights
  <2> QED BY <2>1, <1>6
<1> QED BY <1>0, <1>5, <1>6, <1>7

\* A proof climbs from its leaf, on the side that the bits of the index tell.
LEMMA ProofPath ==
    ASSUME NEW leaf, NEW smtProof, NEW index
    PROVE  \E node : /\ CalculateRoot(leaf, smtProof, index) = node[Depth]
                     /\ node[0] = leaf
                     /\ \A h \in Heights :
                            node[h + 1] = Above(node[h], Bit(index, h) = 1, smtProof[h])
<1> DEFINE isRight == [h \in Heights |-> Bit(index, h) = 1]
           IsNode(f) == f = [h \in 0..Depth |->
                                IF h = 0 THEN leaf
                                ELSE IF Bit(index, h - 1) = 1
                                THEN EfficientKeccak256(smtProof[h - 1], f[h - 1])
                                ELSE EfficientKeccak256(f[h - 1], smtProof[h - 1])]
           node == CHOOSE f : IsNode(f)
<1>0. Depth \in Nat
  BY TreeAssumption
<1>1. PICK f : IsPath(f, Depth, leaf, isRight, smtProof)
  <2> HIDE DEF isRight
  <2> QED BY <1>0, PathExists
<1>2. ASSUME NEW h \in 0..Depth, h # 0
      PROVE  Above(f[h - 1], isRight[h - 1], smtProof[h - 1])
                 = IF Bit(index, h - 1) = 1
                   THEN EfficientKeccak256(smtProof[h - 1], f[h - 1])
                   ELSE EfficientKeccak256(f[h - 1], smtProof[h - 1])
  <2>1. h - 1 \in Heights
    BY <1>0, <1>2 DEF Heights
  <2> QED BY <2>1 DEF Above
<1>3. IsNode(f)
  <2> HIDE DEF isRight
  <2> QED BY <1>1, <1>2 DEF IsPath
<1>4. IsNode(node)
  BY <1>3
<1>5. CalculateRoot(leaf, smtProof, index) = node[Depth]
  BY DEF CalculateRoot
<1> HIDE DEF node
<1>6. \A h \in 0..Depth : node[h] = IF h = 0 THEN leaf
                                    ELSE Above(node[h - 1], Bit(index, h - 1) = 1,
                                               smtProof[h - 1])
  BY <1>4 DEF Above
<1>7. ASSUME NEW h \in Heights
      PROVE  node[h + 1] = Above(node[h], Bit(index, h) = 1, smtProof[h])
  <2>1. h + 1 \in 0..Depth /\ h + 1 # 0 /\ (h + 1) - 1 = h
    BY <1>0 DEF Heights
  <2> QED BY <2>1, <1>6
<1> QED BY <1>0, <1>5, <1>6, <1>7

\* A new leaf climbs as the right child of the stored nodes.
LEMMA CarriedPath ==
    ASSUME NEW leaf
    PROVE  /\ Carried(leaf)[0] = leaf
           /\ \A h \in Heights : h + 1 \in Heights =>
                  Carried(leaf)[h + 1] = EfficientKeccak256(branch[h], Carried(leaf)[h])
<1> DEFINE isRight == [h \in Heights |-> TRUE]
           IsNode(f) == f = [h \in Heights |->
                                IF h = 0 THEN leaf
                                ELSE EfficientKeccak256(branch[h - 1], f[h - 1])]
           node == CHOOSE f : IsNode(f)
<1>0. Depth \in Nat /\ Depth # 0 /\ Depth - 1 \in Nat /\ Heights = 0 .. Depth - 1
  BY TreeAssumption DEF Heights
<1>1. PICK f : IsPath(f, Depth - 1, leaf, isRight, branch)
  <2> HIDE DEF isRight
  <2> QED BY <1>0, PathExists
<1>2. ASSUME NEW h \in Heights, h # 0
      PROVE  Above(f[h - 1], isRight[h - 1], branch[h - 1])
                 = EfficientKeccak256(branch[h - 1], f[h - 1])
  <2>1. h - 1 \in Heights
    BY <1>0, <1>2
  <2> QED BY <2>1 DEF Above
<1>3. IsNode(f)
  <2> HIDE DEF isRight
  <2> QED BY <1>0, <1>1, <1>2 DEF IsPath
<1>4. IsNode(node)
  BY <1>3
<1>5. Carried(leaf) = node
  BY DEF Carried
<1> HIDE DEF node
<1>6. \A h \in Heights : node[h] = IF h = 0 THEN leaf
                                   ELSE EfficientKeccak256(branch[h - 1], node[h - 1])
  BY <1>4
<1>7. ASSUME NEW h \in Heights, h + 1 \in Heights
      PROVE  node[h + 1] = EfficientKeccak256(branch[h], node[h])
  <2>1. h + 1 # 0 /\ (h + 1) - 1 = h
    BY <1>0
  <2> QED BY <2>1, <1>6, <1>7
<1> QED BY <1>0, <1>5, <1>6, <1>7

-----------------------------------------------------------------------------
(* The complete tree. *)

Row(h) == 0 .. PowerOfTwo[Depth - h] - 1
Node(seq, h, i) == ReferenceTree(seq)[h][i]

RowAbove(seq, h, below) ==
    [i \in 0 .. PowerOfTwo[Depth - h] - 1 |->
        IF h = 0
        THEN IF i < Len(seq) THEN seq[i + 1] ELSE EmptyLeaf
        ELSE EfficientKeccak256(below[2 * i], below[2 * i + 1])]

IsTree(f, n, seq) == f = [h \in 0..n |-> RowAbove(seq, h, f[h - 1])]

LEMMA TreeExists ==
    ASSUME NEW n \in Nat, NEW seq PROVE \E f : IsTree(f, n, seq)
<1> DEFINE S == {h \in 0..n : \E f : IsTree(f, h, seq)}
<1>0. \A below, other : RowAbove(seq, 0, below) = RowAbove(seq, 0, other)
  BY DEF RowAbove
<1>1. 0 \in S
  <2> DEFINE f == [h \in 0..0 |-> RowAbove(seq, 0, seq)]
  <2>1. ASSUME NEW h \in 0..0 PROVE f[h] = RowAbove(seq, h, f[h - 1])
    <3>1. h = 0
      OBVIOUS
    <3> QED BY <3>1, <1>0
  <2>2. IsTree(f, 0, seq)
    BY <2>1 DEF IsTree
  <2> QED BY <2>2
<1>2. ASSUME NEW h \in 0..n, h + 1 \in 0..n, h \in S PROVE h + 1 \in S
  <2>1. PICK f : IsTree(f, h, seq)
    BY <1>2
  <2> DEFINE g == [k \in 0 .. h + 1 |-> IF k = h + 1 THEN RowAbove(seq, h + 1, f[h]) ELSE f[k]]
  <2>2. ASSUME NEW k \in 0 .. h + 1 PROVE g[k] = RowAbove(seq, k, g[k - 1])
    <3>1. CASE k = h + 1
      <4>1. k - 1 = h /\ g[k - 1] = f[h] /\ g[k] = RowAbove(seq, h + 1, f[h])
        BY <3>1
      <4> QED BY <4>1, <3>1
    <3>2. CASE k # h + 1
      <4>1. k \in 0..h /\ (k # 0 => k - 1 \in 0..h)
        BY <3>2
      <4>2. f[k] = RowAbove(seq, k, f[k - 1])
        BY <4>1, <2>1 DEF IsTree
      <4>3. g[k] = f[k] /\ (k # 0 => g[k - 1] = f[k - 1])
        BY <4>1, <3>2
      <4> HIDE DEF g
      <4> QED BY <4>2, <4>3, <1>0
    <3> QED BY <3>1, <3>2
  <2>3. IsTree(g, h + 1, seq)
    BY <2>2 DEF IsTree
  <2> QED BY <1>2, <2>3
<1> HIDE DEF S
<1>3. \A h \in 0..n : h \in S
  BY <1>1, <1>2, Induction
<1> QED BY <1>3 DEF S

\* Leaves at the bottom, and every other node above its two children.
LEMMA TreeNodes ==
    ASSUME NEW seq
    PROVE  /\ \A i \in Row(0) :
                  Node(seq, 0, i) = IF i < Len(seq) THEN seq[i + 1] ELSE EmptyLeaf
           /\ \A h \in Heights : \A i \in Row(h + 1) :
                  /\ 2 * i \in Row(h) /\ 2 * i + 1 \in Row(h)
                  /\ Node(seq, h + 1, i)
                       = EfficientKeccak256(Node(seq, h, 2 * i), Node(seq, h, 2 * i + 1))
<1> DEFINE tree == CHOOSE f : IsTree(f, Depth, seq)
<1>0. Depth \in Nat
  BY TreeAssumption
<1>1. IsTree(tree, Depth, seq)
  BY <1>0, TreeExists
<1>2. ReferenceTree(seq) = tree
  BY DEF ReferenceTree, IsTree, RowAbove
<1> HIDE DEF tree
<1>3. ASSUME NEW h \in 0..Depth, NEW i \in Row(h)
      PROVE  Node(seq, h, i)
                 = IF h = 0
                   THEN IF i < Len(seq) THEN seq[i + 1] ELSE EmptyLeaf
                   ELSE EfficientKeccak256(Node(seq, h - 1, 2 * i), Node(seq, h - 1, 2 * i + 1))
  <2>1. tree[h] = RowAbove(seq, h, tree[h - 1])
    BY <1>1 DEF IsTree
  <2> QED BY <2>1, <1>2 DEF RowAbove, Node, Row
<1>4. ASSUME NEW h \in Heights, NEW i \in Row(h + 1)
      PROVE  /\ 2 * i \in Row(h) /\ 2 * i + 1 \in Row(h)
             /\ Node(seq, h + 1, i)
                  = EfficientKeccak256(Node(seq, h, 2 * i), Node(seq, h, 2 * i + 1))
  <2>1. h + 1 \in 0..Depth /\ h + 1 # 0 /\ (h + 1) - 1 = h
    BY <1>0 DEF Heights
  <2>2. Depth - (h + 1) \in Heights /\ (Depth - (h + 1)) + 1 = Depth - h
        /\ Depth - (h + 1) \in 0..Depth
    BY <1>0 DEF Heights
  <2>3. PowerOfTwo[Depth - h] = 2 * PowerOfTwo[Depth - (h + 1)]
        /\ PowerOfTwo[Depth - (h + 1)] \in Nat
    BY <2>2, PowersOfTwo
  <2>4. 2 * i \in Row(h) /\ 2 * i + 1 \in Row(h)
    BY <2>3 DEF Row
  <2>5. Node(seq, h + 1, i)
          = EfficientKeccak256(Node(seq, (h + 1) - 1, 2 * i), Node(seq, (h + 1) - 1, 2 * i + 1))
    BY <2>1, <1>3
  <2> QED BY <2>1, <2>4, <2>5
<1>5. 0 \in 0..Depth
  BY <1>0
<1> QED BY <1>3, <1>4, <1>5

\* The rows, from the leaves to the root.
LEMMA Rows ==
    /\ Depth \in Nat /\ 0 \in 0..Depth /\ Depth \in 0..Depth
    /\ Row(0) = 0 .. MaxDepositCount /\ Row(Depth) = {0}
    /\ MaxDepositCount \in Nat
    /\ \A h \in Heights : h \in 0..Depth /\ h + 1 \in 0..Depth
<1>1. Depth \in Nat /\ Depth - 0 = Depth /\ Depth - Depth = 0
  BY TreeAssumption
<1>2. PowerOfTwo[Depth] \in Nat \ {0} /\ PowerOfTwo[0] = 1
  BY <1>1, PowersOfTwo
<1> QED BY <1>1, <1>2 DEF Row, MaxDepositCount, Heights

\* Beyond a width that covers the leaves there are zeros only.
LEMMA ZerosBeyond ==
    ASSUME NEW seq, Len(seq) \in Nat, NEW width,
           \A h \in 0..Depth : width[h] \in Nat,
           width[0] >= Len(seq),
           \A h \in Heights : 2 * width[h + 1] >= width[h]
    PROVE  \A h \in 0..Depth : \A i \in Row(h) : i >= width[h] => Node(seq, h, i) = ZeroHashes[h]
<1> DEFINE S == {h \in 0..Depth : \A i \in Row(h) : i >= width[h] =>
                                      Node(seq, h, i) = ZeroHashes[h]}
<1>1. 0 \in S
  <2>1. ASSUME NEW i \in Row(0), i >= width[0] PROVE Node(seq, 0, i) = ZeroHashes[0]
    <3>1. ~(i < Len(seq))
      BY <2>1, Rows
    <3> QED BY <3>1, TreeNodes, ZeroHashesByHeight
  <2> QED BY <2>1, Rows
<1>2. ASSUME NEW h \in 0..Depth, h + 1 \in 0..Depth, h \in S PROVE h + 1 \in S
  <2>1. h \in Heights
    BY <1>2, Rows DEF Heights
  <2>2. ASSUME NEW i \in Row(h + 1), i >= width[h + 1]
        PROVE  Node(seq, h + 1, i) = ZeroHashes[h + 1]
    <3>1. 2 * i \in Row(h) /\ 2 * i + 1 \in Row(h)
          /\ Node(seq, h + 1, i)
               = EfficientKeccak256(Node(seq, h, 2 * i), Node(seq, h, 2 * i + 1))
      BY <2>1, TreeNodes
    <3>2. i \in Nat /\ 2 * i >= width[h] /\ 2 * i + 1 >= width[h]
      <4>1. i \in Int /\ i >= 0
        BY DEF Row
      <4>2. width[h] \in Nat /\ width[h + 1] \in Nat /\ 2 * width[h + 1] >= width[h]
        BY <1>2, <2>1
      <4> QED BY <4>1, <4>2, <2>2
    <3>3. Node(seq, h, 2 * i) = ZeroHashes[h] /\ Node(seq, h, 2 * i + 1) = ZeroHashes[h]
      BY <3>1, <3>2, <1>2
    <3> QED BY <3>1, <3>3, <2>1, ZeroHashesByHeight
  <2> QED BY <1>2, <2>2
<1> HIDE DEF S
<1>3. \A h \in 0..Depth : h \in S
  BY <1>1, <1>2, Rows, Induction
<1> QED BY <1>3 DEF S

\* Where the next leaf goes there is nothing yet, at any height.
LEMMA NothingBeyondCount ==
    ASSUME NEW seq, Len(seq) \in 0 .. MaxDepositCount
    PROVE  \A h \in 0..Depth : \A i \in Row(h) :
               i > ShiftRight(Len(seq), h) => Node(seq, h, i) = ZeroHashes[h]
<1> DEFINE width == [h \in 0..Depth |-> ShiftRight(Len(seq), h) + 1]
<1>1. \A h \in 0..Depth : ShiftRight(Len(seq), h) \in Nat
  <2> TAKE h \in 0..Depth
  <2> QED BY Shifts
<1>2. \A h \in 0..Depth : width[h] = ShiftRight(Len(seq), h) + 1 /\ width[h] \in Nat
  BY <1>1
<1>3. Len(seq) \in Nat /\ width[0] >= Len(seq)
  BY <1>2, Shifts, Rows
<1>4. ASSUME NEW h \in Heights PROVE 2 * width[h + 1] >= width[h]
  <2>1. h \in 0..Depth /\ h + 1 \in 0..Depth
    BY Rows
  <2>2. ShiftRight(Len(seq), h + 1) = ShiftRight(Len(seq), h) \div 2
    BY Shifts
  <2>3. \A k \in Nat : 2 * ((k \div 2) + 1) >= k + 1
    OBVIOUS
  <2> QED BY <2>1, <2>2, <2>3, <1>1, <1>2
<1> HIDE DEF width
<1>5. \A h \in 0..Depth : \A i \in Row(h) : i >= width[h] => Node(seq, h, i) = ZeroHashes[h]
  BY <1>2, <1>3, <1>4, ZerosBeyond
<1>6. ASSUME NEW h \in 0..Depth, NEW i \in Row(h), i > ShiftRight(Len(seq), h)
      PROVE  Node(seq, h, i) = ZeroHashes[h]
  <2>1. i \in Int
    BY DEF Row
  <2>2. i >= width[h]
    BY <2>1, <1>1, <1>2, <1>6
  <2> QED BY <2>2, <1>5
<1> QED BY <1>6

\* A node whose leaves are all there is not changed by another leaf.
LEMMA CompleteNodesStay ==
    ASSUME NEW seq, NEW longer, Len(seq) \in 0 .. MaxDepositCount,
           Len(longer) \in Nat, Len(longer) >= Len(seq),
           \A i \in 1..Len(seq) : longer[i] = seq[i]
    PROVE  \A h \in 0..Depth : \A i \in Row(h) :
               i < ShiftRight(Len(seq), h) => Node(longer, h, i) = Node(seq, h, i)
<1> DEFINE k(h) == ShiftRight(Len(seq), h)
           S == {h \in 0..Depth : \A i \in Row(h) : i < k(h) =>
                                      Node(longer, h, i) = Node(seq, h, i)}
<1>1. 0 \in S
  <2>1. ASSUME NEW i \in Row(0), i < k(0) PROVE Node(longer, 0, i) = Node(seq, 0, i)
    <3>1. i < Len(seq) /\ i < Len(longer) /\ i + 1 \in 1..Len(seq)
      BY <2>1, Shifts, Rows
    <3> QED BY <3>1, TreeNodes
  <2> QED BY <2>1, Rows
<1>2. ASSUME NEW h \in 0..Depth, h + 1 \in 0..Depth, h \in S PROVE h + 1 \in S
  <2>1. h \in Heights
    BY <1>2, Rows DEF Heights
  <2>2. ASSUME NEW i \in Row(h + 1), i < k(h + 1)
        PROVE  Node(longer, h + 1, i) = Node(seq, h + 1, i)
    <3>1. 2 * i \in Row(h) /\ 2 * i + 1 \in Row(h)
          /\ Node(seq, h + 1, i)
               = EfficientKeccak256(Node(seq, h, 2 * i), Node(seq, h, 2 * i + 1))
          /\ Node(longer, h + 1, i)
               = EfficientKeccak256(Node(longer, h, 2 * i), Node(longer, h, 2 * i + 1))
      BY <2>1, TreeNodes
    <3>2. 2 * i < k(h) /\ 2 * i + 1 < k(h)
      <4>1. i \in Int /\ i >= 0
        BY DEF Row
      <4>2. k(h) \in Nat /\ k(h + 1) = k(h) \div 2
        BY <2>1, Shifts
      <4> HIDE DEF k
      <4> QED BY <4>1, <4>2, <2>2
    <3> QED BY <3>1, <3>2, <1>2
  <2> QED BY <1>2, <2>2
<1> HIDE DEF S
<1>3. \A h \in 0..Depth : h \in S
  BY <1>1, <1>2, Rows, Induction
<1> QED BY <1>3 DEF S

-----------------------------------------------------------------------------
(* The branch. *)

\* Where the counter has a bit, the branch stores the last complete node of that height.
BranchOK ==
    \A h \in Heights :
        Bit(depositCount, h) = 1 =>
            branch[h] = Node(leaves, h, ShiftRight(depositCount, h) - 1)

TreeInv ==
    /\ depositCount \in 0 .. MaxDepositCount
    /\ leaves \in Seq(Leaves) /\ Len(leaves) = depositCount
    /\ DOMAIN branch = Heights
    /\ BranchOK
    /\ localExitRoots \in Seq(ExitRoots) /\ Len(localExitRoots) <= MaxTreeRollups

\* Up to the height where a leaf is stored the counter carries, above it nothing changes.
LEMMA Carry ==
    ASSUME NEW n \in 0 .. MaxDepositCount, n < MaxDepositCount, NEW s \in Heights,
           Bit(n + 1, s) = 1, \A h \in 0 .. s - 1 : Bit(n + 1, h) = 0
    PROVE  /\ \A h \in 0..s : ShiftRight(n + 1, h) = ShiftRight(n, h) + 1
           /\ \A h \in 0 .. s - 1 : Bit(n, h) = 1
           /\ \A h \in Heights : h > s => ShiftRight(n + 1, h) = ShiftRight(n, h)
<1> DEFINE old(h) == ShiftRight(n, h)
           new(h) == ShiftRight(n + 1, h)
<1>0. n + 1 \in 0 .. MaxDepositCount /\ s \in Nat /\ s \in 0..Depth
  BY Rows DEF Heights
<1>1. /\ old(0) = n /\ new(0) = n + 1
      /\ \A h \in 0..Depth : old(h) \in Nat /\ new(h) \in Nat
      /\ \A h \in Heights : old(h + 1) = old(h) \div 2 /\ new(h + 1) = new(h) \div 2
  <2>1. old(0) = n /\ \A h \in 0..Depth : old(h) \in Nat
    BY Shifts
  <2>2. new(0) = n + 1 /\ \A h \in 0..Depth : new(h) \in Nat
    BY <1>0, Shifts
  <2>3. \A h \in Heights : old(h + 1) = old(h) \div 2 /\ new(h + 1) = new(h) \div 2
    BY <1>0, Shifts
  <2> QED BY <2>1, <2>2, <2>3
<1>2. ASSUME NEW h \in 0 .. s - 1
      PROVE  h \in Heights /\ h \in 0..Depth /\ new(h) % 2 = 0
  <2>1. h \in Heights /\ h \in 0..Depth
    BY Rows DEF Heights
  <2>2. Bit(n + 1, h) = 0
    OBVIOUS
  <2> QED BY <2>1, <2>2 DEF Bit
<1>3. new(s) % 2 = 1
  BY DEF Bit
<1> HIDE DEF old, new
<1>4. \A h \in 0..s : new(h) = old(h) + 1
  <2> DEFINE S == {h \in 0..s : new(h) = old(h) + 1}
  <2>1. 0 \in S
    BY <1>0, <1>1
  <2>2. ASSUME NEW h \in 0..s, h + 1 \in 0..s, h \in S PROVE h + 1 \in S
    <3>1. h \in 0 .. s - 1
      BY <2>2, <1>0
    <3>2. h \in Heights /\ new(h) % 2 = 0 /\ new(h) \in Nat /\ old(h) \in Nat
      BY <3>1, <1>1, <1>2
    <3>3. new(h + 1) = new(h) \div 2 /\ old(h + 1) = old(h) \div 2 /\ new(h) = old(h) + 1
      BY <3>2, <1>1, <2>2
    <3>4. new(h + 1) = old(h + 1) + 1
      BY <3>2, <3>3
    <3> QED BY <2>2, <3>4
  <2> HIDE DEF S
  <2>3. \A h \in 0..s : h \in S
    BY <1>0, <2>1, <2>2, Induction
  <2> QED BY <2>3 DEF S
<1>5. ASSUME NEW h \in 0 .. s - 1 PROVE Bit(n, h) = 1
  <2>1. new(h) % 2 = 0 /\ new(h) = old(h) + 1 /\ old(h) \in Nat
    BY <1>0, <1>1, <1>2, <1>4
  <2>2. old(h) % 2 = 1
    BY <2>1
  <2> QED BY <2>2 DEF old, Bit
<1>6. \A h \in Heights : h > s => new(h) = old(h)
  <2> DEFINE S == {h \in 0..Depth : h > s => new(h) = old(h)}
  <2>1. 0 \in S
    BY <1>0, Rows
  <2>2. ASSUME NEW h \in 0..Depth, h + 1 \in 0..Depth, h \in S PROVE h + 1 \in S
    <3>1. h \in Heights
      BY <2>2, Rows DEF Heights
    <3>2. old(h + 1) = old(h) \div 2 /\ new(h + 1) = new(h) \div 2
      BY <3>1, <1>1
    <3>3. CASE h > s
      BY <3>2, <3>3, <2>2
    <3>4. CASE h = s
      <4>1. new(h) = old(h) + 1 /\ new(h) % 2 = 1 /\ old(h) \in Nat
        BY <3>4, <1>0, <1>1, <1>3, <1>4
      <4>2. \A k \in Nat : (k + 1) % 2 = 1 => (k + 1) \div 2 = k \div 2
        OBVIOUS
      <4>3. new(h) \div 2 = old(h) \div 2
        BY <4>1, <4>2
      <4> QED BY <4>3, <3>2, <2>2
    <3>5. CASE h < s
      <4>1. ~(h + 1 > s)
        BY <3>5, <1>0
      <4> QED BY <4>1, <2>2
    <3> QED BY <1>0, <3>3, <3>4, <3>5
  <2> HIDE DEF S
  <2>3. \A h \in 0..Depth : h \in S
    BY <2>1, <2>2, Rows, Induction
  <2> QED BY <2>3, Rows DEF S
<1> QED BY <1>4, <1>5, <1>6 DEF old, new

\* Each height up to the one stored carries the node of the tree with the new leaf.
LEMMA CarriedNodes ==
    ASSUME TreeInv, NEW leaf \in Leaves, depositCount < MaxDepositCount,
           NEW s \in Heights, StoreHeight(s)
    PROVE  \A h \in 0..s :
               Carried(leaf)[h] = Node(Append(leaves, leaf), h, ShiftRight(depositCount, h))
<1> DEFINE k(h) == ShiftRight(depositCount, h)
           longer == Append(leaves, leaf)
           S == {h \in 0..s : Carried(leaf)[h] = Node(longer, h, k(h))}
<1>0. /\ depositCount \in 0 .. MaxDepositCount /\ leaves \in Seq(Leaves)
      /\ Len(leaves) = depositCount /\ s \in Nat
  BY Rows DEF TreeInv, Heights
<1>1. /\ Len(longer) = depositCount + 1 /\ longer[depositCount + 1] = leaf
      /\ \A i \in 1..depositCount : longer[i] = leaves[i]
  BY <1>0
<1>2. /\ k(0) = depositCount
      /\ \A h \in 0..Depth : k(h) \in Row(h) /\ k(h) \in Nat
      /\ \A h \in Heights : k(h + 1) = k(h) \div 2
  BY <1>0, Shifts DEF Row
<1>3. ASSUME NEW h \in 0 .. s - 1
      PROVE  h \in Heights /\ h + 1 \in Heights /\ Bit(depositCount, h) = 1
  <2>1. Bit(depositCount, h) = 1
    BY <1>0, Carry DEF StoreHeight
  <2>2. h \in Heights /\ h + 1 \in Heights
    BY <1>0, Rows DEF Heights
  <2> QED BY <2>1, <2>2
<1> HIDE DEF k, longer
<1>4. 0 \in S
  <2>1. 0 \in Row(0) /\ depositCount \in Row(0) /\ depositCount < Len(longer)
    BY <1>0, <1>1, Rows
  <2>2. Node(longer, 0, depositCount) = leaf
    BY <2>1, <1>1, TreeNodes
  <2> QED BY <2>2, <1>0, <1>2, CarriedPath
<1>5. ASSUME NEW h \in 0..s, h + 1 \in 0..s, h \in S PROVE h + 1 \in S
  <2>1. h \in 0 .. s - 1
    BY <1>5, <1>0
  <2>2. h \in Heights /\ h + 1 \in Heights /\ Bit(depositCount, h) = 1 /\ h \in 0..Depth
        /\ h + 1 \in 0..Depth
    BY <2>1, <1>3, Rows
  <2>3. branch[h] = Node(leaves, h, k(h) - 1)
    BY <2>2 DEF TreeInv, BranchOK, k
  <2>4. k(h) % 2 = 1 /\ k(h) \in Nat /\ k(h + 1) = k(h) \div 2 /\ k(h + 1) \in Row(h + 1)
    BY <2>2, <1>2 DEF Bit, k
  <2>5. 2 * k(h + 1) = k(h) - 1 /\ 2 * k(h + 1) + 1 = k(h)
    BY <2>4
  <2>6. /\ k(h) - 1 \in Row(h)
        /\ Node(longer, h + 1, k(h + 1))
             = EfficientKeccak256(Node(longer, h, k(h) - 1), Node(longer, h, k(h)))
    BY <2>2, <2>4, <2>5, TreeNodes
  <2>7. Node(longer, h, k(h) - 1) = Node(leaves, h, k(h) - 1)
    <3>1. \A i \in Row(h) : i < k(h) => Node(longer, h, i) = Node(leaves, h, i)
      BY <1>0, <1>1, <2>2, CompleteNodesStay DEF k
    <3> QED BY <3>1, <2>4, <2>6
  <2>8. Carried(leaf)[h + 1] = EfficientKeccak256(branch[h], Carried(leaf)[h])
    BY <2>2, CarriedPath
  <2> QED BY <1>5, <2>3, <2>6, <2>7, <2>8
<1> HIDE DEF S
<1>6. \A h \in 0..s : h \in S
  BY <1>0, <1>4, <1>5, Induction
<1> QED BY <1>6 DEF S, k, longer

LEMMA AddLeafStep ==
    ASSUME TreeInv, NEW leaf \in Leaves, AddLeaf(leaf) PROVE TreeInv'
<1>0. PICK s \in Heights : /\ StoreHeight(s)
                           /\ branch' = [branch EXCEPT ![s] = Carried(leaf)[s]]
  BY DEF AddLeaf
<1>1. /\ depositCount \in 0 .. MaxDepositCount /\ depositCount < MaxDepositCount
      /\ depositCount' = depositCount + 1
      /\ leaves \in Seq(Leaves) /\ Len(leaves) = depositCount
      /\ leaves' = Append(leaves, leaf)
      /\ s \in Nat /\ s \in 0..s
  BY Rows DEF TreeInv, AddLeaf, Heights
<1>2. /\ depositCount' \in 0 .. MaxDepositCount
      /\ leaves' \in Seq(Leaves) /\ Len(leaves') = depositCount'
      /\ \A i \in 1..depositCount : leaves'[i] = leaves[i]
  BY <1>1, Rows
<1>3. DOMAIN branch' = Heights /\ DOMAIN branch = Heights
  BY <1>0 DEF TreeInv
<1> DEFINE old(h) == ShiftRight(depositCount, h)
           new(h) == ShiftRight(depositCount + 1, h)
<1>4. /\ \A h \in 0..s : new(h) = old(h) + 1
      /\ \A h \in Heights : h > s => new(h) = old(h)
      /\ \A h \in 0 .. s - 1 : Bit(depositCount + 1, h) = 0
  BY <1>0, <1>1, Carry DEF StoreHeight
<1>5. \A h \in Heights : /\ old(h) \in Row(h) /\ old(h) \in Nat
                         /\ h \in 0..Depth
  BY <1>1, Shifts, Rows DEF Row
<1> HIDE DEF old, new
<1>6. ASSUME NEW h \in Heights, Bit(depositCount + 1, h) = 1
      PROVE  branch'[h] = Node(leaves', h, new(h) - 1)
  <2>1. CASE h = s
    <3>1. branch'[h] = Carried(leaf)[s]
      BY <1>0, <1>3, <2>1
    <3>2. Carried(leaf)[s] = Node(leaves', s, old(s))
      BY <1>0, <1>1, CarriedNodes DEF old
    <3>3. new(s) - 1 = old(s)
      BY <1>1, <1>4, <1>5
    <3> QED BY <2>1, <3>1, <3>2, <3>3
  <2>2. CASE h # s
    <3>1. h > s
      <4>1. h \in Nat /\ s \in Nat /\ ~(h \in 0 .. s - 1)
        BY <1>1, <1>4, <1>6 DEF Heights
      <4> QED BY <4>1, <2>2
    <3>2. new(h) = old(h) /\ branch'[h] = branch[h]
      BY <3>1, <1>0, <1>3, <1>4, <2>2
    <3>3. Bit(depositCount, h) = 1
      BY <3>2, <1>6 DEF Bit, new, old
    <3>4. branch[h] = Node(leaves, h, old(h) - 1)
      BY <3>3 DEF TreeInv, BranchOK, old
    <3>5. old(h) - 1 \in Row(h) /\ old(h) - 1 < old(h)
      <4>1. old(h) % 2 = 1
        BY <3>3 DEF Bit, old
      <4>2. old(h) \in 0 .. PowerOfTwo[Depth - h] - 1 /\ old(h) \in Nat
        BY <1>5 DEF Row
      <4>3. PowerOfTwo[Depth - h] \in Nat
        <5>1. Depth - h \in 0..Depth
          BY Rows, <1>5
        <5> QED BY <5>1, PowersOfTwo
      <4>4. old(h) >= 1
        BY <4>1, <4>2
      <4>5. old(h) - 1 \in 0 .. PowerOfTwo[Depth - h] - 1 /\ old(h) - 1 < old(h)
        BY <4>2, <4>3, <4>4
      <4> QED BY <4>5 DEF Row
    <3>6. \A i \in Row(h) : i < old(h) => Node(leaves', h, i) = Node(leaves, h, i)
      <4>1. Len(leaves') \in Nat /\ Len(leaves') >= Len(leaves)
        BY <1>1, <1>2
      <4> QED BY <1>1, <1>2, <1>5, <4>1, CompleteNodesStay DEF old
    <3> QED BY <3>2, <3>4, <3>5, <3>6
  <2> QED BY <2>1, <2>2
<1>7. BranchOK'
  BY <1>1, <1>6 DEF BranchOK, new, Node, ReferenceTree, Bit, ShiftRight
<1>8. localExitRoots' = localExitRoots
  BY DEF AddLeaf
<1> QED BY <1>2, <1>3, <1>7, <1>8 DEF TreeInv

LEMMA TreeInitInv == TreeInit => TreeInv
<1> SUFFICES ASSUME TreeInit PROVE TreeInv
  OBVIOUS
<1>1. \A h \in Heights : Bit(0, h) = 0
  <2> TAKE h \in Heights
  <2>1. h \in 0..Depth /\ PowerOfTwo[h] \in Nat /\ PowerOfTwo[h] > 0
    BY Rows, PowersOfTwo
  <2>2. \A p \in Nat : p > 0 => 0 \div p = 0
    OBVIOUS
  <2> QED BY <2>1, <2>2 DEF Bit, ShiftRight
<1>2. BranchOK
  BY <1>1 DEF TreeInit, BranchOK
<1> QED BY <1>2, Rows, TreeAssumption DEF TreeInit, TreeInv

LEMMA TreeStep == TreeInv /\ [TreeNext]_treeVars => TreeInv'
<1> SUFFICES ASSUME TreeInv, [TreeNext]_treeVars PROVE TreeInv'
  OBVIOUS
<1>1. ASSUME NEW leaf \in Leaves, AddLeaf(leaf) PROVE TreeInv'
  BY <1>1, AddLeafStep
<1>2. ASSUME UNCHANGED <<branch, depositCount, leaves>>,
             localExitRoots' \in Seq(ExitRoots), Len(localExitRoots') <= MaxTreeRollups
      PROVE  TreeInv'
  BY <1>2 DEF TreeInv, BranchOK
<1>3. ASSUME NEW root \in ExitRoots, AddRollup(root) PROVE TreeInv'
  <2>1. /\ localExitRoots \in Seq(ExitRoots) /\ Len(localExitRoots) < MaxTreeRollups
        /\ localExitRoots' = Append(localExitRoots, root)
    BY <1>3 DEF TreeInv, AddRollup
  <2>2. localExitRoots' \in Seq(ExitRoots) /\ Len(localExitRoots') <= MaxTreeRollups
    BY <2>1, TreeAssumption
  <2> QED BY <1>2, <1>3, <2>2 DEF AddRollup
<1>4. ASSUME NEW r \in 1..Len(localExitRoots), NEW root \in ExitRoots, SetLocalExitRoot(r, root)
      PROVE  TreeInv'
  <2>1. /\ localExitRoots \in Seq(ExitRoots) /\ Len(localExitRoots) <= MaxTreeRollups
        /\ localExitRoots' = [localExitRoots EXCEPT ![r] = root]
    BY <1>4 DEF TreeInv, SetLocalExitRoot
  <2>2. localExitRoots' \in Seq(ExitRoots) /\ Len(localExitRoots') <= MaxTreeRollups
    BY <2>1
  <2> QED BY <1>2, <1>4, <2>2 DEF SetLocalExitRoot
<1>5. CASE UNCHANGED treeVars
  BY <1>5 DEF TreeInv, BranchOK, treeVars
<1> QED BY <1>1, <1>3, <1>4, <1>5 DEF TreeNext

-----------------------------------------------------------------------------
(* The roots and the proofs. *)

\* A number and its half: which child of the half it is.
LEMMA Halves ==
    ASSUME NEW n \in 0 .. MaxDepositCount, NEW h \in Heights
    PROVE  LET k == ShiftRight(n, h)
               up == ShiftRight(n, h + 1)
           IN  /\ k \in Row(h) /\ up \in Row(h + 1)
               /\ k \in Nat /\ up \in Nat
               /\ k % 2 = Bit(n, h)
               /\ Bit(n, h) = 1 => 2 * up = k - 1 /\ 2 * up + 1 = k
               /\ Bit(n, h) # 1 => Bit(n, h) = 0 /\ 2 * up = k /\ 2 * up + 1 = k + 1
<1> DEFINE k == ShiftRight(n, h)
           up == ShiftRight(n, h + 1)
<1>1. h \in 0..Depth /\ h + 1 \in 0..Depth
  BY Rows
<1>2. k \in Row(h) /\ k \in Nat /\ up \in Row(h + 1) /\ up \in Nat /\ up = k \div 2
  BY <1>1, Shifts DEF Row
<1>3. Bit(n, h) = k % 2
  BY DEF Bit
<1> HIDE DEF k, up
<1>4. \A m \in Nat : /\ m % 2 = 1 => 2 * (m \div 2) = m - 1 /\ 2 * (m \div 2) + 1 = m
                     /\ m % 2 # 1 => m % 2 = 0 /\ 2 * (m \div 2) = m /\ 2 * (m \div 2) + 1 = m + 1
  OBVIOUS
<1>5. /\ Bit(n, h) = 1 => 2 * up = k - 1 /\ 2 * up + 1 = k
      /\ Bit(n, h) # 1 => Bit(n, h) = 0 /\ 2 * up = k /\ 2 * up + 1 = k + 1
  BY <1>2, <1>3, <1>4
<1> QED BY <1>2, <1>3, <1>5 DEF k, up

LEMMA BranchGivesRoot == TreeInv => RootIsReference
<1> SUFFICES ASSUME TreeInv PROVE RootIsReference
  OBVIOUS
<1> DEFINE k(h) == ShiftRight(depositCount, h)
<1>1. PICK node : /\ GetRoot = node[Depth]
                  /\ node[0] = EmptyLeaf
                  /\ \A h \in Heights :
                         node[h + 1] = IF Bit(depositCount, h) = 1
                                       THEN EfficientKeccak256(branch[h], node[h])
                                       ELSE EfficientKeccak256(node[h], ZeroHashes[h])
  BY GetRootPath
<1>2. depositCount \in 0 .. MaxDepositCount /\ Len(leaves) = depositCount
  BY DEF TreeInv
<1> DEFINE S == {h \in 0..Depth : node[h] = Node(leaves, h, k(h))}
<1>3. 0 \in S
  <2>1. k(0) = depositCount /\ depositCount \in Row(0) /\ ~(depositCount < Len(leaves))
    BY <1>2, Shifts, Rows
  <2> HIDE DEF k
  <2>2. Node(leaves, 0, k(0)) = EmptyLeaf
    BY <2>1, TreeNodes
  <2> QED BY <2>2, <1>1, Rows
<1>4. ASSUME NEW h \in 0..Depth, h + 1 \in 0..Depth, h \in S PROVE h + 1 \in S
  <2>1. h \in Heights
    BY <1>4, Rows DEF Heights
  <2>2. /\ k(h) \in Row(h) /\ k(h + 1) \in Row(h + 1) /\ k(h) \in Nat
        /\ Bit(depositCount, h) = 1 => 2 * k(h + 1) = k(h) - 1 /\ 2 * k(h + 1) + 1 = k(h)
        /\ Bit(depositCount, h) # 1 => 2 * k(h + 1) = k(h) /\ 2 * k(h + 1) + 1 = k(h) + 1
    BY <1>2, <2>1, Halves
  <2>3. /\ 2 * k(h + 1) + 1 \in Row(h)
        /\ Node(leaves, h + 1, k(h + 1))
             = EfficientKeccak256(Node(leaves, h, 2 * k(h + 1)), Node(leaves, h, 2 * k(h + 1) + 1))
    BY <2>1, <2>2, TreeNodes
  <2>4. \A i \in Row(h) : i > k(h) => Node(leaves, h, i) = ZeroHashes[h]
    BY <1>2, <1>4, NothingBeyondCount
  <2>5. Bit(depositCount, h) = 1 => branch[h] = Node(leaves, h, k(h) - 1)
    BY <2>1 DEF TreeInv, BranchOK
  <2> HIDE DEF k
  <2>6. CASE Bit(depositCount, h) = 1
    BY <1>1, <1>4, <2>1, <2>2, <2>3, <2>5, <2>6
  <2>7. CASE Bit(depositCount, h) # 1
    <3>1. k(h) + 1 > k(h) /\ k(h) + 1 \in Row(h)
      BY <2>2, <2>3, <2>7
    <3>2. Node(leaves, h, k(h) + 1) = ZeroHashes[h]
      BY <3>1, <2>4
    <3> QED BY <1>1, <1>4, <2>1, <2>2, <2>3, <2>7, <3>2
  <2> QED BY <2>6, <2>7
<1> HIDE DEF S
<1>5. \A h \in 0..Depth : h \in S
  BY <1>3, <1>4, Rows, Induction
<1>6. node[Depth] = Node(leaves, Depth, k(Depth)) /\ k(Depth) = 0
  BY <1>2, <1>5, Rows, Shifts DEF S
<1> QED BY <1>1, <1>6 DEF RootIsReference, ReferenceRoot, Node

\* The proof for an index takes any leaf up beside the nodes of the tree, and meets
\* them only if it started at them.
LEMMA OnlyTheLeafClimbs ==
    ASSUME NEW seq, NEW index \in 0 .. MaxDepositCount, NEW leaf
    PROVE  CalculateRoot(leaf, MerkleProof(seq, index), index) = ReferenceRoot(seq)
               <=> leaf = Node(seq, 0, index)
<1> DEFINE k(h) == ShiftRight(index, h)
           smtProof == MerkleProof(seq, index)
<1>1. PICK node : /\ CalculateRoot(leaf, smtProof, index) = node[Depth]
                  /\ node[0] = leaf
                  /\ \A h \in Heights :
                         node[h + 1] = Above(node[h], Bit(index, h) = 1, smtProof[h])
  BY ProofPath
<1> DEFINE S == {h \in 0..Depth : node[h] = Node(seq, h, k(h)) <=> leaf = Node(seq, 0, index)}
<1>2. 0 \in S
  BY <1>1, Shifts, Rows
<1>3. ASSUME NEW h \in 0..Depth, h + 1 \in 0..Depth, h \in S PROVE h + 1 \in S
  <2>1. h \in Heights
    BY <1>3, Rows DEF Heights
  <2>2. /\ k(h) \in Row(h) /\ k(h + 1) \in Row(h + 1) /\ k(h) \in Nat /\ k(h) % 2 = Bit(index, h)
        /\ Bit(index, h) = 1 => 2 * k(h + 1) = k(h) - 1 /\ 2 * k(h + 1) + 1 = k(h)
        /\ Bit(index, h) # 1 => Bit(index, h) = 0
                                /\ 2 * k(h + 1) = k(h) /\ 2 * k(h + 1) + 1 = k(h) + 1
    BY <2>1, Halves
  <2>3. Node(seq, h + 1, k(h + 1))
           = EfficientKeccak256(Node(seq, h, 2 * k(h + 1)), Node(seq, h, 2 * k(h + 1) + 1))
    BY <2>1, <2>2, TreeNodes
  <2>4. smtProof[h] = Node(seq, h, IF k(h) % 2 = 0 THEN k(h) + 1 ELSE k(h) - 1)
    BY <2>1 DEF MerkleProof, Node
  <2>5. node[h + 1] = Above(node[h], Bit(index, h) = 1, smtProof[h])
    BY <1>1, <2>1
  <2> HIDE DEF k, smtProof
  <2>6. CASE Bit(index, h) = 1
    <3>1. Node(seq, h + 1, k(h + 1)) = <<smtProof[h], Node(seq, h, k(h))>>
      BY <2>2, <2>3, <2>4, <2>6 DEF EfficientKeccak256
    <3>2. node[h + 1] = <<smtProof[h], node[h]>>
      BY <2>5, <2>6 DEF Above, EfficientKeccak256
    <3> QED BY <1>3, <3>1, <3>2
  <2>7. CASE Bit(index, h) # 1
    <3>1. Node(seq, h + 1, k(h + 1)) = <<Node(seq, h, k(h)), smtProof[h]>>
      BY <2>2, <2>3, <2>4, <2>7 DEF EfficientKeccak256
    <3>2. node[h + 1] = <<node[h], smtProof[h]>>
      BY <2>5, <2>7 DEF Above, EfficientKeccak256
    <3> QED BY <1>3, <3>1, <3>2
  <2> QED BY <2>6, <2>7
<1> HIDE DEF S
<1>4. \A h \in 0..Depth : h \in S
  BY <1>2, <1>3, Rows, Induction
<1>5. Depth \in S /\ k(Depth) = 0
  BY <1>4, Rows, Shifts
<1>6. node[Depth] = ReferenceRoot(seq) <=> leaf = Node(seq, 0, index)
  BY <1>5 DEF S, ReferenceRoot, Node
<1> QED BY <1>1, <1>6

LEMMA ProofsAgree == TreeInv => ProofsMatchLeaves
<1> SUFFICES ASSUME TreeInv,
                    NEW index \in 0 .. MaxDepositCount, NEW leaf \in Leaves \cup {EmptyLeaf}
             PROVE  VerifyMerkleProof(leaf, MerkleProof(leaves, index), index, GetRoot)
                      <=> leaf = (IF index < depositCount THEN leaves[index + 1] ELSE EmptyLeaf)
  BY DEF ProofsMatchLeaves
<1>1. GetRoot = ReferenceRoot(leaves)
  BY BranchGivesRoot DEF RootIsReference
<1>2. Node(leaves, 0, index) = IF index < depositCount THEN leaves[index + 1] ELSE EmptyLeaf
  BY Rows, TreeNodes DEF TreeInv
<1> QED BY <1>1, <1>2, OnlyTheLeafClimbs DEF VerifyMerkleProof

-----------------------------------------------------------------------------
(* The root over the rollups. *)

IsLevels(f, n, roots) ==
    f = [h \in 0..n |-> IF h = 0 THEN roots ELSE NextLevel(f[h - 1], ZeroHashes[h - 1])]

LEMMA LevelsExist ==
    ASSUME NEW n \in Nat, NEW roots PROVE \E f : IsLevels(f, n, roots)
<1> DEFINE S == {h \in 0..n : \E f : IsLevels(f, h, roots)}
<1>1. 0 \in S
  <2>1. IsLevels([h \in 0..0 |-> roots], 0, roots)
    BY DEF IsLevels
  <2> QED BY <2>1
<1>2. ASSUME NEW h \in 0..n, h + 1 \in 0..n, h \in S PROVE h + 1 \in S
  <2>1. PICK f : IsLevels(f, h, roots)
    BY <1>2
  <2> DEFINE g == [k \in 0 .. h + 1 |-> IF k = h + 1 THEN NextLevel(f[h], ZeroHashes[h])
                                        ELSE f[k]]
  <2>2. ASSUME NEW k \in 0 .. h + 1
        PROVE  g[k] = IF k = 0 THEN roots ELSE NextLevel(g[k - 1], ZeroHashes[k - 1])
    <3>1. CASE k = h + 1
      BY <3>1
    <3>2. CASE k # h + 1
      <4>1. k \in 0..h /\ (k # 0 => k - 1 \in 0..h)
        BY <3>2
      <4>2. f[k] = IF k = 0 THEN roots ELSE NextLevel(f[k - 1], ZeroHashes[k - 1])
        BY <4>1, <2>1 DEF IsLevels
      <4> QED BY <4>1, <4>2, <3>2
    <3> QED BY <3>1, <3>2
  <2>3. IsLevels(g, h + 1, roots)
    BY <2>2 DEF IsLevels
  <2> QED BY <1>2, <2>3
<1> HIDE DEF S
<1>3. \A h \in 0..n : h \in S
  BY <1>1, <1>2, Induction
<1> QED BY <1>3 DEF S

\* Each level hashes the pairs of the one below.
LEMMA LevelSteps ==
    ASSUME NEW roots
    PROVE  /\ RollupLevels(roots)[0] = roots
           /\ \A h \in Heights :
                  RollupLevels(roots)[h + 1] = NextLevel(RollupLevels(roots)[h], ZeroHashes[h])
<1> DEFINE level == RollupLevels(roots)
<1>1. IsLevels(level, Depth, roots)
  <2> DEFINE all == CHOOSE f : IsLevels(f, Depth, roots)
  <2>1. IsLevels(all, Depth, roots)
    BY LevelsExist, Rows
  <2>2. level = all
    BY DEF RollupLevels, IsLevels
  <2> HIDE DEF all, level
  <2> QED BY <2>1, <2>2
<1> HIDE DEF level
<1>2. \A h \in 0..Depth : level[h] = IF h = 0 THEN roots
                                     ELSE NextLevel(level[h - 1], ZeroHashes[h - 1])
  BY <1>1 DEF IsLevels
<1>3. level[0] = roots
  BY <1>2, Rows
<1>4. ASSUME NEW h \in Heights PROVE level[h + 1] = NextLevel(level[h], ZeroHashes[h])
  <2>1. h + 1 \in 0..Depth /\ h + 1 # 0 /\ (h + 1) - 1 = h
    BY Rows DEF Heights
  <2> QED BY <2>1, <1>2
<1> QED BY <1>3, <1>4 DEF level

\* A level is half as wide as the one below, rounded up.
LEMMA NextLevelFacts ==
    ASSUME NEW tree, Len(tree) \in Nat, NEW zero
    PROVE  /\ Len(NextLevel(tree, zero)) = (Len(tree) + 1) \div 2
           /\ \A i \in 1 .. (Len(tree) + 1) \div 2 :
                  NextLevel(tree, zero)[i]
                    = EfficientKeccak256(tree[2 * i - 1],
                                         IF 2 * i <= Len(tree) THEN tree[2 * i] ELSE zero)
<1> DEFINE n == (Len(tree) + 1) \div 2
           e(i) == EfficientKeccak256(tree[2 * i - 1],
                                      IF 2 * i <= Len(tree) THEN tree[2 * i] ELSE zero)
<1>1. n \in Nat
  OBVIOUS
<1>2. NextLevel(tree, zero) = [i \in 1..n |-> e(i)]
  BY DEF NextLevel
<1> HIDE DEF n, e
<1>3. Len([i \in 1..n |-> e(i)]) = n
  BY <1>1
<1> QED BY <1>2, <1>3 DEF n, e

LEMMA LevelWidths ==
    ASSUME NEW roots, Len(roots) \in 1 .. PowerOfTwo[Depth]
    PROVE  /\ \A h \in 0..Depth : Len(RollupLevels(roots)[h]) \in 1 .. PowerOfTwo[Depth - h]
           /\ \A h \in Heights : Len(RollupLevels(roots)[h + 1]) = (Len(RollupLevels(roots)[h]) + 1) \div 2
           /\ Len(RollupLevels(roots)[Depth]) = 1
<1> DEFINE level == RollupLevels(roots)
           S == {h \in 0..Depth : Len(level[h]) \in 1 .. PowerOfTwo[Depth - h]}
<1>1. 0 \in S
  <2>1. Depth - 0 = Depth
    BY Rows
  <2> QED BY <2>1, LevelSteps, Rows
<1>2. ASSUME NEW h \in 0..Depth, h + 1 \in 0..Depth, h \in S PROVE h + 1 \in S
  <2>1. /\ h \in Heights /\ Depth - (h + 1) \in Heights
        /\ (Depth - (h + 1)) + 1 = Depth - h /\ Depth - (h + 1) \in 0..Depth
    BY <1>2, Rows DEF Heights
  <2>2. PowerOfTwo[Depth - h] = 2 * PowerOfTwo[Depth - (h + 1)]
        /\ PowerOfTwo[Depth - (h + 1)] \in Nat
    BY <2>1, PowersOfTwo
  <2>3. Len(level[h]) \in 1 .. PowerOfTwo[Depth - h]
    BY <1>2
  <2>4. Len(level[h + 1]) = (Len(level[h]) + 1) \div 2
    <3>1. Len(level[h]) \in Nat
      BY <2>2, <2>3
    <3>2. level[h + 1] = NextLevel(level[h], ZeroHashes[h])
      BY <2>1, LevelSteps
    <3> QED BY <3>1, <3>2, NextLevelFacts
  <2> HIDE DEF level
  <2>5. Len(level[h + 1]) \in 1 .. PowerOfTwo[Depth - (h + 1)]
    <3>1. \A n, p \in Nat : n \in 1 .. 2 * p => (n + 1) \div 2 \in 1..p
      OBVIOUS
    <3>2. Len(level[h]) \in Nat /\ Len(level[h]) \in 1 .. 2 * PowerOfTwo[Depth - (h + 1)]
      BY <2>2, <2>3
    <3>3. (Len(level[h]) + 1) \div 2 \in 1 .. PowerOfTwo[Depth - (h + 1)]
      BY <2>2, <3>1, <3>2
    <3> QED BY <2>4, <3>3
  <2> QED BY <1>2, <2>5
<1> HIDE DEF S
<1>3. \A h \in 0..Depth : h \in S
  BY <1>1, <1>2, Rows, Induction
<1>4. \A h \in 0..Depth : Len(level[h]) \in 1 .. PowerOfTwo[Depth - h]
  BY <1>3 DEF S
<1>5. ASSUME NEW h \in Heights PROVE Len(level[h + 1]) = (Len(level[h]) + 1) \div 2
  <2>1. Len(level[h]) \in Nat
    <3>1. h \in 0..Depth /\ Depth - h \in 0..Depth
      BY Rows
    <3>2. Len(level[h]) \in 1 .. PowerOfTwo[Depth - h] /\ PowerOfTwo[Depth - h] \in Nat
      BY <3>1, <1>4, PowersOfTwo
    <3> QED BY <3>2
  <2>2. level[h + 1] = NextLevel(level[h], ZeroHashes[h])
    BY LevelSteps
  <2> QED BY <2>1, <2>2, NextLevelFacts
<1>6. Len(level[Depth]) = 1
  <2>1. Depth - Depth = 0 /\ Depth \in 0..Depth
    BY Rows
  <2>2. Len(level[Depth]) \in 1 .. PowerOfTwo[0]
    BY <2>1, <1>4
  <2>3. PowerOfTwo[0] = 1
    BY PowersOfTwo
  <2> HIDE DEF level
  <2> QED BY <2>2, <2>3
<1> QED BY <1>4, <1>5, <1>6

\* A level is the occupied part of the row of the complete tree.
LEMMA LevelNodes ==
    ASSUME NEW roots, Len(roots) \in 1 .. PowerOfTwo[Depth]
    PROVE  \A h \in 0..Depth : \A i \in Row(h) :
               Node(roots, h, i) = IF i < Len(RollupLevels(roots)[h]) THEN RollupLevels(roots)[h][i + 1]
                                   ELSE ZeroHashes[h]
<1> DEFINE level == RollupLevels(roots)
           width == [h \in 0..Depth |-> Len(level[h])]
<1>1. /\ \A h \in 0..Depth : Len(level[h]) \in Nat /\ width[h] = Len(level[h])
      /\ \A h \in Heights : Len(level[h + 1]) = (Len(level[h]) + 1) \div 2
      /\ level[0] = roots
      /\ \A h \in Heights : level[h + 1] = NextLevel(level[h], ZeroHashes[h])
  <2>1. ASSUME NEW h \in 0..Depth PROVE Len(level[h]) \in Nat
    <3>1. Depth - h \in 0..Depth
      BY Rows
    <3>2. Len(level[h]) \in 1 .. PowerOfTwo[Depth - h] /\ PowerOfTwo[Depth - h] \in Nat
      BY <3>1, LevelWidths, PowersOfTwo
    <3> QED BY <3>2
  <2>2. \A h \in Heights : Len(level[h + 1]) = (Len(level[h]) + 1) \div 2
    BY LevelWidths
  <2> QED BY <2>1, <2>2, LevelSteps
<1> HIDE DEF level, width
<1>2. \A h \in 0..Depth : \A i \in Row(h) : i >= width[h] => Node(roots, h, i) = ZeroHashes[h]
  <2>1. Len(roots) \in Nat /\ width[0] >= Len(roots)
    BY <1>1, Rows
  <2>2. ASSUME NEW h \in Heights PROVE 2 * width[h + 1] >= width[h]
    <3>1. h \in 0..Depth /\ h + 1 \in 0..Depth
      BY Rows
    <3>2. \A n \in Nat : 2 * ((n + 1) \div 2) >= n
      OBVIOUS
    <3> QED BY <3>1, <3>2, <1>1
  <2>3. \A h \in 0..Depth : width[h] \in Nat
    BY <1>1
  <2> QED BY <2>1, <2>2, <2>3, ZerosBeyond
<1> DEFINE S == {h \in 0..Depth : \A i \in Row(h) : i < Len(level[h]) =>
                                      Node(roots, h, i) = level[h][i + 1]}
<1>3. 0 \in S
  BY <1>1, TreeNodes, Rows
<1>4. ASSUME NEW h \in 0..Depth, h + 1 \in 0..Depth, h \in S PROVE h + 1 \in S
  <2>1. h \in Heights
    BY <1>4, Rows DEF Heights
  <2>2. ASSUME NEW i \in Row(h + 1), i < Len(level[h + 1])
        PROVE  Node(roots, h + 1, i) = level[h + 1][i + 1]
    <3> DEFINE n == Len(level[h])
    <3>1. 2 * i \in Row(h) /\ 2 * i + 1 \in Row(h)
          /\ Node(roots, h + 1, i)
               = EfficientKeccak256(Node(roots, h, 2 * i), Node(roots, h, 2 * i + 1))
      BY <2>1, TreeNodes
    <3>2. i \in Nat /\ n \in Nat /\ i < (n + 1) \div 2
      <4>1. i \in Nat
        BY DEF Row
      <4> QED BY <4>1, <1>1, <2>1, <2>2
    <3>3. level[h + 1][i + 1]
            = EfficientKeccak256(level[h][2 * (i + 1) - 1],
                                 IF 2 * (i + 1) <= n THEN level[h][2 * (i + 1)] ELSE ZeroHashes[h])
      <4>1. \A j, m \in Nat : j < (m + 1) \div 2 => j + 1 \in 1 .. (m + 1) \div 2
        OBVIOUS
      <4>2. i + 1 \in 1 .. (Len(level[h]) + 1) \div 2
        BY <3>2, <4>1
      <4>3. level[h + 1] = NextLevel(level[h], ZeroHashes[h])
        BY <1>1, <2>1
      <4>4. NextLevel(level[h], ZeroHashes[h])[i + 1]
              = EfficientKeccak256(level[h][2 * (i + 1) - 1],
                                   IF 2 * (i + 1) <= Len(level[h]) THEN level[h][2 * (i + 1)]
                                   ELSE ZeroHashes[h])
        BY <4>2, <3>2, NextLevelFacts
      <4> QED BY <4>3, <4>4
    <3>4. 2 * i < n /\ 2 * (i + 1) - 1 = 2 * i + 1 /\ 2 * (i + 1) = (2 * i + 1) + 1
      <4>1. \A j, m \in Nat : j < (m + 1) \div 2 =>
                2 * j < m /\ 2 * (j + 1) - 1 = 2 * j + 1 /\ 2 * (j + 1) = (2 * j + 1) + 1
        OBVIOUS
      <4> HIDE DEF n
      <4> QED BY <3>2, <4>1
    <3>5. Node(roots, h, 2 * i) = level[h][2 * i + 1]
      BY <3>1, <3>4, <1>4
    <3>6. CASE 2 * (i + 1) <= n
      <4>1. 2 * i + 1 < n
        BY <3>2, <3>6
      <4>2. Node(roots, h, 2 * i + 1) = level[h][(2 * i + 1) + 1]
        BY <3>1, <4>1, <1>4
      <4> HIDE DEF n
      <4> QED BY <3>1, <3>3, <3>4, <3>5, <3>6, <4>2
    <3>7. CASE ~(2 * (i + 1) <= n)
      <4>1. 2 * i + 1 >= width[h]
        BY <3>2, <3>7, <1>1
      <4>2. Node(roots, h, 2 * i + 1) = ZeroHashes[h]
        BY <3>1, <4>1, <1>2
      <4> HIDE DEF n
      <4> QED BY <3>1, <3>3, <3>4, <3>5, <3>7, <4>2
    <3> QED BY <3>6, <3>7
  <2> QED BY <1>4, <2>2
<1> HIDE DEF S
<1>5. \A h \in 0..Depth : h \in S
  BY <1>3, <1>4, Rows, Induction
<1>6. ASSUME NEW h \in 0..Depth, NEW i \in Row(h)
      PROVE  Node(roots, h, i) = IF i < Len(level[h]) THEN level[h][i + 1] ELSE ZeroHashes[h]
  <2>1. CASE i < Len(level[h])
    BY <2>1, <1>5 DEF S
  <2>2. CASE ~(i < Len(level[h]))
    <3>1. i \in Int
      BY DEF Row
    <3>2. i >= width[h]
      BY <2>2, <3>1, <1>1
    <3> QED BY <2>2, <3>2, <1>2
  <2> QED BY <2>1, <2>2
<1> QED BY <1>6 DEF level

LEMMA SingleExists ==
    ASSUME NEW roots, Len(RollupLevels(roots)[Depth]) = 1
    PROVE  \E h \in 0..Depth : SingleNode(roots, h)
<1> DEFINE Singles == {h \in 0..Depth : Len(RollupLevels(roots)[h]) = 1}
<1>1. Depth \in Singles /\ Singles \in SUBSET Nat /\ Singles # {}
  BY Rows
<1>2. PICK h \in Singles : \A k \in Singles : h <= k
  <2> HIDE DEF Singles
  <2> QED BY <1>1, LeastElement
<1>3. ASSUME NEW k \in 0 .. h - 1 PROVE Len(RollupLevels(roots)[k]) # 1
  <2>1. k \in 0..Depth /\ h \in Nat /\ ~(h <= k)
    BY Rows
  <2> QED BY <2>1, <1>2
<1> QED BY <1>2, <1>3 DEF SingleNode

\* The levels above it, where everything else is zero.
IsTop(f, single, start) ==
    f = [h \in single..Depth |-> IF h = single THEN start
                                 ELSE EfficientKeccak256(f[h - 1], ZeroHashes[h - 1])]

LEMMA TopExists ==
    ASSUME NEW single \in 0..Depth, NEW start PROVE \E f : IsTop(f, single, start)
<1> DEFINE isRight == [j \in 0..Depth |-> FALSE]
           sibling == [j \in 0..Depth |-> ZeroHashes[j + single]]
<1>1. Depth \in Nat /\ single \in Nat /\ Depth - single \in Nat
  BY Rows
<1>2. PICK path : IsPath(path, Depth - single, start, isRight, sibling)
  <2> HIDE DEF isRight, sibling
  <2> QED BY <1>1, PathExists
<1> DEFINE f == [h \in single..Depth |-> path[h - single]]
<1>3. ASSUME NEW h \in single..Depth
      PROVE  f[h] = IF h = single THEN start
                    ELSE EfficientKeccak256(f[h - 1], ZeroHashes[h - 1])
  <2>1. /\ h - single \in 0 .. Depth - single /\ h \in Nat
        /\ h = single => h - single = 0
        /\ h # single => /\ h - single # 0 /\ h - 1 \in single..Depth
                         /\ (h - 1) - single = (h - single) - 1
                         /\ (h - single) - 1 \in 0..Depth
                         /\ ((h - single) - 1) + single = h - 1
    BY <1>1
  <2>2. path[h - single] = IF h - single = 0 THEN start
                           ELSE Above(path[(h - single) - 1], isRight[(h - single) - 1],
                                      sibling[(h - single) - 1])
    <3> HIDE DEF isRight, sibling
    <3> QED BY <1>2, <2>1 DEF IsPath
  <2>3. CASE h = single
    BY <2>1, <2>2, <2>3
  <2>4. CASE h # single
    <3>1. path[h - single] = EfficientKeccak256(path[(h - single) - 1], ZeroHashes[h - 1])
      BY <2>1, <2>2, <2>4 DEF Above
    <3>2. f[h - 1] = path[(h - single) - 1]
      BY <2>1, <2>4
    <3> QED BY <2>4, <3>1, <3>2
  <2> QED BY <2>3, <2>4
<1>4. IsTop(f, single, start)
  BY <1>3 DEF IsTop
<1> QED BY <1>4

LEMMA LevelsGiveRoot ==
    ASSUME NEW roots, Len(roots) \in 1 .. PowerOfTwo[Depth]
    PROVE  GetRollupExitRoot(roots) = ReferenceRoot(roots)
<1> DEFINE level == RollupLevels(roots)
           single == CHOOSE h \in 0..Depth : SingleNode(roots, h)
           root == CHOOSE f : IsTop(f, single, level[single][1])
<1>1. GetRollupExitRoot(roots) = root[Depth]
  <2>1. Len(roots) # 0
    OBVIOUS
  <2> QED BY <2>1 DEF GetRollupExitRoot, IsTop
<1>2. single \in 0..Depth /\ SingleNode(roots, single)
  BY LevelWidths, SingleExists
<1>3. IsTop(root, single, level[single][1])
  <2> HIDE DEF single
  <2> QED BY <1>2, TopExists
<1> HIDE DEF root, single
<1>4. \A h \in single..Depth : root[h] = IF h = single THEN level[single][1]
                                         ELSE EfficientKeccak256(root[h - 1], ZeroHashes[h - 1])
  BY <1>3 DEF IsTop
<1> DEFINE S == {h \in 0..Depth : h >= single =>
                     /\ Len(level[h]) = 1
                     /\ root[h] = Node(roots, h, 0)}
<1>5. Len(level[single]) = 1 /\ root[single] = Node(roots, single, 0)
  <2>1. Len(level[single]) = 1
    BY <1>2 DEF SingleNode
  <2>2. 0 \in Row(single)
    <3>1. Depth - single \in 0..Depth
      BY <1>2, Rows
    <3> QED BY <3>1, PowersOfTwo DEF Row
  <2>3. Node(roots, single, 0) = level[single][0 + 1]
    BY <1>2, <2>1, <2>2, LevelNodes
  <2>4. single \in single..Depth
    BY <1>2
  <2> QED BY <2>1, <2>3, <2>4, <1>4
<1>6. 0 \in S
  BY <1>2, <1>5, Rows
<1>7. ASSUME NEW h \in 0..Depth, h + 1 \in 0..Depth, h \in S PROVE h + 1 \in S
  <2>1. h \in Heights
    BY <1>7, Rows DEF Heights
  <2>2. CASE h >= single
    <3>1. Len(level[h]) = 1 /\ root[h] = Node(roots, h, 0)
      BY <1>7, <2>2
    <3>2. Len(level[h + 1]) = 1
      <4>1. Len(level[h + 1]) = (Len(level[h]) + 1) \div 2
        BY <2>1, LevelWidths
      <4>2. (1 + 1) \div 2 = 1
        OBVIOUS
      <4> HIDE DEF level
      <4> QED BY <3>1, <4>1, <4>2
    <3>3. 0 \in Row(h + 1)
      <4>1. Depth - (h + 1) \in 0..Depth
        BY <1>7, Rows
      <4> QED BY <4>1, PowersOfTwo DEF Row
    <3>4. 1 \in Row(h) /\ Node(roots, h + 1, 0)
                            = EfficientKeccak256(Node(roots, h, 0), Node(roots, h, 1))
      <4>1. /\ 2 * 0 + 1 \in Row(h)
            /\ Node(roots, h + 1, 0)
                 = EfficientKeccak256(Node(roots, h, 2 * 0), Node(roots, h, 2 * 0 + 1))
        BY <2>1, <3>3, TreeNodes
      <4>2. 2 * 0 = 0 /\ 2 * 0 + 1 = 1
        OBVIOUS
      <4> QED BY <4>1, <4>2
    <3>5. Node(roots, h, 1) = ZeroHashes[h]
      BY <3>1, <3>4, LevelNodes
    <3>6. root[h + 1] = EfficientKeccak256(root[h], ZeroHashes[h])
      <4>1. h + 1 \in single..Depth /\ h + 1 # single /\ (h + 1) - 1 = h
        BY <1>2, <1>7, <2>2
      <4> QED BY <4>1, <1>4
    <3> QED BY <1>7, <3>1, <3>2, <3>4, <3>5, <3>6
  <2>3. CASE ~(h >= single)
    <3>1. h + 1 >= single => h + 1 = single
      BY <1>2, <2>3
    <3> QED BY <1>5, <1>7, <3>1
  <2> QED BY <2>2, <2>3
<1> HIDE DEF S
<1>8. \A h \in 0..Depth : h \in S
  BY <1>6, <1>7, Rows, Induction
<1>9. root[Depth] = Node(roots, Depth, 0)
  <2>1. Depth \in S /\ Depth >= single
    BY <1>2, <1>8, Rows
  <2> QED BY <2>1 DEF S
<1> QED BY <1>1, <1>9 DEF ReferenceRoot, Node

LEMMA RollupRootAgrees == TreeInv => RollupRootIsReference
<1> SUFFICES ASSUME TreeInv, localExitRoots # <<>>
             PROVE  GetRollupExitRoot(localExitRoots) = ReferenceRoot(localExitRoots)
  BY DEF RollupRootIsReference
<1>1. localExitRoots \in Seq(ExitRoots) /\ Len(localExitRoots) <= MaxTreeRollups
  BY DEF TreeInv
<1>2. MaxTreeRollups \in Nat /\ MaxTreeRollups <= PowerOfTwo[Depth] /\ PowerOfTwo[Depth] \in Nat
  BY TreeAssumption, PowersOfTwo, Rows
<1>3. Len(localExitRoots) \in 1 .. PowerOfTwo[Depth]
  BY <1>1, <1>2
<1> QED BY <1>3, LevelsGiveRoot

-----------------------------------------------------------------------------
LEMMA SomeHeightStores ==
    ASSUME NEW n \in 1 .. MaxDepositCount
    PROVE  \E height \in Heights :
               /\ Bit(n, height) = 1
               /\ \A h \in 0 .. height - 1 : Bit(n, h) = 0
<1> DEFINE Set == {h \in Heights : Bit(n, h) = 1}
<1>0. n \in 0 .. MaxDepositCount /\ Heights \in SUBSET Nat
  BY Rows DEF Heights
<1>1. Set # {}
  <2> SUFFICES ASSUME Set = {} PROVE FALSE
    OBVIOUS
  <2> DEFINE S == {h \in 0..Depth : ShiftRight(n, h) # 0}
  <2>1. 0 \in S
    BY <1>0, Shifts, Rows
  <2>2. ASSUME NEW h \in 0..Depth, h + 1 \in 0..Depth, h \in S PROVE h + 1 \in S
    <3>1. h \in Heights
      BY <2>2, Rows DEF Heights
    <3>2. Bit(n, h) # 1
      BY <3>1
    <3>3. 2 * ShiftRight(n, h + 1) = ShiftRight(n, h)
      BY <1>0, <3>1, <3>2, Halves
    <3>4. ShiftRight(n, h + 1) # 0
      BY <2>2, <3>3
    <3> QED BY <2>2, <3>4
  <2> HIDE DEF S
  <2>3. Depth \in S
    BY <2>1, <2>2, Rows, Induction
  <2> QED BY <2>3, <1>0, Shifts DEF S
<1>2. PICK height \in Set : \A k \in Set : height <= k
  <2>1. Set \in SUBSET Nat
    BY <1>0
  <2> HIDE DEF Set
  <2> QED BY <1>1, <2>1, LeastElement
<1>3. ASSUME NEW h \in 0 .. height - 1 PROVE Bit(n, h) = 0
  <2>1. h \in Heights /\ ~(height <= h)
    BY Rows DEF Heights
  <2>2. Bit(n, h) # 1
    BY <1>2, <2>1
  <2> QED BY <1>0, <2>1, <2>2, Halves
<1> QED BY <1>2, <1>3

\* The loop of _addLeaf always returns: while the tree is not full some height takes
\* the leaf, so the assert(false) behind the loop is never reached.
THEOREM EveryLeafIsStored ==
    TreeInv /\ depositCount < MaxDepositCount => \E height \in Heights : StoreHeight(height)
<1> SUFFICES ASSUME TreeInv, depositCount < MaxDepositCount
             PROVE  \E height \in Heights : StoreHeight(height)
  OBVIOUS
<1>1. depositCount + 1 \in 1 .. MaxDepositCount
  BY Rows DEF TreeInv
<1> QED BY <1>1, SomeHeightStores DEF StoreHeight

\* The counter, the leaves and the branch fit, in every reachable state: the branch
\* stores the last complete node of each height where the counter has a bit (_addLeaf).
THEOREM TreeInvariant == TreeSpec => []TreeInv
<1> QED BY TreeInitInv, TreeStep, PTL DEF TreeSpec

\* For every depth, every list of leaves and every number of rollups: getRoot and
\* getRollupExitRoot are roots of the complete tree, and verifyMerkleProof accepts the
\* proof of an index for the leaf that is there and for no other leaf.
THEOREM TreesAreExact == TreeSpec => []TreesMatchReference
<1>1. TreeInv => TreesMatchReference
  BY BranchGivesRoot, ProofsAgree, RollupRootAgrees DEF TreesMatchReference
<1> QED BY <1>1, TreeInvariant, PTL

=============================================================================
