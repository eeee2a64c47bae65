---------------------------- MODULE L1ExitRoots ----------------------------
(***************************************************************************)
(* The L1 side of the exit roots: the deposit tree of PolygonZkEVMBridgeV2 *)
(* (DepositContractV2) and PolygonZkEVMGlobalExitRootV2, which pairs its   *)
(* root with the rollup exit root and records every new pair as a leaf of  *)
(* the L1 info tree.                                                       *)
(*                                                                         *)
(* A Merkle root is the sequence of leaves it commits to: keccak256 is     *)
(* taken as injective, and DepositTree checks the tree algorithm itself.   *)
(* ZeroHash is bytes32(0), the value of an unset root.                     *)
(***************************************************************************)
EXTENDS Naturals, Sequences

CONSTANTS
    ExitLeaves,      \* leaves a bridge call can append to the deposit tree
    RollupExitRoots, \* roots the rollup manager can report
    MaxDeposits,     \* bound: leaves of the deposit tree (2^32 - 1 in the code)
    MaxL1InfoLeaves, \* bound: leaves of the L1 info tree (2^32 - 1 in the code)
    ZeroHash

ASSUME ExitAssumption ==
    /\ MaxDeposits \in Nat /\ MaxL1InfoLeaves \in Nat
    /\ ZeroHash \notin Seq(ExitLeaves) \ {<<>>} \* no deposit tree with leaves has the root 0

VARIABLES
    exitTree,                \* the bridge: leaves of its deposit tree
    lastUpdatedDepositCount, \* the bridge: DepositCount of the last published root
    bridgeEmergencyState,    \* the bridge: isEmergencyState
    lastMainnetExitRoot,     \* the exit root manager's storage
    lastRollupExitRoot,
    globalExitRootMap,       \* the pairs with a non-zero block hash
    l1InfoTree,              \* leaves of the L1 info tree
    l1InfoRootMap            \* leaf count |-> L1 info root, for the counts that have one

bridgeVars == <<exitTree, lastUpdatedDepositCount, bridgeEmergencyState>>
gerVars == <<lastMainnetExitRoot, lastRollupExitRoot, globalExitRootMap,
             l1InfoTree, l1InfoRootMap>>
exitVars == <<exitTree, lastUpdatedDepositCount, bridgeEmergencyState,
              lastMainnetExitRoot, lastRollupExitRoot, globalExitRootMap,
              l1InfoTree, l1InfoRootMap>>

MainnetExitRoots == Seq(ExitLeaves) \cup {ZeroHash}
GlobalExitRoots == [mainnet : MainnetExitRoots,
                    rollup  : RollupExitRoots \cup {ZeroHash}]

DepositCount == Len(exitTree)

\* GlobalExitRootLib.calculateGlobalExitRoot.
GlobalExitRoot(mainnet, rollup) == [mainnet |-> mainnet, rollup |-> rollup]

GetLastGlobalExitRoot == GlobalExitRoot(lastMainnetExitRoot, lastRollupExitRoot)

(***************************************************************************)
(* initialize() of the exit root manager records the root of the empty     *)
(* L1 info tree under leaf count 0.                                        *)
(***************************************************************************)
ExitInit ==
    /\ exitTree = <<>>
    /\ lastUpdatedDepositCount = 0
    /\ bridgeEmergencyState = FALSE
    /\ lastMainnetExitRoot = ZeroHash
    /\ lastRollupExitRoot = ZeroHash
    /\ globalExitRootMap = {}
    /\ l1InfoTree = <<>>
    /\ l1InfoRootMap = [n \in {0} |-> <<>>]

-----------------------------------------------------------------------------
\* Seeded bug: the root is stored under the leaf count before the addition.
RecordRootUnderOldCount ==
    l1InfoRootMap' = [n \in DOMAIN l1InfoRootMap \cup {Len(l1InfoTree)} |->
                         IF n = Len(l1InfoTree) THEN l1InfoTree' ELSE l1InfoRootMap[n]]

RecordL1InfoRoot ==
    l1InfoRootMap' = [n \in DOMAIN l1InfoRootMap \cup {Len(l1InfoTree')} |->
                         IF n = Len(l1InfoTree') THEN l1InfoTree' ELSE l1InfoRootMap[n]]

(***************************************************************************)
(* updateExitRoot, once the caller has replaced its root of the pair: a    *)
(* pair that was already recorded leaves the L1 info tree as it is.        *)
(***************************************************************************)
RecordGlobalExitRoot(ger) ==
    \/ /\ ger \in globalExitRootMap
       /\ UNCHANGED <<globalExitRootMap, l1InfoTree, l1InfoRootMap>>
    \/ /\ ger \notin globalExitRootMap
       /\ Len(l1InfoTree) < MaxL1InfoLeaves
       /\ globalExitRootMap' = globalExitRootMap \cup {ger}
       /\ l1InfoTree' = Append(l1InfoTree, ger)
       /\ RecordL1InfoRoot

UpdateMainnetExitRoot(root) ==
    /\ lastMainnetExitRoot' = root
    /\ RecordGlobalExitRoot(GlobalExitRoot(root, lastRollupExitRoot))
    /\ UNCHANGED lastRollupExitRoot

UpdateRollupExitRoot(root) ==
    /\ lastRollupExitRoot' = root
    /\ RecordGlobalExitRoot(GlobalExitRoot(lastMainnetExitRoot, root))
    /\ UNCHANGED lastMainnetExitRoot

-----------------------------------------------------------------------------
\* _updateGlobalExitRoot of the bridge.
PublishMainnetExitRoot ==
    /\ lastUpdatedDepositCount' = Len(exitTree')
    /\ UpdateMainnetExitRoot(exitTree')

(***************************************************************************)
(* bridgeAsset, bridgeMessage and bridgeMessageWETH append one leaf and    *)
(* publish the new root when the caller asks for it.                       *)
(***************************************************************************)
AddExit(leaf, forceUpdateGlobalExitRoot) ==
    /\ DepositCount < MaxDeposits
    /\ exitTree' = Append(exitTree, leaf)
    /\ \/ forceUpdateGlobalExitRoot /\ PublishMainnetExitRoot
       \/ ~forceUpdateGlobalExitRoot /\ UNCHANGED <<lastUpdatedDepositCount, gerVars>>
    /\ UNCHANGED bridgeEmergencyState

BridgeExit(leaf, forceUpdateGlobalExitRoot) ==
    /\ ~bridgeEmergencyState
    /\ AddExit(leaf, forceUpdateGlobalExitRoot)

\* Seeded bug: publication stops while the bridge is in emergency state.
UpdateUnlessEmergency ==
    /\ ~bridgeEmergencyState
    /\ lastUpdatedDepositCount < DepositCount
    /\ UNCHANGED <<exitTree, bridgeEmergencyState>>
    /\ PublishMainnetExitRoot

\* updateGlobalExitRoot(): a call with nothing new to publish changes nothing.
UpdateGlobalExitRoot ==
    /\ UNCHANGED <<exitTree, bridgeEmergencyState>>
    /\ \/ lastUpdatedDepositCount < DepositCount /\ PublishMainnetExitRoot
       \/ /\ lastUpdatedDepositCount >= DepositCount
          /\ UNCHANGED <<lastUpdatedDepositCount, gerVars>>

\* The rollup manager reports a new rollup exit root after a verification.
ReportRollupExitRoot(root) ==
    /\ UpdateRollupExitRoot(root)
    /\ UNCHANGED bridgeVars

\* Seeded bug: the call to the bridge is lost.
BridgeNotTold == ~bridgeEmergencyState /\ UNCHANGED bridgeEmergencyState

\* The bridge's emergency state: only the rollup manager can call these two.
ActivateBridgeEmergency ==
    /\ ~bridgeEmergencyState
    /\ bridgeEmergencyState' = TRUE

DeactivateBridgeEmergency ==
    /\ bridgeEmergencyState
    /\ bridgeEmergencyState' = FALSE

SetBridgeEmergency ==
    /\ ActivateBridgeEmergency \/ DeactivateBridgeEmergency
    /\ UNCHANGED <<exitTree, lastUpdatedDepositCount, gerVars>>

BridgeStep ==
    \/ \E leaf \in ExitLeaves, force \in BOOLEAN : BridgeExit(leaf, force)
    \/ UpdateGlobalExitRoot

ExitNext ==
    \/ BridgeStep
    \/ \E root \in RollupExitRoots : ReportRollupExitRoot(root)
    \/ SetBridgeEmergency

ExitSpec == ExitInit /\ [][ExitNext]_exitVars

(***************************************************************************)
(* updateGlobalExitRoot is open to everyone and every sequenceBatches      *)
(* calls it first, so a root that could be published does not stay         *)
(* unpublished for ever.                                                   *)
(***************************************************************************)
FairExitSpec == ExitSpec /\ WF_exitVars(UpdateGlobalExitRoot)

-----------------------------------------------------------------------------
\* Every variable holds a value of its Solidity type.
ExitTypeOK ==
    /\ exitTree \in Seq(ExitLeaves)
    /\ lastUpdatedDepositCount \in 0..MaxDeposits
    /\ bridgeEmergencyState \in BOOLEAN
    /\ lastMainnetExitRoot \in MainnetExitRoots
    /\ lastRollupExitRoot \in RollupExitRoots \cup {ZeroHash}
    /\ globalExitRootMap \subseteq GlobalExitRoots
    /\ l1InfoTree \in Seq(GlobalExitRoots)
    /\ l1InfoRootMap \in [0..Len(l1InfoTree) -> Seq(GlobalExitRoots)]

(***************************************************************************)
(* Every L1 info root the manager ever handed out is the root of the tree  *)
(* at that leaf count, and the recorded pairs are the leaves, each once: a *)
(* sequence or a pessimistic proof anchored on an old leaf count stays     *)
(* valid whatever is published after it (updateExitRoot).                  *)
(***************************************************************************)
L1InfoHistory ==
    /\ \A n \in DOMAIN l1InfoRootMap : l1InfoRootMap[n] = SubSeq(l1InfoTree, 1, n)
    /\ globalExitRootMap = {l1InfoTree[i] : i \in 1..Len(l1InfoTree)}
    /\ \A i, j \in 1..Len(l1InfoTree) : l1InfoTree[i] = l1InfoTree[j] => i = j

(***************************************************************************)
(* The cached lastUpdatedDepositCount really is the number of deposits the *)
(* manager's mainnet exit root covers, and the pair in force is claimable  *)
(* (_updateGlobalExitRoot, getLastGlobalExitRoot).                         *)
(***************************************************************************)
PublishedRootIsCurrent ==
    /\ lastUpdatedDepositCount > 0 =>
          lastMainnetExitRoot = SubSeq(exitTree, 1, lastUpdatedDepositCount)
    /\ lastUpdatedDepositCount = 0 => lastMainnetExitRoot = ZeroHash
    /\ l1InfoTree # <<>> => GetLastGlobalExitRoot \in globalExitRootMap

(***************************************************************************)
(* A deposit covered by one leaf of the L1 info tree is covered, at the    *)
(* same index, by every later leaf: a claim proof built against an old     *)
(* global exit root can always be rebuilt against a newer one.             *)
(***************************************************************************)
MainnetRootsNested ==
    \A i, j \in 1..Len(l1InfoTree) :
        (i < j /\ l1InfoTree[i].mainnet # ZeroHash) =>
            /\ l1InfoTree[j].mainnet # ZeroHash
            /\ SubSeq(l1InfoTree[j].mainnet, 1, Len(l1InfoTree[i].mainnet))
                   = l1InfoTree[i].mainnet

(***************************************************************************)
(* The three together: what the manager recorded, what the bridge believes *)
(* to be published and what can be proved later agree, in whatever order   *)
(* deposits, publications and rollup roots come (updateExitRoot,           *)
(* _updateGlobalExitRoot).                                                 *)
(***************************************************************************)
ExitRootsConsistent == L1InfoHistory /\ PublishedRootIsCurrent /\ MainnetRootsNested

(***************************************************************************)
(* Under FairExitSpec every deposit ends up in a recorded global exit root,    *)
(* forced or not, and also while the bridge is in emergency state          *)
(* (updateGlobalExitRoot has no emergency check).                          *)
(***************************************************************************)
DepositEventuallyPublished ==
    \A n \in 1..MaxDeposits :
        (DepositCount >= n) ~>
            \E ger \in globalExitRootMap :
                ger.mainnet # ZeroHash /\ Len(ger.mainnet) >= n
=============================================================================
