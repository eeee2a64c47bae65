---------------------------- MODULE DepositTree ----------------------------
(***************************************************************************)
(* The Merkle trees of the system: the append-only tree of                 *)
(* DepositContractBase, which keeps one branch and a counter only (the     *)
(* bridges' deposits, the L1 info tree), the proof check every claim goes  *)
(* through, and the tree of local exit roots PolygonRollupManager hashes   *)
(* from scratch in getRollupExitRoot.                                      *)
(*                                                                         *)
(* keccak256 of two nodes is the pair of them: injective, never bytes32(0).*)
(* leaves is a ghost: the leaves added so far, which the contract does not *)
(* store.                                                                  *)
(***************************************************************************)
EXTENDS Naturals, Sequences

CONSTANTS
    Depth,     \* _DEPOSIT_CONTRACT_TREE_DEPTH and _EXIT_TREE_DEPTH: 32
    Leaves,    \* leaf hashes, never bytes32(0)
    ExitRoots, \* local exit roots, bytes32(0) included
    MaxTreeRollups, \* bound: rollups
    EmptyLeaf  \* bytes32(0)

\* 2 to the power of a height, as a recursive function that proofs can unfold.
PowerOfTwo[height \in 0..Depth] ==
    IF height = 0 THEN 1 ELSE 2 * PowerOfTwo[height - 1]

ASSUME TreeAssumption ==
    /\ Depth \in Nat \ {0}
    /\ MaxTreeRollups \in Nat /\ MaxTreeRollups <= PowerOfTwo[Depth]
    /\ EmptyLeaf \notin Leaves /\ EmptyLeaf \in ExitRoots

VARIABLES branch, depositCount, leaves, localExitRoots

treeVars == <<branch, depositCount, leaves, localExitRoots>>

Heights == 0 .. Depth - 1
MaxDepositCount == PowerOfTwo[Depth] - 1

EfficientKeccak256(left, right) == <<left, right>>

ShiftRight(n, height) == n \div PowerOfTwo[height]

Bit(n, height) == ShiftRight(n, height) % 2

\* The root of an empty subtree of each height (currentZeroHashHeight).
ZeroHashes ==
    LET zero[h \in 0..Depth] ==
            IF h = 0 THEN EmptyLeaf ELSE EfficientKeccak256(zero[h - 1], zero[h - 1])
    IN  zero

-----------------------------------------------------------------------------
\* getRoot: from the branch, the counter and the zero hashes only.
GetRoot ==
    LET node[h \in 0..Depth] ==
            IF h = 0 THEN EmptyLeaf
            ELSE IF Bit(depositCount, h - 1) = 1
            THEN EfficientKeccak256(branch[h - 1], node[h - 1])
            ELSE EfficientKeccak256(node[h - 1], ZeroHashes[h - 1])
    IN  node[Depth]

\* The loop of _addLeaf returns at the lowest bit set in the new counter.
StoreHeight(height) ==
    /\ Bit(depositCount + 1, height) = 1
    /\ \A h \in 0 .. height - 1 : Bit(depositCount + 1, h) = 0

\* The node a new leaf completes at each height, from the stored siblings.
Carried(leaf) ==
    LET node[h \in Heights] ==
            IF h = 0 THEN leaf ELSE EfficientKeccak256(branch[h - 1], node[h - 1])
    IN  node

AddLeaf(leaf) ==
    /\ depositCount < MaxDepositCount
    /\ \E height \in Heights :
          /\ StoreHeight(height)
          /\ branch' = [branch EXCEPT ![height] = Carried(leaf)[height]]
    /\ depositCount' = depositCount + 1
    /\ leaves' = Append(leaves, leaf)
    /\ UNCHANGED localExitRoots

CalculateRoot(leaf, smtProof, index) ==
    LET node[h \in 0..Depth] ==
            IF h = 0 THEN leaf
            ELSE IF Bit(index, h - 1) = 1
            THEN EfficientKeccak256(smtProof[h - 1], node[h - 1])
            ELSE EfficientKeccak256(node[h - 1], smtProof[h - 1])
    IN  node[Depth]

VerifyMerkleProof(leaf, smtProof, index, root) ==
    CalculateRoot(leaf, smtProof, index) = root

-----------------------------------------------------------------------------
\* Seeded bug: an odd last node is hashed with itself.
LevelWithSelf(tree, zero) ==
    [i \in 1 .. (Len(tree) + 1) \div 2 |->
        EfficientKeccak256(tree[2 * i - 1],
                           IF 2 * i <= Len(tree) THEN tree[2 * i] ELSE tree[2 * i - 1])]

\* One level of getRollupExitRoot: an odd last node is hashed with the zero hash.
NextLevel(tree, zero) ==
    [i \in 1 .. (Len(tree) + 1) \div 2 |->
        EfficientKeccak256(tree[2 * i - 1],
                           IF 2 * i <= Len(tree) THEN tree[2 * i] ELSE zero)]

\* getRollupExitRoot: levels of shrinking width,
RollupLevels(roots) ==
    LET level[h \in 0..Depth] ==
            IF h = 0 THEN roots ELSE NextLevel(level[h - 1], ZeroHashes[h - 1])
    IN  level

\* up to the first one with a single node (currentNodes != 1),
SingleNode(roots, h) ==
    /\ Len(RollupLevels(roots)[h]) = 1
    /\ \A k \in 0 .. h - 1 : Len(RollupLevels(roots)[k]) # 1

\* then the remaining levels of the tree, where everything else is zero.
GetRollupExitRoot(roots) ==
    LET single == CHOOSE h \in 0..Depth : SingleNode(roots, h)
        root[h \in single..Depth] ==
            IF h = single THEN RollupLevels(roots)[h][1]
            ELSE EfficientKeccak256(root[h - 1], ZeroHashes[h - 1])
    IN  IF Len(roots) = 0 THEN EmptyLeaf ELSE root[Depth]

\* A rollup joins the manager, with the local exit root it may already have.
AddRollup(root) ==
    /\ Len(localExitRoots) < MaxTreeRollups
    /\ localExitRoots' = Append(localExitRoots, root)
    /\ UNCHANGED <<branch, depositCount, leaves>>

\* A verification replaces the local exit root of a rollup.
SetLocalExitRoot(r, root) ==
    /\ localExitRoots' = [localExitRoots EXCEPT ![r] = root]
    /\ UNCHANGED <<branch, depositCount, leaves>>

TreeInit ==
    /\ branch = [h \in Heights |-> EmptyLeaf]
    /\ depositCount = 0
    /\ leaves = <<>>
    /\ localExitRoots = <<>>

TreeNext ==
    \/ \E leaf \in Leaves : AddLeaf(leaf)
    \/ \E root \in ExitRoots : AddRollup(root)
    \/ \E r \in 1..Len(localExitRoots), root \in ExitRoots : SetLocalExitRoot(r, root)

TreeSpec == TreeInit /\ [][TreeNext]_treeVars

-----------------------------------------------------------------------------
\* The complete tree of 2^Depth leaves, the missing ones zero: each row by its
\* height, from the leaves to the root.
ReferenceTree(seq) ==
    LET row[h \in 0..Depth] ==
            [i \in 0 .. PowerOfTwo[Depth - h] - 1 |->
                IF h = 0
                THEN IF i < Len(seq) THEN seq[i + 1] ELSE EmptyLeaf
                ELSE EfficientKeccak256(row[h - 1][2 * i], row[h - 1][2 * i + 1])]
    IN  row

ReferenceRoot(seq) == ReferenceTree(seq)[Depth][0]

\* The siblings on the way from leaf index to the root.
MerkleProof(seq, index) ==
    [h \in Heights |->
        LET i == ShiftRight(index, h)
        IN  ReferenceTree(seq)[h][IF i % 2 = 0 THEN i + 1 ELSE i - 1]]

(***************************************************************************)
(* One branch and a counter are enough: after any number of insertions, up *)
(* to the full tree, getRoot is the root of the complete tree.             *)
(***************************************************************************)
RootIsReference == GetRoot = ReferenceRoot(leaves)

(***************************************************************************)
(* A claim proof checked against getRoot is accepted for the leaf at its   *)
(* index and for no other, and a position beyond the counter proves        *)
(* nothing but the zero leaf (verifyMerkleProof).                          *)
(***************************************************************************)
ProofsMatchLeaves ==
    \A index \in 0 .. MaxDepositCount, leaf \in Leaves \cup {EmptyLeaf} :
        VerifyMerkleProof(leaf, MerkleProof(leaves, index), index, GetRoot)
            <=> leaf = (IF index < depositCount THEN leaves[index + 1] ELSE EmptyLeaf)

(***************************************************************************)
(* Whatever the number of rollups, odd levels included, the rollup exit    *)
(* root is the root of the complete tree over their local exit roots, so   *)
(* the bridge's proofs of depth 32 apply to it (getRollupExitRoot).        *)
(***************************************************************************)
RollupRootIsReference ==
    localExitRoots # <<>> =>
        GetRollupExitRoot(localExitRoots) = ReferenceRoot(localExitRoots)

(***************************************************************************)
(* The three algorithms together: root of a branch, proofs of inclusion and*)
(* root over the rollups all mean the complete tree of the reference.      *)
(***************************************************************************)
TreesMatchReference == RootIsReference /\ ProofsMatchLeaves /\ RollupRootIsReference
=============================================================================
