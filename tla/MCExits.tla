------------------------------ MODULE MCExits ------------------------------
(***************************************************************************)
(* The exit roots of L1 and, in behaviours of its own, the tree algorithms *)
(* they are computed with: L1ExitRoots takes the root of a tree to be the  *)
(* list of its leaves, DepositTree, here with eight leaves, shows that the *)
(* algorithms of the contracts justify that.                               *)
(***************************************************************************)
EXTENDS L1ExitRoots, DepositTree

VARIABLE part \* of the two modules, which one moves

exitsVars == <<exitVars, treeVars, part>>

ExitsInit == ExitInit /\ TreeInit /\ part \in {"roots", "tree"}

RootsStep ==
    /\ part = "roots" /\ ExitNext
    /\ UNCHANGED <<treeVars, part>>

TreeStep ==
    /\ part = "tree" /\ TreeNext
    /\ UNCHANGED <<exitVars, part>>

FairExitsSpec ==
    /\ ExitsInit /\ [][RootsStep \/ TreeStep]_exitsVars
    /\ WF_exitVars(UpdateGlobalExitRoot)
=============================================================================
