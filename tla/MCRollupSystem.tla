--------------------------- MODULE MCRollupSystem ---------------------------
(***************************************************************************)
(* Small instances of RollupSystem.                                        *)
(***************************************************************************)
EXTENDS RollupSystem

CONSTANTS t1, t2

ReportedRoots == [1..MaxRollups -> LocalExitRoots]

EmptyList == <<>>
OnlyZero == {<<>>}

\* Two state transition types, to upgrade from one program to the other.
TwoPrograms == <<"StateTransition", "StateTransition">>
OneProgram == <<"StateTransition">>

\* Hashes and roots are lists, never empty.
BatchHashes == Seq(BatchData) \ {<<>>}
ExecutedRoots ==
    Seq([batch : BatchData \cup {Genesis}, program : 0..MaxTypes]) \ {<<>>}

(***************************************************************************)
(* The part of the instance that is explored: a history of two programs    *)
(* and two transactions at one fee, or two forced batches under changing   *)
(* fees with one program and one transaction; types stay in force.         *)
(***************************************************************************)
History ==
    /\ now <= 1 /\ batchFee = 1 /\ polBalance <= 3
    /\ \A r \in RollupIDs : lastForceBatch[r] <= 1 /\ rollupPol[r] <= ForcedFeeFactor

ForcedUnderFees ==
    \A r \in RollupIDs :
        /\ rollupTypeID[r] # 2
        /\ \A k \in DOMAIN lastAccInputHash[r] : lastAccInputHash[r][k].tx # t2
        /\ \A i \in ForcedIDs :
               forcedBatches[r][i] # NoForcedBatch => forcedBatches[r][i].tx # t2

HistoryOrForced ==
    /\ \A t \in TypeIDs : ~rollupTypeMap[t].obsolete
    /\ History \/ ForcedUnderFees
=============================================================================
