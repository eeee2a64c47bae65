-------------------------- MODULE MCRollupManager --------------------------
(***************************************************************************)
(* Small instances of RollupManager.  Chain ids, input hashes, state roots *)
(* and pessimistic roots are only compared, so they are symmetric.         *)
(***************************************************************************)
EXTENDS RollupManager, TLC

\* The rollup exit roots the manager can report.
ReportedRoots == [1..MaxRollups -> LocalExitRoots]

\* The rollup types at deployment; a run that allows more types adds any kind.
BatchTypes == <<"StateTransition">>
UpgradeTypes == <<"StateTransition", "Pessimistic">>

Symmetry == Permutations(ChainIDs) \cup Permutations(AccInputHashes)
                \cup Permutations(StateRoots) \cup Permutations(PessimisticRoots)
=============================================================================
