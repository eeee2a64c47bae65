--------------------------- MODULE MCRollupCreation ---------------------------
(* The scripts that attach rollups, with a file of parameters per case.    *)
EXTENDS RollupCreation

Plan(tool, type, consensus, chain, gasToken) ==
  [tool |-> tool, type |-> type, consensus |-> consensus, chain |-> chain,
   owner |-> "deployer", gasToken |-> gasToken, selector |-> <<consensus>>,
   vanilla |-> consensus \in Aggchains, weth |-> Zero, notMintable |-> FALSE,
   remover |-> <<"remover">>, account |-> <<"alice">>, rollupTypeId |-> 1,
   rollupID |-> 1, timelockAdmin |-> <<"timelockAdmin">>]

\* The types that are there before.
MCTypes ==
  <<NewType("PolygonValidiumEtrog", <<"validium">>),
    NewType("AggchainECDSA", <<"ecdsa">>),
    NewType("PolygonPessimisticConsensus", <<"pessimistic">>)>>

\* 4_createRollup for an aggchain with a bridged gas token, for a validium,
\* and for an aggchain whose genesis is refused; createNewRollup by key for
\* each kind of type and by timelock; types added by key and by timelock;
\* an aggchain initialised by hand; a sovereign genesis.
MCPlans ==
  { Plan("createRollup", "EOA", "AggchainECDSA", "A", WrappedL1),
    Plan("createRollup", "EOA", "PolygonValidiumEtrog", "B", Zero),
    [Plan("createRollup", "EOA", "AggchainFEP", "C", TokenL1) EXCEPT !.remover = Zero],
    Plan("createNewRollup", "EOA", "PolygonValidiumEtrog", "C", NoToken),
    Plan("createNewRollup", "EOA", "PolygonValidiumEtrog", "D", TokenL1),
    [Plan("createNewRollup", "EOA", "PolygonPessimisticConsensus", "E", WrappedL1) EXCEPT
       !.rollupTypeId = 3, !.vanilla = TRUE, !.weth = <<"weth">>],
    [Plan("createNewRollup", "Timelock", "AggchainECDSA", "A", Zero) EXCEPT
       !.rollupTypeId = 2, !.owner = "other"],
    Plan("addRollupType", "EOA", "AggchainFEP", "A", Zero),
    Plan("addRollupType", "Timelock", "PolygonPessimisticConsensus", "A", Zero),
    Plan("initializeRollup", "EOA", "AggchainECDSA", "A", TokenL1),
    [Plan("createSovereignGenesis", "EOA", "AggchainECDSA", "A", WrappedL1) EXCEPT
       !.account = <<"deployer">>] }
===============================================================================
