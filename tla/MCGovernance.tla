----------------------------- MODULE MCGovernance -----------------------------
(* The tools and the timelock, with the jobs of one system.                *)
EXTENDS Governance

Job(tool, type, at, value) ==
  [tool |-> tool, type |-> type, at |-> at, value |-> value,
   predecessor |-> NoOperation, salt |-> 0, delay |-> 1]

\* A system of before the gateway, and one of the release after it.
Before == [manager |-> Release("pessimistic", 3, "none"), bridge |-> Release("etrog", 1, "none"),
           exitRoots |-> Release("etrog", 0, "none"),
           sovereignBridge |-> Release("v10.1.0", 0, "none")]
WithGateway ==
  [manager |-> Release("v0.3.0", 4, "gateway"), bridge |-> Release("v3", 2, "none"),
   exitRoots |-> Release("v3", 0, "none"),
   sovereignBridge |-> Release("v10.1.0", 0, "none")]
MCReleases == {Before, WithGateway}

MCKinds == <<"StateTransition", "StateTransition", "Pessimistic", "ALGateway">>

MCGrants ==
  {<<"gatewayAdmin", Key>>, <<"freezeRoute", Multisig>>, <<"vkey", Timelock>>,
   <<"addRoute", Timelock>>, <<"freezeRoute", Timelock>>, <<"update", Timelock>>,
   <<"update", Key>>, <<"managerAdmin", Timelock>>}

NoDelay == [L1 |-> 1, L2 |-> 1]

UpgradeJobs ==
  { Job("upgradeV3", "Timelock", "all", "gateway"),
    [Job("upgradeV3", "Timelock", "all", "otherGateway") EXCEPT !.salt = 1],
    Job("upgradeRollupManager", "Timelock", "all", FALSE),
    Job("upgradeRollupManager", "Timelock", "all", TRUE),
    [Job("upgradeSovereignBridge", "Timelock", "all", "v10.1.2") EXCEPT !.delay = 0],
    [Job("changeDelayTimelock", "Timelock", "L1", 2) EXCEPT !.delay = 0] }

\* Only after the batch of the first job of RollupJobs.
Batch == Operation("L1", UpdateRollups(<<"r1", "r2">>, 2).parts[1], NoOperation, 0)

RollupJobs ==
  { Job("updateRollup", "Timelock", <<"r1", "r2">>, 2),
    Job("updateRollup", "EOA", <<"r1", "r2">>, 2),
    Job("updateRollup", "EOA", <<"r2">>, 4),
    Job("initMigration", "Timelock", "r1", 3),
    [Job("initMigration", "Timelock", "r2", 3) EXCEPT !.predecessor = {Batch}],
    Job("grantRole", "Timelock", "update", Multisig) }

GatewayJobs ==
  { Job("addDefaultAggchainVKey", "EOA", "sel", 1),
    Job("updateDefaultAggchainVKey", "Timelock", "sel", 2),
    Job("unsetDefaultAggchainVKey", "EOA", "sel", 0),
    Job("addPessimisticVKeyRoute", "EOA", "sel", 0),
    Job("freezePessimisticVKeyRoute", "Multisig", "sel", 0) }

AggchainJobs ==
  { Job("transferAggchainManager", "EOA", "fep", 0),
    Job("transferAggchainManager", "Timelock", "fep", 0),
    Job("transferAggchainManager", "Multisig", "fep", 0),
    Job("transferOptimisticManager", "Multisig", "fep", 0),
    Job("changeOptimisticMode", "EOA", "fep", TRUE),
    Job("updateSubmissionInterval", "EOA", "fep", 1),
    Job("updateAggregationVkey", "Timelock", "fep", 1),
    Job("updateRangeVkeyCommitment", "EOA", "fep", 1),
    Job("updateRollupConfigHash", "EOA", "fep", 1) }

MCJobs == UpgradeJobs \cup RollupJobs \cup GatewayJobs \cup AggchainJobs

MCRoles == {AggchainManager, OptimisticModeManager}
===============================================================================
