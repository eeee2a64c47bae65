# A TLA+ model of the agglayer contracts

Specifications, model-checking instances and machine-checked proofs about the
Solidity contracts under `src/contracts/` and the TypeScript programs that deploy and
operate them (`src/deployment/`, `src/tools/`, `src/upgrade/`). All paths below are relative to the
repository. The specifications follow the code, not its documentation; where the
two disagree, the disagreement is a finding (see "Findings").

The project covers the settlement core on L1 (the rollup manager, the consensus
contract of state transition rollups, the exit roots, the Merkle tree algorithms),
the bridges of all networks together, the bridge of a sovereign chain, aggchains
with full execution proofs and their gateway, the two-step transfer of roles; and the
scripts: the deployment of the L1 contracts with its genesis, the creation of rollups
with theirs, and the tools and upgrades that go through keys, multisigs and the
timelock. The model covers about 37% of the lines of TypeScript that are not tests.

## 1. Inventory

### PolygonRollupManager (`v2/PolygonRollupManager.sol`)

*State.* Rollup types (verifier type, program, obsolete flag); rollups with type,
verifier type and chain id; per rollup the last sequenced batch, the last verified
batch, the last verified batch before an upgrade, a linked list of sequences
(`sequencedBatches`, each entry pointing at the end of the one before), state
roots of verified batches, the local exit root and the pessimistic root; two
totals of sequenced and verified batches; a migration flag per rollup; the
emergency flag with two timestamps; the batch fee and a balance of POL.

*Operations.* `addNewRollupType`, `obsoleteRollupType`, `attachAggchainToAL`,
`addExistingRollup`, `updateRollupByRollupAdmin`, `updateRollup`, `initMigration`,
`rollbackBatches`, `onSequenceBatches` (callback from a consensus contract),
`verifyBatchesTrustedAggregator`, `verifyPessimisticTrustedAggregator`,
`activateEmergencyState`, `deactivateEmergencyState`, `setBatchFee`,
`getRollupExitRoot`.

*Interactions.* A consensus contract calls `onSequenceBatches`; the manager calls
it back from `rollbackBatches` and after a verification. After a verification the
manager reports a new rollup exit root to the exit root manager. The emergency
calls go on to the bridge.

*Hard behaviours.* Long sequences of legal calls (sequence, roll back, sequence
again, verify, upgrade, migrate); totals and per-rollup counters written apart; a
reward that is a rounded share of a balance; two contracts that each keep a flag;
an upgrade while batches are pending.

*Correct when* the list of sequences stays one chain that covers what was
verified; what was verified never changes; the totals are the sums; the aggregator
can always settle the pending batches and be paid; a migration loses no exits; an
emergency closes both contracts.

### Consensus contracts of state transition rollups (`v2/lib/PolygonRollupBaseEtrog.sol`, `v2/lib/PolygonConsensusBase.sol`)

*State.* `lastAccInputHash`, the queue of forced batches with two counters, the
force-batch timeout, the POL held for the queue.

*Operations.* `initialize`, `sequenceBatches`, `forceBatch`,
`sequenceForceBatches`, `setForceBatchTimeout`, the callbacks `rollbackBatches`
and `onVerifyBatches`, and the setters of the roles.

*Hard behaviours.* The sequencer and anyone else sequence the same forced batches
in any order; the fee changes between forcing and sequencing; the manager keeps a
second copy of the last hash; a rollback takes sequenced batches off again.

*Correct when* the two contracts agree on one list of batches, state roots are the
execution of exactly that list, a forced batch is sequenced at most once and in
order, and the queue can always pay for itself.

`PolygonZkEVMEtrog` adds nothing to the base. `PolygonZkEVMExistentEtrog` adds an
initialisation that continues a hash of an older network. `PolygonValidiumEtrog`
sequences the same way with the signatures of a `PolygonDataCommittee`.
`PolygonPessimisticConsensus` keeps no state.

### Exit roots on L1 (`v2/PolygonZkEVMGlobalExitRootV2.sol`, `v2/PolygonZkEVMBridgeV2.sol`)

*State.* The bridge's deposit tree, the count of deposits last published and its
emergency flag; the exit root manager's two last roots, the set of recorded pairs,
the L1 info tree and the map from leaf counts to its roots.

*Operations.* `bridgeAsset`, `bridgeMessage`, `bridgeMessageWETH` (each with or
without publication), `updateGlobalExitRoot`, `updateExitRoot` (from the bridge or
from the manager), the emergency calls.

*Hard behaviours.* Two writers replace one half of a pair each; a pair can come
back; a cached count must agree with another contract's root.

*Correct when* roots handed out stay valid, a covered deposit stays covered, and
every deposit can become claimable.

### The bridges of all networks (`v2/PolygonZkEVMBridgeV2.sol`)

*State.* Per network: the deposit tree, the bitmap of claimed exits, the maps of
wrapped tokens, the coins and tokens in custody.

*Operations.* `bridgeAsset`, `bridgeMessage`, `bridgeMessageWETH`, `claimAsset`,
`claimMessage`, and the settlement of a rollup's exits through the manager.

*Interactions.* An exit on one network is a claim on another, once a global exit
root covers it. `claimAsset` calls the receiver of a coin under a lock,
`claimMessage` calls its receiver without one, `bridgeAsset` calls the token
between two readings of its balance.

*Hard behaviours.* Calls nested in calls; several networks that draw on one
custody; an index that mainnet and the first rollup share in the bitmap; networks
whose coin is not ether; tokens that keep a fee.

*Correct when* an exit is paid at most once and only when covered, no claim takes
the nullifier of another exit, every covered exit can be paid, and what one network
holds in custody is what the others have issued and owe.

### Merkle trees (`v2/lib/DepositContractBase.sol`, `getRollupExitRoot`)

One branch and a counter stand for a tree of 2^32 leaves; a proof check; a tree of
local exit roots hashed from scratch. *Correct when* each agrees with the complete
tree at every count, including odd widths and the full tree.

### Sovereign chains (`v2/sovereignChains/`)

*State.* `BridgeL2SovereignChain` adds to the bridge a local balance per foreign
token, hash chains of claims and of claims that were unset, a bridge manager who
replaces wrapped tokens (also by contracts the bridge cannot mint), and its own
emergency flag. `GlobalExitRootManagerL2SovereignChain` keeps a set of global exit
roots and hash chains of insertions and removals.

*Operations.* `insertGlobalExitRoot`, `removeGlobalExitRoots`,
`unsetMultipleClaims`, `setMultipleSovereignTokenAddress`,
`removeLegacySovereignTokenAddress`, `setSovereignWETHAddress`,
`deployWrappedTokenAndRemap`, `migrateLegacyToken`, the emergency calls, the roles,
and the operations of the bridge it overrides.

*Hard behaviours.* Claims against roots that turn out wrong, unset and made again;
several contracts that stand for one token at the same time; custody next to
minting; several entries in one call.

*Correct when* the hash chains tell the whole state, the local balance is what came
in less what left, whoever holds a contract that stands for a token can take it out,
and tokens that cannot be minted are conserved.

### Aggchains and gateway (`v2/lib/AggchainBase.sol`, `v2/aggchains/`, `v2/AggLayerGateway.sol`)

*State.* `AggchainFEP`: a list of outputs, the submission interval, the parameters
a proof commits to, the optimistic mode. `AggchainBase`: owned keys and a flag that
prefers the gateway's. `AggLayerGateway`: routes from selectors to verifiers, which
can be frozen, and default keys.

*Interactions.* To verify a pessimistic proof the rollup manager asks the chain for
a hash, the gateway for a verification, and calls the chain back to record the
output.

*Hard behaviours.* Checks and record are separate calls; a proof is made against
the state of one moment and submitted later; routes, keys, mode and interval change
in between.

*Correct when* the outputs are one chain of proofs in the past, a proof is used at
most once and only while it is about the chain as it is, and the routes still
account for past outputs.

### Roles

Nine roles in five contracts pass on in two steps, by copies of the same two
functions. *Correct when* a role passes only to whom its present holder named, and
the events tell who holds it.

### Deployment of the L1 contracts (`deployment/v2/1_createGenesis.ts`, `2_...`, `3_deployContracts.ts`, `deployment/helpers/`)

*State.* On the chain: the code at each address, the nonce of the deployer's key. On
disk: the parameters, the progress file `deploy_ongoing.json`, the output file, the
genesis, the OpenZeppelin manifest.

*Operations.* The steps of the scripts in their order; the process may die between any
two, a transaction may be mined although its answer is lost, the operator starts again,
deletes files, takes a new salt.

*Hard behaviours.* The contracts are wired to one another before they exist, through
addresses computed from a nonce that has to be counted right; create2 addresses survive
a run that died; each retry of `deployProxy` spends a nonce.

*Correct when* what the output announces is wired together, a run without trouble
passes its own checks, the key never administers a proxy, the genesis contains what it
names, and an operator who starts from scratch gets a deployment.

### Creation of rollups (`4_createRollup.ts`, `tools/createNewRollup`, `addRollupType`, `initializeRollup`, `createSovereignGenesis`, `utils/updateVanillaGenesis.ts`)

*State.* On the chain: rollup types, rollups, the gateway's selectors, the grants of
the key. Per script: what it has read so far (nonce, count of types). On disk: outputs
and genesis files, calls prepared for a multisig or a timelock.

*Hard behaviours.* Several scripts, timelocks and multisigs work on one manager;
values read before a transaction are used after others; attaching and initialising are
two transactions; the genesis is checked after the rollup is there.

*Correct when* a file names the rollup it is about, a genesis is complete and fits what
L1 has for the chain, and aggchains end up initialised.

### Governance (`tools/aggLayerGatewayTools`, `tools/aggchainFEPTools`, `updateRollup`, `initMigration`, `grantRole`, `changeDelayTimelock`, `upgrade/`, `PolygonZkEVMTimelock.sol`)

*State.* The releases of the upgradeable contracts with the versions of their
initializers, types of the rollups, gateway and chain settings, roles; the operations
of two timelocks, the calldata written for multisigs, the transactions a key has in
flight.

*Hard behaviours.* What a tool reads when it writes a call may have changed when the
call is made; operations are executed in any order; the timelock's delay is zero in an
emergency; one batch holds many calls; a key grants itself a role and does not wait.

*Correct when* what is scheduled outside an emergency waits for the minimum delay of that
moment, batches take effect whole, contracts of one release run together and are initialised once, and
roles pass by announcement.

### The rest

Role tables, wrapped tokens and proxies, the deployer and the calldata helpers, the
upgrade scripts of earlier releases and the tools that only read are listed in
`PROJECT.json` with the reason they are not modelled.

## 2. Modules

| module | models | role |
| --- | --- | --- |
| `DepositTree` | `DepositContractBase`, `getRollupExitRoot` | the tree algorithms against the complete tree |
| `L1ExitRoots` | bridge (outgoing side), exit root manager | component; a root is the list of leaves it commits to |
| `RollupSums` | - | sum over the rollups, as a recursive function |
| `RollupManager` | `PolygonRollupManager` | component; extends `L1ExitRoots` |
| `BatchChain` | - | what a state transition rollup promises: a list with a final prefix |
| `RollupSystem` | `PolygonRollupBaseEtrog` | composes manager and consensus contract; refines `BatchChain` |
| `TokenFlow` | - | what the bridges promise together: amounts are sent, are due, are paid |
| `BridgeSystem` | `PolygonZkEVMBridgeV2` on every network, plain transfers to it | composes bridges over `L1ExitRoots`; refines `TokenFlow` |
| `SovereignBridge` | the contracts of `v2/sovereignChains/` | component: one chain with roots that may be wrong |
| `AggchainFEP` | `AggchainFEP`, `AggchainBase`, `AggLayerGateway` | component, driven by the manager's verification |
| `TwoStepRole` | the two-step roles of five contracts | component: one record per role, with where the copies differ |
| `Deployment` | `1_createGenesis`, `2_deployPolygonZKEVMDeployer`, `3_deployContracts` | the deployment scripts, the chain and the disk |
| `VanillaGenesis` | `updateVanillaGenesis`, `create-sovereign-genesis` | a genesis and its change, as operators |
| `RollupCreation` | `4_createRollup`, `createNewRollup`, `addRollupType`, `initializeRollup` | scripts running at once against one manager; extends `VanillaGenesis` |
| `Governance` | the gateway, aggchain and governance tools, the upgrade scripts, the timelock | tools as the calls they make; extends `TwoStepRole` |
| `MC*` | - | small instances for TLC |
| `*Proofs` | - | the theorems, see section 5 |

### L1ExitRoots

`exitTree` is the list of leaves of the bridge's deposit tree;
`lastUpdatedDepositCount` is the bridge's cache. A mainnet exit root is the list
it commits to, which takes keccak256 as injective; `DepositTree` shows that the
contract's root is a function of that list and nothing else. The actions are
`BridgeExit` (the three bridge calls, with `forceUpdateGlobalExitRoot`),
`UpdateGlobalExitRoot`, `ReportRollupExitRoot` (the rollup manager's side of
`updateExitRoot`) and `SetBridgeEmergency`. `RecordGlobalExitRoot` is the common
part of `updateExitRoot`, with the early exit for a pair that is known.

### RollupManager

One action per external function. A call that reverts is not a step; the caller
holds the role the code asks for. The consensus contract is left open:
`ConsensusSequences` reports an arbitrary hash and an arbitrary payment, before or
after publishing the bridge's root. It is not *any* contract: what the manager calls
it for returns without calling the manager. That matters for `onVerifyBatches`
(`PolygonRollupManager.sol:1262`), which has no guard and is called when
`totalVerifiedBatches` is raised (1258) and the batch and state root of the rollup are
not yet stored (1169-1171), and likewise for `rollbackBatches` (1063) and
`upgradeToAndCall` (941). The contracts of the repository do not call back: their
`onVerifyBatches` only emits an event (`PolygonRollupBaseEtrog.sol:487-493`). Proofs are arbitrary as well: `VerifyBatches`
stores any state root, which is the worst a broken prover can do, and the
properties of this module hold all the same. Pessimistic, ECDSA and FEP consensus
contracts only take part through `VerifyPessimistic`; their `onVerifyPessimistic`
callback (1405) changes nothing in the manager.

`isRollupMigrating`, `lastVerifiedBatchBeforeUpgrade` and the checks on verifier
types are as in the code, including that `updateRollup` lets a rollup go to
`ALGateway` with batches pending. Those batches then stay in the difference of the
two totals for ever and lower the reward per batch of every other rollup, and a
rollup that goes this way needs no bootstrap certificate, unlike one that goes
through `initMigration`. `MigrationKeepsExits` follows the flag of such a rollup: no
upgrade, rollback or verification takes it away, and the proof that does reproduces the
local exit root.

The genesis of a state transition rollup is taken to be non-zero: the code does
not check it, but a rollup without one could never be verified.

### RollupSystem

Adds `PolygonRollupBaseEtrog` to the manager. An accumulated input hash is the list
of batches it commits to, a state root the list of executed batches, each with the
program that proved it. Proofs are sound here: a proof leads from one stored root
to the execution of exactly the batches between two accumulated hashes. The call
of `sequenceBatches` is one step: publication of the bridge's root, the queue, the
payment and `onSequenceBatches`. Rollups that join through `addExistingRollup` are
not in this module, because their contract was initialised elsewhere;
`forceBatchAddress` and the other roles are not modelled.

### DepositTree

`AddLeaf` and `GetRoot` follow `_addLeaf` and `getRoot` node by node; a hash of two
nodes is the pair of them. `leaves` is a ghost variable. The loops over heights are
recursive functions, and so is the power of two that shifts are divisions by, as the
provers do not know `^`. TLC takes a tree of eight leaves, the theorems any depth.

### BridgeSystem

Extends `L1ExitRoots`: the exits of mainnet are its `exitTree`, a rollup's are in
`localExitTree`. The rollup exit root is the tuple of the lists of exits settled for
each rollup; `SettleLocalExitRoot` is the manager's report of a longer one.
`RollupManager` and its theorems take those local exit roots as arbitrary;
here each is a prefix of the rollup's exits, as a sound proof guarantees.

`calls` is the stack of calls that have not returned. A network's calls nest; other
networks do not move meanwhile, as they only see committed state. `claimMessage` pushes a call
without a lock, `claimAsset` one with the lock when a receiver is called, and
`bridgeAsset` with a token of the network is two steps, `BeginBridgeAsset` and
`EndBridgeAsset`, with the balance read in the first. `TransferToBridge` is a plain
transfer of a token of the network to its bridge, at any moment: between the two steps it
becomes part of the exit, otherwise nothing stands for it. Plain transfers of coins or of
wrapped tokens are not modelled: no balance of theirs is ever measured, so to give them to
the bridge is to hold and never spend them. A transaction that reverts as
a whole is no behaviour of the model, and a receiver that reverts makes the claim
revert. Claims may name any recorded pair of roots, and also the pair of the trees as
they stand.

Each network keeps a token in one of three ways: as its coin, as its own, or
wrapped. Deploying the wrapper of a token has no effect here beyond minting. A
rollup's bridge starts with the coins its network can ever pay out (`Prefund`), as
the genesis of these networks does.

`paid` is a ghost that counts payments of each exit, `given` one of what a bridge was
sent by plain transfers and no exit took with it.

### SovereignBridge

A root is the list of exits to this chain under it, of each source, and the updater
may insert any root of a given set, including one with an exit that never happened.
Hash chains are the lists they commit to. `EachIsKnown` stands for the loop of
`removeGlobalExitRoots`, where a root named twice is not found the second time, and
`UnsetMultipleClaims` likewise; `UnsetIndexes` has the indexes that a claim would
refuse. A contract is an address; `held` and `custody` are its balances of the users
and of the bridge. A bridge manager is assumed to tell the truth about whether a
contract can be minted and not to use one contract for two tokens.
`servedToken` is a ghost: the token a contract was ever mapped to.

A contract that the bridge cannot mint, or that was not mapped yet, can leave the chain as
a token of its own and come back as one. `HoldersCanExit` keeps that traffic out: for
every contract that ever stood for a token it takes what users hold, adds what left as the
chain's own token and subtracts what came back as such and what was there before, false
exits included; the sum over these contracts is exactly the token's local balance.

### AggchainFEP

A hash is the tuple of what is hashed, so that two hashes are equal only for equal
data. `Prove` adds a proof about any data, valid for the chain as it is; it may stay
in `proofs` while everything changes. `VerifyPessimistic` is the manager's whole
transaction: `AcceptsData` has the checks of `getAggchainHash`, `Verifies` those of
the gateway, `OnVerifyPessimistic` the callback. Block numbers are taken below the
`uint128` they are stored in, and the L1 info root, which the public values
also contain, is left to `RollupManager`. Zero-address and zero-selector checks
of the gateway hold by the choice of the constants. The type of a selector is its
last half, as in `getAggchainTypeFromSelector` (`AggchainBase.sol:409`); the comments
at `AggchainFEP.sol:54` and `AggLayerGateway.sol:307` say the first.

### TwoStepRole

`Role(name, refusesZero, clears, event)` says in which respects the copies differ;
the transitions are common. `namedUnder` and `announced` are ghosts.

### Deployment

`code` maps an address to a record of the contract at it, `nonce` is the key's,
`files` the disk, `run` the script with its locals. An address is `Create(n)` or
`Create2(what, salt)`; a step of the script is an action with the transaction and the
file it writes. `ForeignTransaction` is another use of the key, `AttemptFails` an attempt
of `deployProxy` that fails with or without having been mined, `Crash` forgets the
locals. The script saves its progress for every contract but the timelock, and only
takes exit root manager and rollup manager from that file together with a timelock: that
branch (`3_deployContracts.ts:235-242`) is never reached, and a run that continues an
interrupted one deploys both anew. The bridge (by create2) and the gateway it does reuse.
`Test` is the parameter `test` of the deployment, which makes the key the default admin of
gateway and manager in place of the timelock (`FinalTimelockAddress`, line 406).

### VanillaGenesis and RollupCreation

A genesis is a record with one entry for each part (bridge proxy, its implementation, ...):
contract, address, the addresses in the code, and slots; an entry may be `Absent`, which
`Parts` leaves out. `UpdateVanillaGenesis` composes the steps of the function of that name;
`Refused` is the result where it throws. In `RollupCreation` a plan is a parameter file and
a script the sequence of its calls (`Script`); `step` is the place of the call that comes
next, `NextStep` skips those a plan does not make, and `Step(p)` does that call.
`rollupCount` is a `uint32`: `MaxRollups` is its largest value, and `attachAggchainToAL`
reverts there. `prepared` has the calls that were
written for a timelock or a multisig, which anybody `Execute`s later; `role` follows the
grants that are sent and not awaited.

### Governance

`Jobs` are the parameter files. `ToolOf` says which calls a tool makes and who sends
them. `Write` is a tool that writes a file, `Begin`, `CheckRight` and `SendNext` one that
sends with a key. `Transact` has the all-or-nothing of a transaction; `Allows` has the
conditions under which each contract accepts a call. The timelock's operations are those of
OpenZeppelin's contract with the delay of `PolygonZkEVMTimelock.getMinDelay`; cancelling
is left out. The upgrade of the manager alone takes the gateway the manager has, and when
its file says `test` the exit root manager in its place
(`upgrade-rollupManager-v0.3.1.ts:61-64`); both files are among the jobs. `Turn` lets the rest of the system move: an emergency begins or ends, a
rollup sequences or verifies.

## 3. Runs

| run | instance | question |
| --- | --- | --- |
| `exit_roots` | 3 deposits, 2 rollup roots; in behaviours of their own, trees of depth 3 and up to 5 rollups | is the recorded history right, does every deposit get published, do the tree algorithms agree with the complete tree up to the full one (7 leaves) and for every odd width? |
| `manager_ledger` | 2 rollups, 3 batches, POL up to 2 | totals, chain of sequences, state roots, rewards, finality |
| `manager_lifecycle` | 1 rollup, up to 3 types, 2 batches, 2 ticks, 1 deposit | upgrades of every kind, migration, emergency; is every sequenced batch settled? |
| `system_batches` | 1 rollup, 3 batches; either 2 programs, 2 transactions and 1 forced batch, or 2 forced batches, 2 fees and 2 ticks | one list of batches, executed once; the queue of forced batches and its POL; refinement of `BatchChain` |
| `rollback_loses_forced` | 1 rollup, 3 batches, 2 forced batches | expected to fail: see "Findings" |
| `bridge_networks` | mainnet and rollups, 3 exits; either 2 rollups, one with its own coin, or 1 rollup, a token with a fee and calls nested 2 deep, or 1 rollup and plain transfers to mainnet's bridge before and within calls | nullifiers, payable exits, custody in the middle of calls, refinement of `TokenFlow` |
| `sovereign_chain` | 2 foreign tokens, ether the coin or not; either 2 sources, a good and a false root, 3 insertions and 3 claims, or a proxy for each token and 2 other contracts, one not mintable, which also leaves and returns as a token of this chain, one wrapped ether, and nothing unset | hash chains and local balances; remapping, migration, removal |
| `fep_chain` | 3 outputs; either 3 intervals (one zero), 4 times and 1 key, or 2 selectors, 2 pessimistic keys and 1 output to be proved | one chain of outputs, in the past; current proofs; routes |
| `deployment` | a test deployment (as in `deploy_parameters.json.example`), 4 salts, 2 attempts, 2 troubles (a crash, a lost answer, a failed attempt, a foreign transaction), 1 start without cleaning up | does what is announced fit, does a deployment come out in the end? |
| `rollup_creation` | 3 types, 11 parameter files of all four scripts, 2 of them running at once, 1 crash | files, genesis, initialisation |
| `creation_gas_token` | as `rollup_creation` | expected to fail: see "Findings" |
| `governance` | 26 parameter files of 19 tools, any 2 of them, from each of 2 releases; 2 turns of emergency, sequencing or verification | waiting, whole batches, releases, roles |

*Either, or.* Four runs explore the union of two or three parts of their instance, each
small in what another is large in: the `CONSTRAINT` of the configuration, written out
beside the instance in its `MC` module, says which states belong to it. Every property
of such a run is checked in all of them. It has safety properties only, which a
constraint cannot make true vacuously; the runs that check liveness have none.

*Why the bounds are enough.* Three batches give two sequences of different length
after the initial one, hence a chain with a middle to lose; two rollups give totals
that differ from either counter and a reward shared between them. Three types give
an upgrade within a verifier type and one across. A depth of 3 has every pattern
of set bits a counter of 3 bits can have and every parity a level can have; the
algorithms treat all heights alike. Two forced batches at two fees are the fewest
whose average differs from both. Two rollups besides mainnet are the fewest with
which the shared index of rollup 1 can collide with that of another network; two
nested calls are the fewest in which a claim runs inside a claim or a transfer. Three
claims let one be unset and made again next to another. Two replacement contracts and
a proxy give a token three contracts at a time, one of which is not mintable. Three
outputs give a chain whose middle was recorded under another interval. Two troubles
are the fewest with which a run meets the leftovers of a run that itself met a lost
answer; four salts let each of them spoil one and leave one to succeed with. Two scripts at
once are the fewest that can disturb each other, and two jobs the fewest whose
operations can be executed in the wrong order (one job may be written twice, and a
batch names two rollups). The run of `governance` follows two kinds of roles, whose
copies differ; `RolesHandedOver` covers all. `fep_chain` has one exit root, aggchain key,
sequencer and configuration hash, so proofs are made stale there by the outputs, the
interval, the mode, the routes and the pessimistic keys only; `ProofsAreCurrent` is about
any number of each. `OutputsAreWired` likewise is about deployments that are no test. The
theorems of section 5 remove the bounds for
the manager alone and with its consensus contract, the exit roots, the bridges of all
networks, a sovereign chain, the outputs of an aggchain, the roles, governance, the
deployment and the creation of rollups.

`CHECK_DEADLOCK` stays on wherever the specification can always move: calls like
`updateGlobalExitRoot` never stop being possible. It is off for the scripts, which end.

*Symmetry.* Chain ids, input hashes, state roots and pessimistic roots are only
compared, so `manager_ledger` takes them as symmetric; the runs that check liveness
do not use symmetry.

*Bounds in guards.* `MaxRollups`, `MaxTypes`, `MaxBatch`, `MaxTime`, `MaxPOL`,
`MaxDeposits`, `MaxL1InfoLeaves`, `MaxForced`, `MaxSequence`, `MaxTreeRollups`,
`MaxExits`, `MaxCalls`, `MaxInserted`, `MaxClaims`, `MaxBlockNumber`, `MaxOutputs`,
`MaxProofs`, `MaxSalt`, `MaxTrouble`, `MaxStarts`, `MaxCrashes`, `MaxJobs` and
`MaxTurns` are the only limits the code does not have in this form.

## 4. Fairness

* `WF(UpdateGlobalExitRoot)` in `exit_roots`: the function is open to everyone, has
  no emergency check, and every `sequenceBatches` calls it first.
* `WF(VerifySome(r))` in `manager_lifecycle`: the trusted aggregator keeps proving
  each rollup that has batches left. Verification has no emergency check, so this
  does not depend on an emergency to end. What has to be shown is that the guard
  *stays* satisfiable through rollbacks, upgrades and emergencies.

* `deployment`: `WF(ScriptStep)`, a script that runs goes on; `WF(StartDeployer)` and
  `WF(StartFromScratch)`, an operator who has no deployment starts, erasing the ongoing
  file and the manifest and taking a salt not used before, as `deployment/v2/README.md`
  tells. Crashes, lost answers and other uses of the key are bounded in number
  and never fair. What has to be shown is that no leftover makes starting over fail.
* `rollup_creation`: `WF(Step(p))` for running scripts, `WF(MineGrant)`,
  `WF` of executing a prepared call that can be executed, and `WF(Repair)`: whoever manages
  an aggchain that was attached and never initialised runs `initializeRollup`. The property
  needs that the tool still accepts such a chain.

No other action is fair: users may stop sequencing, bridging or forcing, and operators
may leave a file unsent. The modules of the bridges, the aggchains, governance and the roles have no liveness properties:
`CoveredExitPayable` says instead that a payment stays possible in every state.

## 5. Proofs

| module | contents |
| --- | --- |
| `SumProofs` | sums over rollup ids (`SumTo`) and over finite sets (`SumFunctionOnSet` of the community modules): adding, removing, changing and splitting; disjoint blocks of numbers |
| `RollupProofs` | the inductive invariant of the exit roots and their invariants; the list of sequences as a data structure; the inductive invariant of the manager and its invariants; what a step of the manager may never do; the manager implements `L1ExitRoots`; then, with the consensus contract, the composed system implements the manager and `BatchChain`; one history, states executed once, the queue of forced batches, pending batches can be proved; and the trees behind the roots: the branch, the proof check and the root over the rollups mean the complete tree, for every depth, and the loop of `_addLeaf` always returns |
| `BridgeProofs` | the nullifiers of all networks: paid once, and no exit blocked by another; what the bridges hold: custody, payable exits; the bridges implement `TokenFlow` |
| `SovereignBridgeProofs` | token maps, hash chains, the local balance and the holdings of a sovereign chain |
| `AggchainFEPProofs` | the outputs of an aggchain, the proofs they were accepted with and the routes these went through |
| `GovernanceProofs` | how roles pass on; what the calls of a transaction do, tools, operations and delays of the timelocks; whole batches and releases that agree |
| `DeploymentProofs` | what each step of the deployment script knows of the chain and the disk; output files and geneses that are wired; clean runs that pass their own checks |
| `RollupCreationProofs` | what a run knows at each call of its script, for any number of scripts and rollups; files that name their rollup; geneses that can start their chain |

*Assumptions.* Only the named assumptions on constants, which TLC evaluates for every
instance:

* `TreeAssumption` (`DepositTree`): the depth is positive, zero is no leaf, and there are
  no more rollups than the tree has leaves (`2^32`; a rollup id is a `uint32`).
* `ExitAssumption`, `ManagerAssumption`, `BridgeAssumption`, `SystemAssumption`,
  `FEPAssumption`, `RoleAssumption`: bounds are natural numbers, zero is no input hash and
  no state root, no deposit tree with leaves has the root zero, the rollup exit root is the
  tuple of local exit roots; an aggchain's keys and configuration hashes are not zero.
* `ListsAssumption` (`RollupSystem`): the lists that stand for hashes and roots in the
  composed system are among the values that the manager takes from a contract.
* `SupplyAssumption` (`BridgeSystem`): the rollups are finitely many (a `uint32` counts
  them); a token is first held on its own network only, and a rollup's bridge starts
  with no less of its coin than there is of the token (its genesis gives it all the coins
  there can be).
* `SovereignAssumption` (`SovereignBridge`): tokens are finitely many; create2 gives each
  foreign token a proxy of its own; a pair of network and address is not an address; a
  contract that the manager declares is declared with what it is; mainnet, network 0, is
  one of the sources.

* `GovernanceAssumption` and `ReleaseAssumption` (`Governance`): delays are natural numbers,
  the senders are accounts, a parameter file names one of the tools, and `updateRollup` is
  given at least one rollup (it throws otherwise); what the proxies have at the start is a
  release as its own scripts leave it; a manager with a gateway comes with the bridge of
  release v3, unless it was upgraded for a test.

* `DeploymentAssumption` (`Deployment`): there is a salt and an attempt; the bounds are
  natural numbers.

* `CreationAssumption` (`RollupCreation`): the bounds are natural numbers; a parameter file is
  one of a tool, for a consensus contract the scripts support (they throw for any other); the
  types that were added before are of such contracts.

No other assumption is made on the number of rollups, batches, networks, tokens, forced batches,
roots or outputs, on what the consensus contract reports and pays, on the roots an updater
inserts or on the depth of nested calls.

*The trees.* `BranchOK` says what the contract relies on without storing it: where the
counter has a bit, the branch holds the last complete node of that height. A new leaf
carries through the low bits (`Carry`), the node it completes is built from the stored
ones (`CarriedNodes`), and what is stored above does not change as its leaves are all
there (`CompleteNodesStay`). `getRoot` then climbs along the nodes of the complete tree
(`BranchGivesRoot`), with zeros on its right (`ZerosBeyond`). A proof climbs along the same
nodes if it starts at the leaf of its index, and stays off them if it does not, as different
pairs have different hashes (`OnlyTheLeafClimbs`). The levels of `getRollupExitRoot` are
the occupied parts of the rows (`LevelNodes`). A recursive function over heights is a
`CHOOSE` to the provers: each has a lemma that it exists, and `Induction` is again a
least counterexample.

*The manager.* `IInv` strengthens the checked invariants in two ways. `Blank` says
that an entry without a hash has no link either: a rollback has to clear an entry
as a whole, or a later sequence that ends elsewhere could meet a stale link.
`Fresh` says that a slot not yet given to a rollup is empty, or a new rollup would
inherit a ledger. With these, `LedgerOK` describes one rollup's ledger as a chain
(`Chained`) and each operation is a lemma about one list: `SequenceKeepsLedger`
appends, `RollbackBatchesInvariant` truncates, and `WalkFindsEnds` shows that the
loop of `rollbackBatches`, which only follows links, deletes exactly the ends above
its target. The reward is covered because the share is rounded down
(`DivisionCovers`) and the pending batches of one rollup are at most the pending
batches of all (`SumToGap`).

*Steps.* The action properties follow from the same invariant. `EmergencyIsTight`
needs one more: the flags of manager and bridge are equal in every state.

*The exit roots.* That roots are nested is not inductive: the next leaf is cut from
the bridge's tree, so `PrefixesOK` says that every recorded mainnet root is a
non-empty prefix of that tree, no longer than the published count.

*Composition.* `ManagerImplementsExitRoots` shows that each transaction of the
manager is one step of `L1ExitRoots` or none, which carries the theorems about the
exit roots over to the manager.

`SystemImplementsManager` does the same one level up: a step of the real consensus
contract is a step of the manager, which takes any report and payment, so `IInv` and everything
proved of the manager hold of the composed system without another proof.

*The composed system.* `SystemInv` adds to `IInv`, rollup by rollup and over values
(`HistoryOK`, `StatesOK`, `ForcedInOrder`, `QueueOK`, `FundedOK`), so that what a call does to one rollup is a lemma
about lists. That states are the execution of the batches is not inductive: a batch that was
verified may be verified again from an older root, and would then be executed by another
program. `StatesOK` therefore says that above the mark of the last upgrade every batch
was proved by the program in force, and the refusal of roots below
`lastVerifiedBatchBeforeUpgrade` does the rest. The queue is in order because the
numbers of the forced batches in the list increase and stay at or below
`lastForceBatchSequenced`, also through a rollback, which only shortens the list. The
contract pays out, per forced batch, the rounded down average of what it holds, so what
is left still covers the lowest fee for every batch that waits (`FundedOK`). `PendingBatchesAreProvable` shows
that for every rollup with pending batches a sound proof exists and is accepted.
`SystemImplementsChain` maps the list of batches and the last verified batch to `BatchChain`.

*The bridges.* That an exit is paid at most once is not inductive. `NullifierOK`
says that the bits set on a network are exactly those of the exits paid there, and
`RootsOK` that every recorded root, and the last one of each kind, is a prefix of what
each network's tree is now. Then a proof against *any* recorded root leads to the exit
that has the index today (`ProvenLeafIsExit`), a claim pays an exit whose bit was
clear (`LeafClaimed`), and steps that claim nothing only add exits, whose bits are
clear because bits tell exits apart (`BitsTellExitsApart`: the blocks of different
networks are disjoint, and on mainnet the block of rollup 1 is that of network 0,
which has no exits to itself). Nothing in the argument depends on which calls
are open, which is why the missing lock of `claimMessage` does no harm.

*What the bridges hold.* `Books` balances, token by token, what its home's bridge holds
against what is held abroad and what is due, and bounds what is on a rollup whose coin it
is; it is inductive only together with `LockOK`: one open call at most holds the lock, and
while it is a `bridgeAsset` the bridge's balance of that token is at least the one it read,
whatever is called in between, and what it grew by was given by plain transfers
(`OpenTransferOK`).
Every step is one of three kinds, and the same three carry the refinement of `TokenFlow`: it
sends an amount once, with what was given meanwhile (`Sends`), pays an amount that is due less the token's fee
(`Pays`), or moves nothing (`MovesNothing`). An unpaid exit can be paid since what is due of its
token contains its amount (`ClaimsAreFunded`); on a rollup whose coin the token is, `Prefund` is what covers it.

*The sovereign chain.* The claim about holdings needs to know which contract stands for
what. `MapsOK`: a contract that is mapped serves the token it was ever mapped to, the
contract in force for a token is mapped back to it, a proxy serves its own token only, and
the bridge knows of every contract it uses whether it can be minted. `BalancesRepresented` is the equality of `HoldersCanExit` together with `OwnOnly`:
a contract that never stood for a token represents nothing, so it may be mapped later
without a jump. Every step is then one of three kinds: `Steady`; a `Shift` of one
contract together with the balance of its token (a claim or an exit); or an `Exchange`
between two contracts of one token (`migrateLegacyToken`). `HashChainsAccount` counts the
entries of each chain by value; a root or claim that is listed twice in one call is refused
(`EachIsKnown`), which is what makes the counts of a call 0 or 1.

*The outputs.* `Commits` says that a proof's public values determine what it is
about; with `RootsOfLast` and `BlocksGrow` the outputs form one chain. That no proof
is used twice follows because the block number, which a proof commits to, grows; this
needs a positive interval in every initialised contract (`LifecycleOK`). The routes
account for outputs as a route is added once and only ever frozen: the keys that a proof
was accepted with are those of its selector for good.

*The roles.* `RoleIInv`: a pending nomination was made by the present holder, or
names the present holder, which is what `acceptAdminRole` leaves behind.

*The tools and the timelocks.* A transaction is a fold over its calls; `TransactInOrder`
unfolds it, for any number of calls, into the states between them, so that each call was
accepted in the state the ones before it left (`TransactAccepted`). What a tool writes is
characterised per batch (`BatchFits`, one lemma per kind of tool): a batch of
`updateRollup` has one target, and an upgrade is one of the three batches of the scripts.
A rollup that a batch has moved stays at the target until the batch ends, so one that
was there before, or that is named twice, reverts it (`BatchTakesAll`). `EntryOK` adds up
what an operation has waited and still has to wait. That the gateway is kept needs to know
of operations written long ago: `GatewayFits` says that one that upgrades the manager alone
has the gateway the manager has *now*, or the exit root manager if it is for a test, since
`ReleasesFit` makes the other batch, which could change it, fail as soon as there is a
gateway.

*The deployment.* The script is one long chain of steps, so its invariant (`DepIInv`)
follows the step it is at. `RunOK` says which contracts are there when a step is reached and
what they point at; a check that failed would have ended the run, so what is checked
before is known after. `ChainOK` says what survives every run: nothing sits at a nonce that
was not used, what create2 placed is what its address promises, and each proxy
is under the proxy admin of a salt. That a clean run passes is a count: `CountsOK` says, for
every step, that the address computed for exit roots and manager is the nonce plus the
transactions left before their creation, and `ImplsOK` and `CleanOK` that no leftover spares the
run one of them. What an output and a genesis name rests on no two addresses being equal by accident
(`AddressesDiffer`), which takes create and create2 as injective.

*The creation of rollups.* The invariant (`CreationIInv`) again follows the call a run is at,
here of any number of runs that interleave: `RunOK` says what the locals owe the chain at
each call of the script, and from which call on (`TypeAt`, `NonceAt`, `AttachAt`,
`ExpectAt`). The scripts are data, so their order is reasoned about as such
(`CreationCalls`, `NextCallOfCreation`). What a run read stays true when others go on
because the chain only grows (`Grown`): no type and no rollup is removed and no rollup
changes its implementation. An address computed before the rollup is attached stays that of
the next rollup until another run attaches one, which is what `disturbed` records
(`AttachStep`). Chain ids are unique (`ChainsOK`), as `attachAggchainToAL` refuses one that
is taken. That a genesis is complete follows from the expects alone: `UpdatedFits` shows that
they let only a genesis through whose two proxies were both initialised, since a call that
reverts leaves a proxy without the slots they ask for, and `SovereignFits` that premint and
timelock keep it so. That it has the gas token of L1 needs to know what `createNewRollup`
attached (`AsPlanned`).

*Sums.* `SumTo` is a recursive function, `SumFunctionOnSet` a fold over a set. Induction
schemes with an operator parameter are not available to the provers, so the facts about
them are proved from the least counterexample (`LeastElement`) and the smallest set that
is one.

*Only model-checked.* Liveness (`EveryBatchSettles`, `DepositEventuallyPublished`,
`EventuallyDeployed`, `EventuallyInitialised`), which the provers do not reach. Every
invariant and every action property that a passing run checks is a theorem.

Type invariants are stated and proved for the modules that others extend (`TypeCorrect`,
`ExitTypeCorrect`); elsewhere they are a conjunct of the inductive invariant. Of the
invariants that the runs check, `LedgerIsSound`, `ExitRootsConsistent`, `ExitsPaidExactly`,
`OutputsAreHistory` and `HoldingsCovered` are conjunctions; most of their parts also have
theorems of their own.

## 6. Findings

`rollback_loses_forced`: `PolygonConsensusBase.sol:68` calls
`lastForceBatchSequenced` the "Last forced batch included in the sequence". The
callback `rollbackBatches` of `PolygonRollupBaseEtrog.sol:500` restores the hash
only. When the sequences rolled back contain a forced batch, the counter still
counts it and its entry was deleted, so the batch is neither in the sequence nor in
the queue. Its fee has already gone to the manager.

`creation_gas_token`: when the gas token on L1 is a wrapped one, `4_createRollup.ts:284`
replaces its address by the one of the token's origin and hands that to `initialize`
(lines 332, 345 and 377-383). The parameter is "the token address in mainnet that will be
used as a gas token" (`AggchainBase.sol:139`), and `createNewRollup.ts` passes the
address on mainnet.

Smaller disagreements, each met while modelling; the definitions named here are in the
modules and are violated when they are checked:

* `RemovedTokenStillWithdrawable` (`SovereignBridge`): the comment at
  `BridgeL2SovereignChain.sol:434` promises that users can still withdraw a legacy token
  after it was removed from the mapping. `removeLegacySovereignTokenAddress` deletes the
  entry of `wrappedTokenToTokenInfo` in which `bridgeAsset` and `migrateLegacyToken` look
  a token's origin up; until the manager maps it again it is bridged as a token of this
  chain.
* `AnnouncedIsHolder` (`TwoStepRole`): `acceptEmergencyBridgeUnpauserRole`
  (`BridgeL2SovereignChain.sol:747`) emits `AcceptEmergencyBridgePauserRole`.
* `NewSaltIsEnough` (`Deployment`): `deployment/v2/README.md:124-125` says that a new salt
  and deleting `.openzeppelin` are enough for a new deployment. With an ongoing file left
  by an earlier run, the gateway is taken from it and two transactions fewer are sent than
  the nonce of the manager was computed with: the run throws.

And, seen in the code and the scripts, without a definition:

* The comment above `bridgeAsset` (`PolygonZkEVMBridgeV2.sol:297-298`) says that with a
  reentrant token "it would be possible to `claimTokens` in the same call", reducing the
  bridge's supply and locking tokens. `bridgeAsset` (line 316) and `claimAsset` (568) are
  both `nonReentrant`, and `claimMessage`, which takes no lock, pays no token:
  `CustodyBacksSupply` holds in the middle of nested calls, so the comment describes what
  the code does not do.
* `upgrade/upgrade-rollupManager-v0.3.1/README.md:31` says that a fake gateway is set when
  `test` is false; the script (lines 61-64) sets it when `test` is true. Such a manager has
  a gateway that is none, and `UpgradesAgree` excepts it.

* With a gateway reused from an earlier run the output file has no
  `pessimisticVKeyRouteALGateway` (`3_deployContracts.ts:488-512`, 639).
* A script that is late writes, and acts on, another rollup's address: the model allows
  this in `OutputNamesItsRollup` only when another rollup was attached in between.
* Grants are sent and not awaited (`4_createRollup.ts:226`, the gateway tools): the
  first run of such a tool may be refused.
* `transferAggchainManager` by timelock also writes an `accept` by the timelock, which
  is not the new manager: the second operation can never be executed.
* `initializeRollup` by timelock addresses its operation to the rollup manager, not to
  the aggchain.
* With the default salt of zero an operation can be scheduled once; `changeDelayTimelock`
  run in an emergency writes the delay zero and can not be scheduled after it.
* `updateVanillaGenesis` refuses a zero remover of global exit roots
  (`updateVanillaGenesis.ts:554-571`); an account that is named twice for premint is counted
  twice.

## 7. Not modelled

Access control by role tables in the contracts (a caller has the role the code asks for);
the content of batches beyond a transaction and the forced flag (coinbases, timestamps,
block hashes); calldata encodings; what token contracts do beyond balances, fees and
calls; the initialisation of the pre-existing zkEVM network; signatures of the data
committee; what `AggchainECDSA` adds to its base.

Of the scripts: the bytes of a genesis (its Merkle root, the geth format), storage
layouts, verification on block explorers, names and URLs, gas settings. The upgrade
scripts of earlier releases call contracts this commit no longer has;
`createSovereignGenesisWithHardhat` and `deploySovereign` are written for an `initialize` with
fewer parameters than the sovereign bridge has. The reading and reporting tools and the
deployments of a single contract have no order to check.

## 8. Status and plan

Done: all modules of section 2 and the proofs of section 5. What would come next:

1. Liveness of forced batches in `RollupSystem`, under a fair forced sequencer and
   finitely many emergencies.
2. Validium sequencing with its committee; the initialisation of
   `PolygonZkEVMExistentEtrog` and a rollback of its first batch.
3. `AggchainFEP` composed with the pessimistic side of `RollupManager`, and
   `AggchainECDSA`.
