--------------------------- MODULE RollupManager ---------------------------
(***************************************************************************)
(* PolygonRollupManager: the registry of rollup types and rollups, the     *)
(* ledger of sequenced and verified batches, the rewards, upgrades,        *)
(* migrations, rollbacks and the emergency state.                          *)
(*                                                                         *)
(* The consensus contract of a rollup may report any accumulated input     *)
(* hash and make any payment (RollupSystem composes this module with the   *)
(* consensus the repository ships), but what the manager calls it for      *)
(* returns without calling the manager: onVerifyBatches, rollbackBatches,  *)
(* upgradeToAndCall and onVerifyPessimistic.  Proof verification is        *)
(* external: a proof may exist for any new root.  Callers hold the role    *)
(* the code asks for; a call that reverts is no step.                      *)
(***************************************************************************)
EXTENDS L1ExitRoots, RollupSums, FiniteSets

CONSTANTS
    MaxRollups, MaxTypes, MaxBatch, \* bounds: ids and batch numbers
    MaxTime, MaxPOL,                \* bounds: block.timestamp and POL supply
    InitialTypes,      \* verifier types of the rollup types added at deployment
    ChainIDs,          \* the chain ids below 2^32
    AccInputHashes,    \* non-zero hashes a consensus contract can report
    StateRoots,        \* non-zero state roots
    LocalExitRoots,    \* local exit roots a proof can bring, ZeroHash included
    PessimisticRoots,  \* pessimistic roots a proof can bring
    BatchFees,         \* fees within _MIN_BATCH_FEE.._MAX_BATCH_FEE
    HaltAggregationTimeout, \* _HALT_AGGREGATION_TIMEOUT
    EmptyTreeRoot      \* _EMPTY_TREE_ROOT

VerifierTypes == {"StateTransition", "Pessimistic", "ALGateway"}
RollupIDs == 1..MaxRollups
Batches == 0..MaxBatch
Times == 0..MaxTime

ASSUME ManagerAssumption ==
    /\ MaxRollups \in Nat /\ MaxTypes \in Nat /\ MaxBatch \in Nat
    /\ MaxTime \in Nat \ {0} /\ MaxPOL \in Nat
    /\ HaltAggregationTimeout \in Nat
    /\ InitialTypes \in Seq(VerifierTypes) /\ Len(InitialTypes) <= MaxTypes
    /\ BatchFees \subseteq Nat /\ BatchFees # {}
    /\ ZeroHash \notin AccInputHashes /\ ZeroHash \notin StateRoots
    /\ ZeroHash \in LocalExitRoots
    /\ ZeroHash # EmptyTreeRoot
    \* getRollupExitRoot commits to the local exit root of every rollup.
    /\ RollupExitRoots = [RollupIDs -> LocalExitRoots]

VARIABLES
    now,                \* block.timestamp
    \* The registry
    rollupTypeMap, rollupCount, chainIDToRollupID,
    rollupTypeID, rollupVerifierType, isRollupMigrating,
    \* The ledger of batches
    totalSequencedBatches, totalVerifiedBatches,
    lastBatchSequenced, lastVerifiedBatch, lastVerifiedBatchBeforeUpgrade,
    sequencedBatches, batchNumToStateRoot,
    \* The roots of each rollup
    lastLocalExitRoot, lastPessimisticRoot,
    \* The emergency state
    isEmergencyState, lastAggregationTimestamp,
    lastDeactivatedEmergencyStateTimestamp,
    \* POL
    batchFee, polBalance

registryVars == <<rollupTypeMap, rollupCount, chainIDToRollupID, rollupTypeID,
                  rollupVerifierType, isRollupMigrating>>
ledgerVars == <<totalSequencedBatches, totalVerifiedBatches, lastBatchSequenced,
                lastVerifiedBatch, lastVerifiedBatchBeforeUpgrade,
                sequencedBatches, batchNumToStateRoot>>
rootVars == <<lastLocalExitRoot, lastPessimisticRoot>>
emergencyVars == <<isEmergencyState, lastAggregationTimestamp,
                   lastDeactivatedEmergencyStateTimestamp>>
polVars == <<batchFee, polBalance>>
managerVars == <<now, registryVars, ledgerVars, rootVars, emergencyVars, polVars,
                 exitVars>>

\* The rollups that exist; verifier types of the slots beyond are the enum's 0.
Rollups == 1..rollupCount
TypeIDs == 1..Len(rollupTypeMap)
VerifierTypeOf(t) == rollupTypeMap[t].rollupVerifierType

SequencedBatch(acc, previous) ==
    [accInputHash |-> acc, previousLastBatchSequenced |-> previous]
NoSequencedBatch == SequencedBatch(ZeroHash, 0)
IsSequenced(r, b) == sequencedBatches[r][b].accInputHash # ZeroHash

Init ==
    /\ now = 1
    /\ rollupTypeMap = [t \in 1..Len(InitialTypes) |->
           [rollupVerifierType |-> InitialTypes[t], obsolete |-> FALSE]]
    /\ rollupCount = 0
    /\ chainIDToRollupID = [c \in ChainIDs |-> 0]
    /\ rollupTypeID = [r \in RollupIDs |-> 0]
    /\ rollupVerifierType = [r \in RollupIDs |-> "StateTransition"]
    /\ isRollupMigrating = [r \in RollupIDs |-> FALSE]
    /\ totalSequencedBatches = 0 /\ totalVerifiedBatches = 0
    /\ lastBatchSequenced = [r \in RollupIDs |-> 0]
    /\ lastVerifiedBatch = [r \in RollupIDs |-> 0]
    /\ lastVerifiedBatchBeforeUpgrade = [r \in RollupIDs |-> 0]
    /\ sequencedBatches = [r \in RollupIDs |-> [b \in Batches |-> NoSequencedBatch]]
    /\ batchNumToStateRoot = [r \in RollupIDs |-> [b \in Batches |-> ZeroHash]]
    /\ lastLocalExitRoot = [r \in RollupIDs |-> ZeroHash]
    /\ lastPessimisticRoot = [r \in RollupIDs |-> ZeroHash]
    /\ isEmergencyState = FALSE
    /\ lastAggregationTimestamp = 0
    /\ lastDeactivatedEmergencyStateTimestamp = 0
    /\ batchFee \in BatchFees
    /\ polBalance = 0
    /\ ExitInit

-----------------------------------------------------------------------------
(* Rollup types and rollups *)

AddNewRollupType(verifierType) ==
    /\ Len(rollupTypeMap) < MaxTypes
    /\ rollupTypeMap' = Append(rollupTypeMap,
           [rollupVerifierType |-> verifierType, obsolete |-> FALSE])
    /\ UNCHANGED <<now, rollupCount, chainIDToRollupID, rollupTypeID,
                   rollupVerifierType, isRollupMigrating, ledgerVars, rootVars,
                   emergencyVars, polVars, exitVars>>

ObsoleteRollupType(t) ==
    /\ ~rollupTypeMap[t].obsolete
    /\ rollupTypeMap' = [rollupTypeMap EXCEPT ![t].obsolete = TRUE]
    /\ UNCHANGED <<now, rollupCount, chainIDToRollupID, rollupTypeID,
                   rollupVerifierType, isRollupMigrating, ledgerVars, rootVars,
                   emergencyVars, polVars, exitVars>>

\* The id, the chain id nullifier and the type of a rollup that joins.
RegisterRollup(c, t, verifierType) ==
    /\ rollupCount < MaxRollups
    /\ chainIDToRollupID[c] = 0
    /\ rollupCount' = rollupCount + 1
    /\ chainIDToRollupID' = [chainIDToRollupID EXCEPT ![c] = rollupCount + 1]
    /\ rollupTypeID' = [rollupTypeID EXCEPT ![rollupCount + 1] = t]
    /\ rollupVerifierType' = [rollupVerifierType EXCEPT ![rollupCount + 1] = verifierType]
    /\ UNCHANGED <<rollupTypeMap, isRollupMigrating>>

\* The storage writes of onSequenceBatches.
RecordSequence(r, n, acc) ==
    LET last == lastBatchSequenced[r] + n IN
    /\ last <= MaxBatch
    /\ totalSequencedBatches' = totalSequencedBatches + n
    /\ lastBatchSequenced' = [lastBatchSequenced EXCEPT ![r] = last]
    /\ sequencedBatches' = [sequencedBatches EXCEPT
           ![r][last] = SequencedBatch(acc, lastBatchSequenced[r])]

(***************************************************************************)
(* attachAggchainToAL.  A state transition rollup takes the genesis of its *)
(* type and its initialize() calls onSequenceBatches back for batch 1; a   *)
(* pessimistic rollup or an aggchain starts with empty roots.              *)
(***************************************************************************)
AttachAggchainToAL(t, c, genesis, acc) ==
    /\ ~rollupTypeMap[t].obsolete
    /\ RegisterRollup(c, t, VerifierTypeOf(t))
    /\ \/ /\ VerifierTypeOf(t) = "StateTransition"
          /\ ~isEmergencyState
          /\ RecordSequence(rollupCount + 1, 1, acc)
          /\ batchNumToStateRoot' = [batchNumToStateRoot EXCEPT
                 ![rollupCount + 1][0] = genesis]
          /\ UNCHANGED <<totalVerifiedBatches, lastVerifiedBatch,
                         lastVerifiedBatchBeforeUpgrade>>
       \/ /\ VerifierTypeOf(t) # "StateTransition"
          /\ UNCHANGED ledgerVars
    /\ UNCHANGED <<now, rootVars, emergencyVars, polVars, exitVars>>

\* addExistingRollup: a contract that is already deployed joins with its roots.
AddExistingRollup(c, verifierType, genesis, exitRoot, pessimisticRoot) ==
    /\ RegisterRollup(c, 0, verifierType)
    /\ \/ /\ verifierType = "StateTransition"
          /\ batchNumToStateRoot' = [batchNumToStateRoot EXCEPT
                 ![rollupCount + 1][0] = genesis]
          /\ UNCHANGED rootVars
       \/ /\ verifierType # "StateTransition"
          /\ lastLocalExitRoot' = [lastLocalExitRoot EXCEPT
                 ![rollupCount + 1] = exitRoot]
          /\ lastPessimisticRoot' = [lastPessimisticRoot EXCEPT
                 ![rollupCount + 1] = pessimisticRoot]
          /\ UNCHANGED batchNumToStateRoot
    /\ UNCHANGED <<now, totalSequencedBatches, totalVerifiedBatches,
                   lastBatchSequenced, lastVerifiedBatch,
                   lastVerifiedBatchBeforeUpgrade, sequencedBatches,
                   emergencyVars, polVars, exitVars>>

-----------------------------------------------------------------------------
(* Upgrades and migration *)

\* _updateRollup, up to the entries of the registry each caller leaves alone.
SwitchType(r, t) ==
    /\ rollupTypeID[r] # t
    /\ ~rollupTypeMap[t].obsolete
    /\ rollupTypeID' = [rollupTypeID EXCEPT ![r] = t]
    /\ rollupVerifierType' = [rollupVerifierType EXCEPT ![r] = VerifierTypeOf(t)]
    /\ lastVerifiedBatchBeforeUpgrade' =
           [lastVerifiedBatchBeforeUpgrade EXCEPT ![r] = lastVerifiedBatch[r]]
    /\ UNCHANGED <<now, rollupTypeMap, rollupCount, chainIDToRollupID,
                   totalSequencedBatches, totalVerifiedBatches,
                   lastBatchSequenced, lastVerifiedBatch, sequencedBatches,
                   batchNumToStateRoot, rootVars, emergencyVars, polVars, exitVars>>

AllSequencedVerified(r) == lastBatchSequenced[r] = lastVerifiedBatch[r]

UpdateRollupByRollupAdmin(r, t) ==
    /\ AllSequencedVerified(r)
    /\ rollupTypeID[r] < t
    /\ rollupVerifierType[r] = VerifierTypeOf(t)
    /\ SwitchType(r, t)
    /\ UNCHANGED isRollupMigrating

\* Seeded bug: an upgrade ends the migration it comes in the middle of.
UpdateEndsMigration(r, t) ==
    /\ VerifierTypeOf(t) \in {"ALGateway", rollupVerifierType[r]}
    /\ SwitchType(r, t)
    /\ isRollupMigrating' = [isRollupMigrating EXCEPT ![r] = FALSE]

\* Seeded bug: the verifier types are not compared.
UpdateToAnyType(r, t) == SwitchType(r, t) /\ UNCHANGED isRollupMigrating

\* Only towards ALGateway may the verifier type change; nothing need be verified.
UpdateRollup(r, t) ==
    /\ VerifierTypeOf(t) \in {"ALGateway", rollupVerifierType[r]}
    /\ SwitchType(r, t)
    /\ UNCHANGED isRollupMigrating

\* Seeded bug: a migration may start with batches still to verify.
MigrateWithPending(r, t) ==
    /\ rollupVerifierType[r] = "StateTransition"
    /\ VerifierTypeOf(t) # "StateTransition"
    /\ isRollupMigrating' = [isRollupMigrating EXCEPT ![r] = TRUE]
    /\ SwitchType(r, t)

InitMigration(r, t) ==
    /\ rollupVerifierType[r] = "StateTransition"
    /\ AllSequencedVerified(r)
    /\ VerifierTypeOf(t) # "StateTransition"
    /\ isRollupMigrating' = [isRollupMigrating EXCEPT ![r] = TRUE]
    /\ SwitchType(r, t)

-----------------------------------------------------------------------------
(* Sequencing, rollback and verification of batches *)

\* onSequenceBatches, called by the consensus contract of rollup r.
OnSequenceBatches(r, n, acc) ==
    /\ ~isEmergencyState
    /\ n # 0
    /\ rollupVerifierType[r] = "StateTransition"
    /\ RecordSequence(r, n, acc)
    /\ UNCHANGED <<totalVerifiedBatches, lastVerifiedBatch,
                   lastVerifiedBatchBeforeUpgrade, batchNumToStateRoot>>

\* A consensus contract pays the manager and reports its new batches.
ReportBatches(r, n, acc, payment) ==
    /\ OnSequenceBatches(r, n, acc)
    /\ polBalance + payment <= MaxPOL
    /\ polBalance' = polBalance + payment
    /\ UNCHANGED <<now, registryVars, rootVars, emergencyVars, batchFee>>

\* The same transaction may first call the bridge's updateGlobalExitRoot.
ConsensusSequences(r, n, acc, payment) ==
    /\ ReportBatches(r, n, acc, payment)
    /\ UpdateGlobalExitRoot \/ UNCHANGED exitVars

RollbackTarget(r, target) ==
    /\ target < lastBatchSequenced[r]
    /\ target >= lastVerifiedBatch[r]

\* Seeded bug: the loop deletes the last sequence only.
DeletesLastOnly(r, target, ends) == ends = {lastBatchSequenced[r]}

(***************************************************************************)
(* The loop of rollbackBatches.  ends is the set of sequence ends it       *)
(* deletes: it starts at the last one, follows previousLastBatchSequenced  *)
(* and stops at the target; a link that jumps below makes it revert.       *)
(***************************************************************************)
WalkedBack(r, target, ends) ==
    LET previous(b) == sequencedBatches[r][b].previousLastBatchSequenced IN
    /\ lastBatchSequenced[r] \in ends
    /\ \A b \in ends : previous(b) \in ends \cup {target}
    /\ \A b \in ends \ {lastBatchSequenced[r]} : \E later \in ends : previous(later) = b

\* Seeded bug: the total is left alone.
NothingRolledBack(r, target) == 0

BatchesRolledBack(r, target) == lastBatchSequenced[r] - target

\* rollbackBatches of the manager.
RollbackBatches(r, target) ==
    /\ rollupVerifierType[r] = "StateTransition"
    /\ RollbackTarget(r, target)
    /\ \E ends \in SUBSET (target + 1 .. lastBatchSequenced[r]) :
          /\ WalkedBack(r, target, ends)
          /\ sequencedBatches' = [sequencedBatches EXCEPT ![r] =
                 [b \in Batches |-> IF b \in ends THEN NoSequencedBatch
                                                  ELSE sequencedBatches[r][b]]]
    /\ totalSequencedBatches' = totalSequencedBatches - BatchesRolledBack(r, target)
    /\ lastBatchSequenced' = [lastBatchSequenced EXCEPT ![r] = target]
    /\ UNCHANGED <<now, registryVars, totalVerifiedBatches, lastVerifiedBatch,
                   lastVerifiedBatchBeforeUpgrade, batchNumToStateRoot, rootVars,
                   emergencyVars, polVars, exitVars>>

BatchesToVerify == totalSequencedBatches - totalVerifiedBatches

\* Seeded bug: the division rounds up.
RewardRoundedUp ==
    IF BatchesToVerify = 0 THEN 0
    ELSE (polBalance + BatchesToVerify - 1) \div BatchesToVerify

\* calculateRewardPerBatch
RewardPerBatch ==
    IF BatchesToVerify = 0 THEN 0 ELSE polBalance \div BatchesToVerify

\* Seeded bugs: one of the conditions of CanVerify is lost, or one is added.
MayEndEarlier(r, init, final) ==
    /\ rollupVerifierType[r] = "StateTransition"
    /\ init >= lastVerifiedBatchBeforeUpgrade[r]
    /\ batchNumToStateRoot[r][init] # ZeroHash
    /\ init <= lastVerifiedBatch[r]
    /\ init # 0 => IsSequenced(r, init)
    /\ IsSequenced(r, final)

MayStartBeforeUpgrade(r, init, final) ==
    /\ rollupVerifierType[r] = "StateTransition"
    /\ batchNumToStateRoot[r][init] # ZeroHash
    /\ init <= lastVerifiedBatch[r]
    /\ final > lastVerifiedBatch[r]
    /\ init # 0 => IsSequenced(r, init)
    /\ IsSequenced(r, final)

NotInEmergency(r, init, final) ==
    /\ ~isEmergencyState
    /\ MayStartBeforeUpgrade(r, init, final)

\* The checks of _verifyAndRewardBatches and of _getInputSnarkBytes.
CanVerify(r, init, final) ==
    /\ rollupVerifierType[r] = "StateTransition"
    /\ init >= lastVerifiedBatchBeforeUpgrade[r]
    /\ batchNumToStateRoot[r][init] # ZeroHash
    /\ init <= lastVerifiedBatch[r]
    /\ final > lastVerifiedBatch[r]
    /\ init # 0 => IsSequenced(r, init)
    /\ IsSequenced(r, final)

\* The reward of a verification that ends at batch final.
Reward(r, final) == RewardPerBatch * (final - lastVerifiedBatch[r])

(***************************************************************************)
(* verifyBatchesTrustedAggregator; it has no emergency check.  The reward  *)
(* comes out of the manager's balance, then the roots are stored and the   *)
(* new rollup exit root is reported.  The subtraction below is checked.    *)
(* onVerifyBatches is called with the totals raised and the rollup's batch *)
(* not yet stored; the consensus that is shipped only emits an event.      *)
(***************************************************************************)
VerifyBatches(r, init, final, exitRoot, stateRoot) ==
    /\ CanVerify(r, init, final)
    /\ totalVerifiedBatches <= totalSequencedBatches
    /\ Reward(r, final) <= polBalance
    /\ polBalance' = polBalance - Reward(r, final)
    /\ totalVerifiedBatches' = totalVerifiedBatches + (final - lastVerifiedBatch[r])
    /\ lastAggregationTimestamp' = now
    /\ lastVerifiedBatch' = [lastVerifiedBatch EXCEPT ![r] = final]
    /\ batchNumToStateRoot' = [batchNumToStateRoot EXCEPT ![r][final] = stateRoot]
    /\ lastLocalExitRoot' = [lastLocalExitRoot EXCEPT ![r] = exitRoot]
    /\ ReportRollupExitRoot(lastLocalExitRoot')
    /\ UNCHANGED <<now, registryVars, totalSequencedBatches, lastBatchSequenced,
                   lastVerifiedBatchBeforeUpgrade, sequencedBatches,
                   lastPessimisticRoot, isEmergencyState,
                   lastDeactivatedEmergencyStateTimestamp, batchFee>>

\* The local exit root a bootstrap certificate of a migrating rollup must prove.
BootstrapExitRoot(r) ==
    IF lastLocalExitRoot[r] = ZeroHash THEN EmptyTreeRoot ELSE lastLocalExitRoot[r]

ProvesBootstrap(r, exitRoot) ==
    isRollupMigrating[r] => exitRoot = BootstrapExitRoot(r)

(***************************************************************************)
(* verifyPessimisticTrustedAggregator.  The first proof of a migrating     *)
(* rollup ends its migration and must reproduce the exit root it has.      *)
(***************************************************************************)
VerifyPessimistic(r, leafCount, exitRoot, pessimisticRoot) ==
    /\ rollupVerifierType[r] # "StateTransition"
    /\ leafCount \in DOMAIN l1InfoRootMap
    /\ ProvesBootstrap(r, exitRoot)
    /\ isRollupMigrating' = [isRollupMigrating EXCEPT ![r] = FALSE]
    /\ lastAggregationTimestamp' = now
    /\ lastLocalExitRoot' = [lastLocalExitRoot EXCEPT ![r] = exitRoot]
    /\ lastPessimisticRoot' = [lastPessimisticRoot EXCEPT ![r] = pessimisticRoot]
    /\ ReportRollupExitRoot(lastLocalExitRoot')
    /\ UNCHANGED <<now, rollupTypeMap, rollupCount, chainIDToRollupID, rollupTypeID,
                   rollupVerifierType, ledgerVars, isEmergencyState,
                   lastDeactivatedEmergencyStateTimestamp, polVars>>

-----------------------------------------------------------------------------
(* Emergency state, fees, time and the bridge *)

HaltTimeoutExpired ==
    /\ lastAggregationTimestamp # 0
    /\ lastAggregationTimestamp + HaltAggregationTimeout <= now
    /\ lastDeactivatedEmergencyStateTimestamp + HaltAggregationTimeout <= now

\* activateEmergencyState, by the council or, once the prover is silent, by anyone.
ActivateEmergencyState(byCouncil) ==
    /\ byCouncil \/ HaltTimeoutExpired
    /\ ActivateBridgeEmergency
    /\ ~isEmergencyState
    /\ isEmergencyState' = TRUE
    /\ UNCHANGED <<now, registryVars, ledgerVars, rootVars, lastAggregationTimestamp,
                   lastDeactivatedEmergencyStateTimestamp, polVars, exitTree,
                   lastUpdatedDepositCount, gerVars>>

DeactivateEmergencyState ==
    /\ lastDeactivatedEmergencyStateTimestamp' = now
    /\ DeactivateBridgeEmergency
    /\ isEmergencyState
    /\ isEmergencyState' = FALSE
    /\ UNCHANGED <<now, registryVars, ledgerVars, rootVars, lastAggregationTimestamp,
                   polVars, exitTree, lastUpdatedDepositCount, gerVars>>

SetBatchFee(fee) ==
    /\ batchFee' = fee
    /\ UNCHANGED <<now, registryVars, ledgerVars, rootVars, emergencyVars,
                   polBalance, exitVars>>

Tick ==
    /\ now < MaxTime
    /\ now' = now + 1
    /\ UNCHANGED <<registryVars, ledgerVars, rootVars, emergencyVars, polVars, exitVars>>

Bridging ==
    /\ BridgeStep
    /\ UNCHANGED <<now, registryVars, ledgerVars, rootVars, emergencyVars, polVars>>

-----------------------------------------------------------------------------
\* Everything but what a consensus contract takes part in.
Administration ==
    \/ \E vt \in VerifierTypes : AddNewRollupType(vt)
    \/ \E t \in TypeIDs : ObsoleteRollupType(t)
    \/ \E r \in Rollups, t \in TypeIDs :
          \/ UpdateRollupByRollupAdmin(r, t)
          \/ UpdateRollup(r, t)
          \/ InitMigration(r, t)
    \/ \E byCouncil \in BOOLEAN : ActivateEmergencyState(byCouncil)
    \/ DeactivateEmergencyState
    \/ \E fee \in BatchFees : SetBatchFee(fee)
    \/ Tick
    \/ Bridging

PessimisticVerification ==
    \E r \in RollupIDs, n \in 0..Len(l1InfoTree), ler \in LocalExitRoots,
       pp \in PessimisticRoots : VerifyPessimistic(r, n, ler, pp)

Next ==
    \/ Administration
    \/ PessimisticVerification
    \/ \E t \in TypeIDs, c \in ChainIDs, root \in StateRoots, acc \in AccInputHashes :
          AttachAggchainToAL(t, c, root, acc)
    \/ \E c \in ChainIDs, vt \in VerifierTypes, root \in StateRoots,
          ler \in LocalExitRoots, pp \in PessimisticRoots \cup {ZeroHash} :
          AddExistingRollup(c, vt, root, ler, pp)
    \/ \E r \in Rollups, n \in Batches, acc \in AccInputHashes, payment \in 0..MaxPOL :
          ConsensusSequences(r, n, acc, payment)
    \/ \E r \in Rollups, target \in Batches : RollbackBatches(r, target)
    \/ \E r \in RollupIDs, init, final \in Batches, ler \in LocalExitRoots,
          root \in StateRoots : VerifyBatches(r, init, final, ler, root)

Spec == Init /\ [][Next]_managerVars

(***************************************************************************)
(* The trusted aggregator keeps proving every rollup that has sequenced    *)
(* batches left: verifyBatchesTrustedAggregator is called again and again, *)
(* also during an emergency.                                               *)
(***************************************************************************)
VerifySome(r) ==
    \E init, final \in Batches, ler \in LocalExitRoots, root \in StateRoots :
        VerifyBatches(r, init, final, ler, root)

FairSpec == Spec /\ \A r \in RollupIDs : WF_managerVars(VerifySome(r))

-----------------------------------------------------------------------------
RollupTypes == [rollupVerifierType : VerifierTypes, obsolete : BOOLEAN]
SequencedBatchData == [accInputHash : AccInputHashes \cup {ZeroHash},
                       previousLastBatchSequenced : Batches]

\* Every variable of the manager holds a value of its Solidity type.
TypeOK ==
    /\ now \in Times
    /\ rollupTypeMap \in Seq(RollupTypes)
    /\ rollupCount \in 0..MaxRollups
    /\ chainIDToRollupID \in [ChainIDs -> 0..MaxRollups]
    /\ rollupTypeID \in [RollupIDs -> Nat]
    /\ rollupVerifierType \in [RollupIDs -> VerifierTypes]
    /\ isRollupMigrating \in [RollupIDs -> BOOLEAN]
    /\ totalSequencedBatches \in Nat /\ totalVerifiedBatches \in Nat
    /\ lastBatchSequenced \in [RollupIDs -> Batches]
    /\ lastVerifiedBatch \in [RollupIDs -> Batches]
    /\ lastVerifiedBatchBeforeUpgrade \in [RollupIDs -> Batches]
    /\ sequencedBatches \in [RollupIDs -> [Batches -> SequencedBatchData]]
    /\ batchNumToStateRoot \in [RollupIDs -> [Batches -> StateRoots \cup {ZeroHash}]]
    /\ lastLocalExitRoot \in [RollupIDs -> LocalExitRoots]
    /\ lastPessimisticRoot \in [RollupIDs -> PessimisticRoots \cup {ZeroHash}]
    /\ isEmergencyState \in BOOLEAN
    /\ lastAggregationTimestamp \in Times
    /\ lastDeactivatedEmergencyStateTimestamp \in Times
    /\ batchFee \in BatchFees
    /\ polBalance \in Nat

(***************************************************************************)
(* The totals the rewards are computed from are the sums over the rollups: *)
(* onSequenceBatches, rollbackBatches and the verification each update a   *)
(* total and a rollup apart.                                               *)
(***************************************************************************)
TotalsMatch ==
    /\ totalSequencedBatches = SumTo(lastBatchSequenced, MaxRollups)
    /\ totalVerifiedBatches = SumTo(lastVerifiedBatch, MaxRollups)

\* Verified batches are sequenced, and an upgrade never runs ahead of them.
OrderedBatches ==
    \A r \in RollupIDs :
        /\ lastVerifiedBatchBeforeUpgrade[r] <= lastVerifiedBatch[r]
        /\ lastVerifiedBatch[r] <= lastBatchSequenced[r]

\* The batches a sequence of rollup r ends with, and the genesis.
SequenceEnds(r) == {b \in Batches : b = 0 \/ IsSequenced(r, b)}

(***************************************************************************)
(* The stored sequences of a rollup form one chain: each link leads to the *)
(* end of the sequence just below, and the last sequenced batch, the last  *)
(* verified one and the one before the last upgrade are all on it, so that *)
(* the loop of rollbackBatches finds every end above its target and no     *)
(* stale entry survives a rollback.                                        *)
(***************************************************************************)
SequenceChain ==
    \A r \in RollupIDs :
        /\ {lastBatchSequenced[r], lastVerifiedBatch[r],
            lastVerifiedBatchBeforeUpgrade[r]} \subseteq SequenceEnds(r)
        /\ \A b \in SequenceEnds(r) \ {0} :
              LET previous == sequencedBatches[r][b].previousLastBatchSequenced IN
              /\ b <= lastBatchSequenced[r]
              /\ previous \in SequenceEnds(r)
              /\ previous < b
              /\ \A e \in SequenceEnds(r) : e <= previous \/ b <= e

(***************************************************************************)
(* A state root is stored only for a verified end of a sequence, and the   *)
(* last verified batch of a state transition rollup has one.               *)
(***************************************************************************)
StateRootsAreVerified ==
    /\ \A r \in RollupIDs, b \in Batches :
          batchNumToStateRoot[r][b] # ZeroHash =>
              b \in SequenceEnds(r) /\ b <= lastVerifiedBatch[r]
    /\ \A r \in Rollups :
          rollupVerifierType[r] = "StateTransition" =>
              batchNumToStateRoot[r][lastVerifiedBatch[r]] # ZeroHash

(***************************************************************************)
(* The ledger of every rollup: one chain of sequences with state roots on  *)
(* its verified part, through rollback, upgrade and verification           *)
(* (rollbackBatches, _verifyAndRewardBatches).                             *)
(***************************************************************************)
LedgerIsSound == SequenceChain /\ StateRootsAreVerified

(***************************************************************************)
(* The aggregator is never stuck: whatever was rolled back, upgraded or    *)
(* verified before, the pending batches of a state transition rollup can   *)
(* be verified from its last verified batch, and the reward is covered by  *)
(* the POL the manager holds.                                              *)
(***************************************************************************)
AggregatorNeverStuck ==
    \A r \in Rollups :
        (rollupVerifierType[r] = "StateTransition" /\ ~AllSequencedVerified(r)) =>
            /\ CanVerify(r, lastVerifiedBatch[r], lastBatchSequenced[r])
            /\ totalVerifiedBatches <= totalSequencedBatches
            /\ Reward(r, lastBatchSequenced[r]) <= polBalance

(***************************************************************************)
(* A migrating rollup has left StateTransition with nothing pending, and   *)
(* stays so until its bootstrap certificate is proved.                     *)
(***************************************************************************)
MigrationIsClean ==
    \A r \in RollupIDs :
        isRollupMigrating[r] =>
            /\ r \in Rollups
            /\ rollupVerifierType[r] # "StateTransition"
            /\ lastBatchSequenced[r] = lastVerifiedBatch[r]

(***************************************************************************)
(* What was verified is final: no step lowers lastVerifiedBatch, changes a *)
(* stored state root or touches the sequences up to the last verified one. *)
(***************************************************************************)
VerifiedIsFinal ==
    [][\A r \in RollupIDs :
          /\ lastVerifiedBatch'[r] >= lastVerifiedBatch[r]
          /\ \A b \in Batches :
                /\ batchNumToStateRoot[r][b] # ZeroHash =>
                      batchNumToStateRoot'[r][b] = batchNumToStateRoot[r][b]
                /\ b <= lastVerifiedBatch[r] =>
                      sequencedBatches'[r][b] = sequencedBatches[r][b]]_managerVars

(***************************************************************************)
(* A rollup that left StateTransition never returns to it, and its ledger  *)
(* of batches never moves again.                                           *)
(***************************************************************************)
NoWayBackToBatches ==
    [][\A r \in Rollups :
          rollupVerifierType[r] # "StateTransition" =>
              /\ rollupVerifierType'[r] # "StateTransition"
              /\ lastBatchSequenced'[r] = lastBatchSequenced[r]
              /\ lastVerifiedBatch'[r] = lastVerifiedBatch[r]
              /\ sequencedBatches'[r] = sequencedBatches[r]]_managerVars

(***************************************************************************)
(* A migration loses no exit: until its bootstrap certificate is in, the   *)
(* rollup is migrating, upgraded once more or not, and its local exit root *)
(* keeps its value. No upgrade ends the migration, and what ends it leaves *)
(* that root, or the root of the empty tree where there was none           *)
(* (PolygonRollupManager.sol:930-945, 981, 1313-1336).                     *)
(***************************************************************************)
MigrationKeepsExits ==
    [][\A r \in RollupIDs :
          isRollupMigrating[r] =>
              \/ isRollupMigrating'[r] /\ lastLocalExitRoot'[r] = lastLocalExitRoot[r]
              \/ /\ ~isRollupMigrating'[r] /\ rollupTypeID'[r] = rollupTypeID[r]
                 /\ lastLocalExitRoot'[r] = IF lastLocalExitRoot[r] = ZeroHash
                                            THEN EmptyTreeRoot
                                            ELSE lastLocalExitRoot[r]]_managerVars

(***************************************************************************)
(* In emergency state neither contract takes anything in: no deposit       *)
(* reaches the bridge and no batch is sequenced by any rollup.             *)
(***************************************************************************)
EmergencyStopsInflow ==
    [][isEmergencyState =>
          /\ exitTree' = exitTree
          /\ \A r \in RollupIDs : lastBatchSequenced'[r] <= lastBatchSequenced[r]]_managerVars

(***************************************************************************)
(* Under FairSpec a sequenced batch is settled: it is verified, rolled     *)
(* back, or its rollup leaves StateTransition.                             *)
(***************************************************************************)
EveryBatchSettles ==
    \A r \in RollupIDs, b \in Batches :
        (lastBatchSequenced[r] >= b) ~>
            \/ lastVerifiedBatch[r] >= b
            \/ lastBatchSequenced[r] < b
            \/ rollupVerifierType[r] # "StateTransition"
=============================================================================
