---------------------------- MODULE RollupSystem ----------------------------
(***************************************************************************)
(* RollupManager composed with the consensus contract of state transition  *)
(* rollups, PolygonRollupBaseEtrog: sequencing by the trusted sequencer,   *)
(* forced batches and the POL that pays for both.                          *)
(*                                                                         *)
(* An accumulated input hash is the list of batches it commits to, and     *)
(* bytes32(0) is the empty list.  A state root is the list of batches      *)
(* executed since the genesis, each with the program (the rollup type)     *)
(* that proved it; a proof exists exactly for executing the batches        *)
(* between two accumulated input hashes, so proofs are sound.  Global exit *)
(* roots, coinbases and block hashes inside a batch are left out.          *)
(***************************************************************************)
EXTENDS RollupManager

CONSTANTS
    Txs,            \* transactions of a batch
    InitTx,         \* the transaction initialize() sequences
    Genesis,        \* stands for the genesis state of a rollup
    Forced,         \* marks a forced batch in the list given to sequenceBatches
    NoForcedBatch,  \* an empty slot of forcedBatches
    ForceBatchTimeout,  \* the 5 days initialize() sets
    ForceBatchTimeouts, \* timeouts an admin may set
    ForcedFeeFactor,    \* 100: a forced batch costs so many batch fees
    MaxForced,      \* bound: forced batches of a rollup
    MaxSequence     \* _MAX_VERIFY_BATCHES

ASSUME SystemAssumption ==
    /\ ZeroHash = <<>>
    /\ InitTx \notin Txs /\ Forced \notin Txs
    /\ MaxForced \in Nat /\ MaxSequence \in Nat /\ ForcedFeeFactor \in Nat
    /\ ForceBatchTimeout \in Nat /\ ForceBatchTimeouts \subseteq Nat

VARIABLES
    lastAccInputHash, lastForceBatch, lastForceBatchSequenced, forcedBatches,
    forceBatchTimeout,
    rollupPol \* pol.balanceOf(the consensus contract)

forcedVars == <<lastForceBatch, lastForceBatchSequenced, forcedBatches, rollupPol>>
consensusVars == <<lastAccInputHash, forcedVars, forceBatchTimeout>>
systemVars == <<managerVars, consensusVars>>

ForcedIDs == 1..MaxForced

\* forced is the number of a forced batch, 0 for a batch of the sequencer.
BatchData == [forced : 0..MaxForced, tx : Txs \cup {InitTx}]
InitialBatch == [forced |-> 0, tx |-> InitTx]
GenesisRoot == <<[batch |-> Genesis, program |-> 0]>>

(***************************************************************************)
(* The hashes and roots of this composition are among those the manager    *)
(* takes from a consensus contract and any proof.                          *)
(***************************************************************************)
ASSUME ListsAssumption ==
    /\ MaxBatch # 0
    /\ \A n \in 1..MaxBatch : [1..n -> BatchData] \subseteq AccInputHashes
    /\ \A n \in 1..MaxBatch + 1 :
          [1..n -> [batch : BatchData \cup {Genesis}, program : 0..MaxTypes]]
              \subseteq StateRoots
    /\ NoForcedBatch \notin [tx : Txs, forcedTimestamp : Times]

SystemInit ==
    /\ Init
    /\ lastAccInputHash = [r \in RollupIDs |-> <<>>]
    /\ lastForceBatch = [r \in RollupIDs |-> 0]
    /\ lastForceBatchSequenced = [r \in RollupIDs |-> 0]
    /\ forcedBatches = [r \in RollupIDs |-> [i \in ForcedIDs |-> NoForcedBatch]]
    /\ forceBatchTimeout = [r \in RollupIDs |-> 0]
    /\ rollupPol = [r \in RollupIDs |-> 0]

-----------------------------------------------------------------------------
\* attachAggchainToAL with initialize() of the consensus contract.
AttachRollup(t, c) ==
    LET r == rollupCount + 1 IN
    /\ AttachAggchainToAL(t, c, GenesisRoot, <<InitialBatch>>)
    /\ \/ /\ VerifierTypeOf(t) = "StateTransition"
          /\ lastAccInputHash' = [lastAccInputHash EXCEPT ![r] = <<InitialBatch>>]
          /\ forceBatchTimeout' = [forceBatchTimeout EXCEPT ![r] = ForceBatchTimeout]
       \/ /\ VerifierTypeOf(t) # "StateTransition"
          /\ UNCHANGED <<lastAccInputHash, forceBatchTimeout>>
    /\ UNCHANGED forcedVars

PendingForced(r) == lastForceBatch[r] - lastForceBatchSequenced[r]

\* Seeded bug: the balance is not shared among the pending batches.
WholeBalance(r) == IF PendingForced(r) = 0 THEN 0 ELSE rollupPol[r]

GetForcedBatchFee == batchFee * ForcedFeeFactor

\* calculatePolPerForceBatch
PolPerForceBatch(r) ==
    IF PendingForced(r) = 0 THEN 0 ELSE rollupPol[r] \div PendingForced(r)

\* The next n forced batches are stored, so their data can be supplied.
ForcedAvailable(r, n) ==
    /\ n <= PendingForced(r)
    /\ \A i \in 1..n : forcedBatches[r][lastForceBatchSequenced[r] + i] # NoForcedBatch

ForcedBatch(r, i) == [forced |-> i, tx |-> forcedBatches[r][i].tx]

\* The queue once its next n entries are deleted.
DequeuedForced(r, n) ==
    [i \in ForcedIDs |->
        IF i \in lastForceBatchSequenced[r] + 1 .. lastForceBatchSequenced[r] + n
        THEN NoForcedBatch ELSE forcedBatches[r][i]]

(***************************************************************************)
(* The next n forced batches leave the queue and their share of the POL    *)
(* held for the queue goes to the manager.                                 *)
(***************************************************************************)
TakeForced(r, n) ==
    /\ ForcedAvailable(r, n)
    /\ forcedBatches' = [forcedBatches EXCEPT ![r] = DequeuedForced(r, n)]
    /\ lastForceBatchSequenced' = [lastForceBatchSequenced EXCEPT ![r] = @ + n]
    /\ rollupPol' = [rollupPol EXCEPT ![r] = @ - PolPerForceBatch(r) * n]
    /\ UNCHANGED lastForceBatch

\* How many of the first k batches of the list are forced.
ForcedAmong(batches, k) == Cardinality({i \in 1..k : batches[i] = Forced})

\* Seeded bug: the forced batches of one call are read in reverse.
HashedInReverse(r, batches) ==
    [k \in 1..Len(batches) |->
        IF batches[k] = Forced
        THEN ForcedBatch(r, lastForceBatchSequenced[r] + 1
                 + ForcedAmong(batches, Len(batches)) - ForcedAmong(batches, k))
        ELSE [forced |-> 0, tx |-> batches[k]]]

\* The batches of the list, the forced ones read from the queue in order.
Hashed(r, batches) ==
    [k \in 1..Len(batches) |->
        IF batches[k] = Forced
        THEN ForcedBatch(r, lastForceBatchSequenced[r] + ForcedAmong(batches, k))
        ELSE [forced |-> 0, tx |-> batches[k]]]

\* Seeded bug: the hash starts over instead of continuing the last one.
HashOfCallOnly(r, new) == new

\* The hash of a call continues lastAccInputHash.
Accumulated(r, new) == lastAccInputHash[r] \o new

(***************************************************************************)
(* sequenceBatches of the trusted sequencer.  The bridge's global exit     *)
(* root is published first; the list mixes the sequencer's own batches,    *)
(* paid by the sequencer, with forced ones, paid from the queue.  A call   *)
(* whose expectedFinalAccInputHash does not match reverts, and leaf count  *)
(* 0 of the L1 info tree is always a valid anchor.                         *)
(***************************************************************************)
SequenceBatches(r, batches) ==
    LET n == Len(batches)
        forced == ForcedAmong(batches, n)
    IN
    /\ UpdateGlobalExitRoot
    /\ TakeForced(r, forced)
    /\ lastAccInputHash' =
           [lastAccInputHash EXCEPT ![r] = Accumulated(r, Hashed(r, batches))]
    /\ ReportBatches(r, n, lastAccInputHash'[r],
                     PolPerForceBatch(r) * forced + batchFee * (n - forced))
    /\ UNCHANGED forceBatchTimeout

\* forceBatch: the fee stays with the consensus contract until it is sequenced.
ForceBatch(r, tx) ==
    /\ rollupVerifierType[r] = "StateTransition"
    /\ ~isEmergencyState
    /\ lastForceBatch[r] < MaxForced
    /\ lastForceBatch' = [lastForceBatch EXCEPT ![r] = @ + 1]
    /\ forcedBatches' = [forcedBatches EXCEPT
           ![r][lastForceBatch[r] + 1] = [tx |-> tx, forcedTimestamp |-> now]]
    /\ rollupPol' = [rollupPol EXCEPT ![r] = @ + GetForcedBatchFee]
    /\ UNCHANGED <<managerVars, lastAccInputHash, lastForceBatchSequenced,
                   forceBatchTimeout>>

(***************************************************************************)
(* sequenceForceBatches: anyone allowed to force sequences the next n      *)
(* forced batches once the timeout of the last of them has expired.        *)
(***************************************************************************)
SequenceForceBatches(r, n) ==
    LET first == lastForceBatchSequenced[r] + 1
        last == lastForceBatchSequenced[r] + n
    IN
    /\ lastDeactivatedEmergencyStateTimestamp + HaltAggregationTimeout <= now
    /\ TakeForced(r, n)
    /\ forcedBatches[r][last].forcedTimestamp + forceBatchTimeout[r] <= now
    /\ lastAccInputHash' = [lastAccInputHash EXCEPT
           ![r] = Accumulated(r, [k \in 1..n |-> ForcedBatch(r, first + k - 1)])]
    /\ ReportBatches(r, n, lastAccInputHash'[r], PolPerForceBatch(r) * n)
    /\ UNCHANGED <<exitVars, forceBatchTimeout>>

\* setForceBatchTimeout: outside an emergency the timeout can only be lowered.
SetForceBatchTimeout(r, timeout) ==
    /\ rollupVerifierType[r] = "StateTransition"
    /\ timeout <= HaltAggregationTimeout
    /\ isEmergencyState \/ timeout < forceBatchTimeout[r]
    /\ forceBatchTimeout' = [forceBatchTimeout EXCEPT ![r] = timeout]
    /\ UNCHANGED <<managerVars, lastAccInputHash, forcedVars>>

\* Seeded bug: the callback is lost.
KeptHash(r, target) == lastAccInputHash[r]

\* The hash the manager passes to the rollbackBatches callback.
HashToRollback(r, target) == sequencedBatches'[r][target].accInputHash

\* rollbackBatches with the callback that restores the consensus contract's hash.
Rollback(r, target) ==
    /\ RollbackBatches(r, target)
    /\ lastAccInputHash' = [lastAccInputHash EXCEPT ![r] = HashToRollback(r, target)]
    /\ UNCHANGED <<forcedVars, forceBatchTimeout>>

\* The state a sound proof reaches from batch init to batch final.
ProvedStateRoot(r, init, final) ==
    LET new == SubSeq(sequencedBatches[r][final].accInputHash, init + 1, final)
    IN  batchNumToStateRoot[r][init] \o
            [k \in 1..Len(new) |-> [batch |-> new[k], program |-> rollupTypeID[r]]]

\* The accumulated hash a proof ends with extends the one it starts from.
Provable(r, init, final) ==
    SubSeq(sequencedBatches[r][final].accInputHash, 1, init)
        = sequencedBatches[r][init].accInputHash

Verify(r, init, final, exitRoot) ==
    /\ CanVerify(r, init, final)
    /\ Provable(r, init, final)
    /\ VerifyBatches(r, init, final, exitRoot, ProvedStateRoot(r, init, final))
    /\ UNCHANGED consensusVars

\* Lists sequenceBatches can be called with.
BatchLists == UNION {[1..n -> Txs \cup {Forced}] : n \in 1..MaxSequence}

SystemNext ==
    \/ (Administration \/ PessimisticVerification) /\ UNCHANGED consensusVars
    \/ \E t \in TypeIDs, c \in ChainIDs : AttachRollup(t, c)
    \/ \E r \in Rollups :
          \/ \E batches \in BatchLists : SequenceBatches(r, batches)
          \/ \E tx \in Txs : ForceBatch(r, tx)
          \/ \E n \in 1..MaxSequence : SequenceForceBatches(r, n)
          \/ \E timeout \in ForceBatchTimeouts : SetForceBatchTimeout(r, timeout)
          \/ \E target \in Batches : Rollback(r, target)
          \/ \E init, final \in Batches, ler \in LocalExitRoots :
                Verify(r, init, final, ler)

SystemSpec == SystemInit /\ [][SystemNext]_systemVars

-----------------------------------------------------------------------------
(***************************************************************************)
(* Manager and consensus contract agree on the batches: every stored       *)
(* sequence ends a prefix of the list the consensus contract continues     *)
(* from, of the length of its batch number (onSequenceBatches and the      *)
(* rollbackBatches callback keep two copies of the last hash).             *)
(***************************************************************************)
OneBatchHistory ==
    \A r \in RollupIDs :
        /\ Len(lastAccInputHash[r]) = lastBatchSequenced[r]
        /\ \A b \in SequenceEnds(r) :
              sequencedBatches[r][b].accInputHash = SubSeq(lastAccInputHash[r], 1, b)

(***************************************************************************)
(* A stored state root is the execution of exactly the batches sequenced   *)
(* up to its batch, whatever was rolled back and sequenced again before.   *)
(***************************************************************************)
StateExecutesHistory ==
    \A r \in RollupIDs, b \in Batches :
        batchNumToStateRoot[r][b] # ZeroHash =>
            /\ b <= Len(lastAccInputHash[r])
            /\ [k \in 1..b |-> batchNumToStateRoot[r][b][k + 1].batch]
                   = SubSeq(lastAccInputHash[r], 1, b)

(***************************************************************************)
(* A later verified state continues the earlier ones: no batch verified    *)
(* before an upgrade is executed again by the new program                  *)
(* (lastVerifiedBatchBeforeUpgrade, "InitBatchMustMatchCurrentForkID").    *)
(***************************************************************************)
NoReexecution ==
    \A r \in RollupIDs, a, b \in Batches :
        (/\ a < b
         /\ batchNumToStateRoot[r][a] # ZeroHash
         /\ batchNumToStateRoot[r][b] # ZeroHash) =>
            SubSeq(batchNumToStateRoot[r][b], 1, a + 1) = batchNumToStateRoot[r][a]

(***************************************************************************)
(* State roots and batches: each root is the execution of the batches it   *)
(* claims, and continues the roots before it, across rollbacks and upgrades*)
(* (_verifyAndRewardBatches).                                              *)
(***************************************************************************)
StatesAreOneExecution == StateExecutesHistory /\ NoReexecution

(***************************************************************************)
(* Every pending forced batch stays paid for: taking batches at the        *)
(* average price never leaves less than the lowest fee for the others      *)
(* (calculatePolPerForceBatch, with fees that change in between).          *)
(***************************************************************************)
ForcedBatchesFunded ==
    \A r \in RollupIDs :
        \E fee \in BatchFees :
            /\ \A other \in BatchFees : fee <= other
            /\ rollupPol[r] >= PendingForced(r) * fee * ForcedFeeFactor

(***************************************************************************)
(* A forced batch is sequenced at most once and in order, whoever calls:   *)
(* the queue holds those not sequenced yet and no other (sequenceBatches,  *)
(* sequenceForceBatches).                                                  *)
(***************************************************************************)
ForcedOnceInOrder ==
    \A r \in RollupIDs :
        LET acc == lastAccInputHash[r]
            places == {k \in 1..Len(acc) : acc[k].forced # 0}
            queued == {i \in ForcedIDs : forcedBatches[r][i] # NoForcedBatch}
        IN  /\ \A j, k \in places : j < k => acc[j].forced < acc[k].forced
            /\ \A k \in places : acc[k].forced <= lastForceBatchSequenced[r]
            /\ queued = lastForceBatchSequenced[r] + 1 .. lastForceBatch[r]

(***************************************************************************)
(* PolygonConsensusBase calls lastForceBatchSequenced the "Last forced     *)
(* batch included in the sequence".  rollbackBatches does not keep this.   *)
(***************************************************************************)
LastForcedIsInSequence ==
    \A r \in RollupIDs :
        lastForceBatchSequenced[r] > 0 =>
            \E k \in 1..Len(lastAccInputHash[r]) :
                lastAccInputHash[r][k].forced = lastForceBatchSequenced[r]

\* The list of batches of a rollup and the part of it that is verified.
Chain == INSTANCE BatchChain WITH
             Chains <- RollupIDs, Batch <- BatchData,
             chain <- lastAccInputHash, verified <- lastVerifiedBatch

(***************************************************************************)
(* The two contracts together implement BatchChain: batches are added at   *)
(* the end, only unverified ones are taken off, verification advances.     *)
(***************************************************************************)
ImplementsBatchChain == Chain!Spec
=============================================================================
