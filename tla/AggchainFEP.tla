---------------------------- MODULE AggchainFEP ----------------------------
(***************************************************************************)
(* An aggchain with full execution proofs (AggchainFEP over AggchainBase)  *)
(* and the AggLayerGateway whose verification keys it may use, as the      *)
(* rollup manager drives them when it verifies a pessimistic proof: the    *)
(* chain computes the hash the proof has to commit to, the gateway finds   *)
(* the verifier, and the chain is called back to record its new output.    *)
(*                                                                         *)
(* A hash is the tuple of what is hashed. A proof is about the chain as it *)
(* was when somebody made it, and may be submitted much later; `proofs'    *)
(* holds those that exist. Callers hold the role the code asks for. The    *)
(* L1 info root a proof also commits to is left to RollupManager.          *)
(***************************************************************************)
EXTENDS Naturals, Sequences, SequencesExt, FiniteSets

CONSTANTS
    AGGCHAIN_TYPE,
    Selectors,       \* of aggchain keys: pairs of two bytes each
    AggchainVKeys, NoKey,
    PPSelectors,     \* of routes
    PessimisticVKeys,
    ConfigHashes, AggregationVKeys, RangeVKeys, Sequencers,
    ZeroHash,        \* a hash that is not set
    OutputRoots,     \* that a proof may be made for, ZeroHash perhaps among them
    ExitRoots,       \* pairs of local exit root and pessimistic root
    Intervals,       \* submission intervals a manager can name
    L2BlockTime,     \* l2BlockTime, given at initialization
    StartingOutputRoot, StartingBlockNumber, StartingTimestamp,
    MaxBlockNumber,  \* bound: block numbers of outputs
    MaxTime,         \* bound: block.timestamp
    MaxOutputs,      \* bound: outputs of the chain
    MaxProofs        \* bound: proofs that exist at a time

BlockNumbers == StartingBlockNumber..MaxBlockNumber

ASSUME FEPAssumption ==
    /\ NoKey \notin AggchainVKeys \cup PessimisticVKeys
    /\ ZeroHash \notin ConfigHashes
    /\ Intervals \subseteq Nat
    /\ L2BlockTime \in Nat
    /\ StartingBlockNumber \in Nat /\ StartingTimestamp \in Nat
    /\ MaxBlockNumber \in Nat /\ MaxTime \in Nat

VARIABLES
    \* the chain's contract
    initializedVersion,   \* 0: new, 1: was a pessimistic chain, 2: initialized
    l2Outputs,
    submissionInterval,
    params,               \* what a proof takes from the contract
    useDefaultGateway,
    ownedAggchainVKeys,
    \* the gateway
    defaultAggchainVKeys,
    pessimisticVKeyRoutes,
    \* the rollup manager
    lastRoots,            \* lastLocalExitRoot and lastPessimisticRoot of the chain
    \* the environment
    now,
    proofs,
    accepted              \* ghost: what was accepted for each output after the first

chainVars == <<initializedVersion, l2Outputs, submissionInterval, params,
               useDefaultGateway, ownedAggchainVKeys>>
gatewayVars == <<defaultAggchainVKeys, pessimisticVKeyRoutes>>
environmentVars == <<now, proofs>>
fepVars == <<chainVars, gatewayVars, lastRoots, environmentVars, accepted>>

NoRoute == [verifier |-> FALSE, pessimisticVKey |-> NoKey, frozen |-> FALSE]
NewRoute(vkey) == [verifier |-> TRUE, pessimisticVKey |-> vkey, frozen |-> FALSE]

\* A new contract, or one that was a pessimistic chain, and a gateway with one route.
FEPInit ==
    /\ initializedVersion \in {0, 1}
    /\ l2Outputs = <<>>
    /\ submissionInterval = 0
    /\ \E sequencer \in Sequencers :
           params = [rollupConfigHash |-> ZeroHash, aggregationVkey |-> ZeroHash,
                     rangeVkeyCommitment |-> ZeroHash, optimisticMode |-> FALSE,
                     trustedSequencer |-> sequencer]
    /\ useDefaultGateway = FALSE
    /\ ownedAggchainVKeys = [s \in Selectors |-> NoKey]
    /\ defaultAggchainVKeys = [s \in Selectors |-> NoKey]
    /\ \E selector \in PPSelectors, vkey \in PessimisticVKeys :
           pessimisticVKeyRoutes =
               [s \in PPSelectors |-> IF s = selector THEN NewRoute(vkey) ELSE NoRoute]
    /\ lastRoots \in ExitRoots
    /\ now = StartingTimestamp
    /\ proofs = {}
    /\ accepted = <<>>

-----------------------------------------------------------------------------
\* The last two bytes, where a comment of AggchainFEP says the first two.
AggchainType(selector) == selector[2]

Output(root, blockNumber, timestamp) ==
    [outputRoot |-> root, l2BlockNumber |-> blockNumber, timestamp |-> timestamp]

(***************************************************************************)
(* initialize: once, by a new contract or by one that was a pessimistic    *)
(* chain, which keeps its trusted sequencer.                               *)
(***************************************************************************)
Initialize(interval, configHash, aggVkey, rangeVkey, sequencer, useDefault, selector, vkey) ==
    /\ initializedVersion < 2
    /\ AggchainType(selector) = AGGCHAIN_TYPE
    /\ interval # 0 /\ L2BlockTime # 0
    /\ StartingTimestamp <= now
    /\ configHash # ZeroHash
    /\ initializedVersion' = 2
    /\ l2Outputs' = <<Output(StartingOutputRoot, StartingBlockNumber, StartingTimestamp)>>
    /\ submissionInterval' = interval
    /\ params' = [rollupConfigHash |-> configHash, aggregationVkey |-> aggVkey,
                  rangeVkeyCommitment |-> rangeVkey,
                  optimisticMode |-> params.optimisticMode,
                  trustedSequencer |-> IF initializedVersion = 0 THEN sequencer
                                       ELSE params.trustedSequencer]
    /\ useDefaultGateway' = useDefault
    /\ ownedAggchainVKeys' = [ownedAggchainVKeys EXCEPT ![selector] = vkey]
    /\ UNCHANGED <<gatewayVars, lastRoots, environmentVars, accepted>>

-----------------------------------------------------------------------------
LatestOutput == Last(l2Outputs)

NextBlockNumber == LatestOutput.l2BlockNumber + submissionInterval

ComputeL2Timestamp(blockNumber) ==
    StartingTimestamp + (blockNumber - StartingBlockNumber) * L2BlockTime

\* CannotProposeFutureL2Output.
InPast(blockNumber) == ComputeL2Timestamp(blockNumber) < now

\* The key of a selector, NoKey where the code reverts.
AggchainVKey(selector) ==
    IF useDefaultGateway THEN defaultAggchainVKeys[selector] ELSE ownedAggchainVKeys[selector]

\* Seeded bug: the hash does not say in which mode the chain is.
HashWithoutMode(vkey, outputRoot, blockNumber) ==
    <<vkey, LatestOutput.outputRoot, outputRoot, blockNumber,
      [params EXCEPT !.optimisticMode = FALSE]>>

AggchainHash(vkey, outputRoot, blockNumber) ==
    <<vkey, LatestOutput.outputRoot, outputRoot, blockNumber, params>>

\* The data that comes with a proof, and what getAggchainHash asks of it.
AggchainData == [selector : Selectors, outputRoot : OutputRoots, l2BlockNumber : BlockNumbers]

AcceptsData(data) ==
    /\ l2Outputs # <<>>
    /\ AggchainType(data.selector) = AGGCHAIN_TYPE
    /\ data.l2BlockNumber >= NextBlockNumber
    /\ InPast(data.l2BlockNumber)
    /\ data.outputRoot # ZeroHash
    /\ AggchainVKey(data.selector) # NoKey

\* The public values of the pessimistic proof.
PublicValues(data, newRoots) ==
    <<lastRoots,
      AggchainHash(AggchainVKey(data.selector), data.outputRoot, data.l2BlockNumber),
      newRoots>>

\* The chain as it is: what a proof of a new output is really about.
About(data, newRoots) ==
    [key |-> AggchainVKey(data.selector), params |-> params, from |-> LatestOutput.outputRoot,
     to |-> data.outputRoot, block |-> data.l2BlockNumber, roots |-> <<lastRoots, newRoots>>]

\* Somebody makes a proof; it may wait for its block to be old enough, or be given up.
Prove(vkey, data, newRoots) ==
    /\ l2Outputs # <<>>
    /\ AggchainVKey(data.selector) # NoKey
    /\ \E kept \in SUBSET proofs :
           /\ Cardinality(kept) < MaxProofs
           /\ proofs' = kept \cup {[vkey |-> vkey, publicValues |-> PublicValues(data, newRoots),
                                    about |-> About(data, newRoots)]}
    /\ UNCHANGED <<chainVars, gatewayVars, lastRoots, now, accepted>>

\* verifyPessimisticProof of the gateway.
Verifies(ppSelector, proof, publicValues) ==
    LET route == pessimisticVKeyRoutes[ppSelector]
    IN /\ route.verifier
       /\ ~route.frozen
       /\ proof.vkey = route.pessimisticVKey
       /\ proof.publicValues = publicValues

\* Seeded bug: the output is filed under the first block it could have.
RecordAtNextBlock(data) ==
    l2Outputs' = Append(l2Outputs, Output(data.outputRoot, NextBlockNumber, now))

OnVerifyPessimistic(data) ==
    l2Outputs' = Append(l2Outputs, Output(data.outputRoot, data.l2BlockNumber, now))

(***************************************************************************)
(* verifyPessimisticTrustedAggregator for this chain: hash, verification,  *)
(* new roots, callback.                                                    *)
(***************************************************************************)
VerifyPessimistic(ppSelector, data, newRoots, proof) ==
    /\ Len(l2Outputs) < MaxOutputs
    /\ AcceptsData(data)
    /\ Verifies(ppSelector, proof, PublicValues(data, newRoots))
    /\ lastRoots' = newRoots
    /\ OnVerifyPessimistic(data)
    /\ accepted' = Append(accepted, [ppSelector |-> ppSelector, selector |-> data.selector,
                                     proof |-> proof])
    /\ UNCHANGED <<initializedVersion, submissionInterval, params, useDefaultGateway,
                   ownedAggchainVKeys, gatewayVars, environmentVars>>

-----------------------------------------------------------------------------
\* The aggchain manager.
SetParams(newParams) ==
    /\ params' = newParams
    /\ UNCHANGED <<initializedVersion, l2Outputs, submissionInterval, useDefaultGateway,
                   ownedAggchainVKeys, gatewayVars, lastRoots, environmentVars, accepted>>

\* Seeded bug: the interval may be set to zero.
AnyInterval(interval) == interval \in Nat

\* SubmissionIntervalMustBeGreaterThanZero.
ValidInterval(interval) == interval > 0

UpdateSubmissionInterval(interval) ==
    /\ initializedVersion = 2
    /\ ValidInterval(interval)
    /\ submissionInterval' = interval
    /\ UNCHANGED <<initializedVersion, l2Outputs, params, useDefaultGateway,
                   ownedAggchainVKeys, gatewayVars, lastRoots, environmentVars, accepted>>

UpdateRollupConfigHash(configHash) ==
    /\ configHash # ZeroHash
    /\ SetParams([params EXCEPT !.rollupConfigHash = configHash])

UpdateAggregationVkey(vkey) ==
    /\ vkey # ZeroHash
    /\ SetParams([params EXCEPT !.aggregationVkey = vkey])

UpdateRangeVkeyCommitment(vkey) ==
    /\ vkey # ZeroHash
    /\ SetParams([params EXCEPT !.rangeVkeyCommitment = vkey])

\* By the optimistic mode manager, whom the initialization names.
EnableOptimisticMode ==
    /\ initializedVersion = 2
    /\ ~params.optimisticMode
    /\ SetParams([params EXCEPT !.optimisticMode = TRUE])

DisableOptimisticMode ==
    /\ params.optimisticMode
    /\ SetParams([params EXCEPT !.optimisticMode = FALSE])

\* setTrustedSequencer of the consensus contract, by its admin.
SetTrustedSequencer(sequencer) ==
    SetParams([params EXCEPT !.trustedSequencer = sequencer])

\* The key manager, whom the initialization names.
SetOwnKeys(keys) ==
    /\ initializedVersion = 2
    /\ ownedAggchainVKeys' = keys
    /\ UNCHANGED <<initializedVersion, l2Outputs, submissionInterval, params,
                   useDefaultGateway, gatewayVars, lastRoots, environmentVars, accepted>>

AddOwnedAggchainVKey(selector, vkey) ==
    /\ vkey # NoKey
    /\ ownedAggchainVKeys[selector] = NoKey
    /\ SetOwnKeys([ownedAggchainVKeys EXCEPT ![selector] = vkey])

\* The new key may be zero, which takes the key away.
UpdateOwnedAggchainVKey(selector, vkey) ==
    /\ ownedAggchainVKeys[selector] # NoKey
    /\ SetOwnKeys([ownedAggchainVKeys EXCEPT ![selector] = vkey])

SwitchDefaultGateway ==
    /\ initializedVersion = 2
    /\ useDefaultGateway' = ~useDefaultGateway
    /\ UNCHANGED <<initializedVersion, l2Outputs, submissionInterval, params,
                   ownedAggchainVKeys, gatewayVars, lastRoots, environmentVars, accepted>>

-----------------------------------------------------------------------------
\* The gateway's roles.
SetRoute(selector, route) ==
    /\ pessimisticVKeyRoutes' = [pessimisticVKeyRoutes EXCEPT ![selector] = route]
    /\ UNCHANGED <<chainVars, defaultAggchainVKeys, lastRoots, environmentVars, accepted>>

\* Seeded bug: a route can be added again.
ReplaceRoute(selector, vkey) == SetRoute(selector, NewRoute(vkey))

AddPessimisticVKeyRoute(selector, vkey) ==
    /\ ~pessimisticVKeyRoutes[selector].verifier
    /\ SetRoute(selector, NewRoute(vkey))

FreezePessimisticVKeyRoute(selector) ==
    /\ pessimisticVKeyRoutes[selector].verifier
    /\ ~pessimisticVKeyRoutes[selector].frozen
    /\ SetRoute(selector, [pessimisticVKeyRoutes[selector] EXCEPT !.frozen = TRUE])

SetDefaultKeys(keys) ==
    /\ defaultAggchainVKeys' = keys
    /\ UNCHANGED <<chainVars, pessimisticVKeyRoutes, lastRoots, environmentVars, accepted>>

AddDefaultAggchainVKey(selector, vkey) ==
    /\ defaultAggchainVKeys[selector] = NoKey
    /\ vkey # NoKey
    /\ SetDefaultKeys([defaultAggchainVKeys EXCEPT ![selector] = vkey])

UpdateDefaultAggchainVKey(selector, vkey) ==
    /\ defaultAggchainVKeys[selector] # NoKey
    /\ vkey # NoKey
    /\ SetDefaultKeys([defaultAggchainVKeys EXCEPT ![selector] = vkey])

UnsetDefaultAggchainVKey(selector) ==
    /\ defaultAggchainVKeys[selector] # NoKey
    /\ SetDefaultKeys([defaultAggchainVKeys EXCEPT ![selector] = NoKey])

Tick ==
    /\ now < MaxTime
    /\ now' = now + 1
    /\ UNCHANGED <<chainVars, gatewayVars, lastRoots, proofs, accepted>>

-----------------------------------------------------------------------------
InitializeStep ==
    \E interval \in Intervals, configHash \in ConfigHashes \cup {ZeroHash},
       aggregationVkey \in AggregationVKeys \cup {ZeroHash},
       rangeVkey \in RangeVKeys \cup {ZeroHash}, sequencer \in Sequencers,
       useDefault \in BOOLEAN, selector \in Selectors, vkey \in AggchainVKeys \cup {NoKey} :
        Initialize(interval, configHash, aggregationVkey, rangeVkey, sequencer,
                   useDefault, selector, vkey)

ChainAdministration ==
    \/ \E interval \in Intervals : UpdateSubmissionInterval(interval)
    \/ /\ initializedVersion = 2
       /\ \/ \E h \in ConfigHashes \cup {ZeroHash} : UpdateRollupConfigHash(h)
          \/ \E k \in AggregationVKeys : UpdateAggregationVkey(k)
          \/ \E k \in RangeVKeys : UpdateRangeVkeyCommitment(k)
          \/ \E s \in Sequencers : SetTrustedSequencer(s)
    \/ EnableOptimisticMode
    \/ DisableOptimisticMode
    \/ \E selector \in Selectors, vkey \in AggchainVKeys \cup {NoKey} :
           \/ AddOwnedAggchainVKey(selector, vkey)
           \/ UpdateOwnedAggchainVKey(selector, vkey)
    \/ SwitchDefaultGateway

GatewayAdministration ==
    \/ \E selector \in PPSelectors :
           \/ \E vkey \in PessimisticVKeys : AddPessimisticVKeyRoute(selector, vkey)
           \/ FreezePessimisticVKeyRoute(selector)
    \/ \E selector \in Selectors :
           \/ \E vkey \in AggchainVKeys : \/ AddDefaultAggchainVKey(selector, vkey)
                                          \/ UpdateDefaultAggchainVKey(selector, vkey)
           \/ UnsetDefaultAggchainVKey(selector)

Proving ==
    \E data \in AggchainData, newRoots \in ExitRoots :
        \/ \E vkey \in PessimisticVKeys : Prove(vkey, data, newRoots)
        \/ \E ppSelector \in PPSelectors, proof \in proofs :
               VerifyPessimistic(ppSelector, data, newRoots, proof)

FEPNext ==
    \/ InitializeStep
    \/ ChainAdministration
    \/ GatewayAdministration
    \/ Proving
    \/ Tick

FEPSpec == FEPInit /\ [][FEPNext]_fepVars

-----------------------------------------------------------------------------
(***************************************************************************)
(* The recorded outputs are one chain: each was proved from the one before *)
(* it, at the block it is filed under, and took the exit roots from where  *)
(* the one before it had left them, although the checks and the record are *)
(* made in two calls of the manager (getAggchainHash, onVerifyPessimistic).*)
(***************************************************************************)
OutputsAreOneChain ==
    /\ l2Outputs # <<>> => Len(accepted) = Len(l2Outputs) - 1
    /\ \A i \in 1..Len(accepted) :
           LET about == accepted[i].proof.about
           IN /\ about.from = l2Outputs[i].outputRoot
              /\ about.to = l2Outputs[i + 1].outputRoot
              /\ about.block = l2Outputs[i + 1].l2BlockNumber
              /\ i > 1 => about.roots[1] = accepted[i - 1].proof.about.roots[2]

(***************************************************************************)
(* Outputs have growing block numbers and were never from the future: the  *)
(* L2 block is older than the L1 block that recorded it (getAggchainHash,  *)
(* computeL2Timestamp), however the interval changed in between.           *)
(***************************************************************************)
OutputsOrderedInPast ==
    \A i \in 2..Len(l2Outputs) :
        /\ l2Outputs[i - 1].l2BlockNumber < l2Outputs[i].l2BlockNumber
        /\ l2Outputs[i - 1].timestamp <= l2Outputs[i].timestamp
        /\ ComputeL2Timestamp(l2Outputs[i].l2BlockNumber) < l2Outputs[i].timestamp

(***************************************************************************)
(* The outputs are one chain of proofs, ordered and in the past, whatever  *)
(* was proved in the meantime and submitted late (getAggchainHash,         *)
(* onVerifyPessimistic).                                                   *)
(***************************************************************************)
OutputsAreHistory == OutputsAreOneChain /\ OutputsOrderedInPast

(***************************************************************************)
(* No proof is accepted twice, even one that leads from a state back to    *)
(* itself: its block number would have to be an interval ahead of itself   *)
(* (nextBlockNumber, updateSubmissionInterval).                            *)
(***************************************************************************)
NoProofReplayed ==
    \A i, j \in 1..Len(accepted) : accepted[i].proof = accepted[j].proof => i = j

(***************************************************************************)
(* A proof that is accepted is about the chain as it is at that time: one  *)
(* made before the optimistic mode, a key, the configuration or the        *)
(* sequencer changed is worth nothing, nor is one for a frozen route       *)
(* (getAggchainHash, getAggchainVKey, verifyPessimisticProof).             *)
(***************************************************************************)
NoStaleProof ==
    [][accepted' # accepted =>
          LET step == Last(accepted')
          IN /\ step.proof.about.params = params
             /\ step.proof.about.key = AggchainVKey(step.selector)
             /\ step.proof.about.key # NoKey
             /\ step.proof.about.roots[1] = lastRoots
             /\ ~pessimisticVKeyRoutes[step.ppSelector].frozen]_fepVars

(***************************************************************************)
(* The route an output was proved under still names the key it was proved  *)
(* with, so the outputs can be audited: routes are added once and frozen   *)
(* once (addPessimisticVKeyRoute, freezePessimisticVKeyRoute).             *)
(***************************************************************************)
RoutesAccountForOutputs ==
    \A i \in 1..Len(accepted) :
        pessimisticVKeyRoutes[accepted[i].ppSelector].pessimisticVKey = accepted[i].proof.vkey
=============================================================================
