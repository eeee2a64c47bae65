------------------------- MODULE AggchainFEPProofs -------------------------
(***************************************************************************)
(* The outputs of an aggchain, for any intervals, keys, modes and bounds:  *)
(* they are one chain, no proof is used twice, and no proof is used for a  *)
(* chain that is not as it was when the proof was made.                    *)
(***************************************************************************)
EXTENDS AggchainFEP, TLAPS

Roots == OutputRoots \cup {StartingOutputRoot}

Params ==
    [rollupConfigHash : ConfigHashes \cup {ZeroHash},
     aggregationVkey : AggregationVKeys \cup {ZeroHash},
     rangeVkeyCommitment : RangeVKeys \cup {ZeroHash},
     optimisticMode : BOOLEAN,
     trustedSequencer : Sequencers]

Outputs == [outputRoot : Roots, l2BlockNumber : Nat, timestamp : Nat]

Hashes == AggchainVKeys \X Roots \X Roots \X Nat \X Params

Claims == [key : AggchainVKeys, params : Params, from : Roots, to : Roots, block : Nat,
           roots : ExitRoots \X ExitRoots]

\* What the public values commit to, the strengthening behind NoStaleProof.
Commits(publicValues, about) ==
    publicValues = <<about.roots[1],
                     <<about.key, about.from, about.to, about.block, about.params>>,
                     about.roots[2]>>

Proofs ==
    {p \in [vkey : PessimisticVKeys, publicValues : ExitRoots \X Hashes \X ExitRoots,
            about : Claims] : Commits(p.publicValues, p.about)}

Acceptances == [ppSelector : PPSelectors, selector : Selectors, proof : Proofs]

TypesOK ==
    /\ initializedVersion \in 0..2
    /\ l2Outputs \in Seq(Outputs)
    /\ submissionInterval \in Nat
    /\ params \in Params
    /\ ownedAggchainVKeys \in [Selectors -> AggchainVKeys \cup {NoKey}]
    /\ defaultAggchainVKeys \in [Selectors -> AggchainVKeys \cup {NoKey}]
    /\ lastRoots \in ExitRoots
    /\ now \in Nat
    /\ proofs \subseteq Proofs
    /\ accepted \in Seq(Acceptances)

LifecycleOK ==
    /\ initializedVersion = 2 => submissionInterval > 0
    /\ initializedVersion # 2 => l2Outputs = <<>>
    /\ l2Outputs = <<>> => accepted = <<>>

\* The last proof accepted led to the roots the manager has now.
RootsOfLast ==
    accepted # <<>> => accepted[Len(accepted)].proof.about.roots[2] = lastRoots

BlocksGrow ==
    \A i, j \in 1..Len(l2Outputs) :
        i < j => l2Outputs[i].l2BlockNumber < l2Outputs[j].l2BlockNumber

RecordedBeforeNow == \A i \in 1..Len(l2Outputs) : l2Outputs[i].timestamp <= now

FEPIInv ==
    /\ TypesOK
    /\ LifecycleOK
    /\ RootsOfLast
    /\ BlocksGrow
    /\ RecordedBeforeNow
    /\ OutputsAreOneChain
    /\ OutputsOrderedInPast

-----------------------------------------------------------------------------
LEMMA SequenceEnd ==
    ASSUME NEW S, NEW s \in Seq(S), s # <<>>
    PROVE  Len(s) \in Nat \ {0} /\ Last(s) = s[Len(s)] /\ s[Len(s)] \in S
  BY DEF Last

LEMMA Appended ==
    ASSUME NEW S, NEW s \in Seq(S), NEW x \in S
    PROVE  /\ Append(s, x) \in Seq(S) /\ Len(Append(s, x)) = Len(s) + 1
           /\ Len(s) \in Nat
           /\ \A i \in 1..Len(s) : Append(s, x)[i] = s[i]
           /\ Append(s, x)[Len(s) + 1] = x
           /\ Last(Append(s, x)) = x
           /\ Append(s, x) # <<>>
  BY DEF Last

\* A proof can only be made of the chain as it is.
LEMMA MadeProof ==
    ASSUME TypesOK, l2Outputs # <<>>, NEW data \in AggchainData, NEW newRoots \in ExitRoots,
           AggchainVKey(data.selector) # NoKey, NEW vkey \in PessimisticVKeys
    PROVE  [vkey |-> vkey, publicValues |-> PublicValues(data, newRoots),
            about |-> About(data, newRoots)] \in Proofs
<1>1. /\ data.selector \in Selectors /\ data.outputRoot \in OutputRoots
      /\ data.l2BlockNumber \in Nat
  BY FEPAssumption DEF AggchainData, BlockNumbers
<1>2. AggchainVKey(data.selector) \in AggchainVKeys
  BY <1>1 DEF AggchainVKey, TypesOK
<1>3. LatestOutput.outputRoot \in Roots
  <2>1. l2Outputs[Len(l2Outputs)] \in Outputs /\ LatestOutput = l2Outputs[Len(l2Outputs)]
    BY SequenceEnd DEF LatestOutput, TypesOK
  <2> QED BY <2>1 DEF Outputs
<1>4. params \in Params /\ lastRoots \in ExitRoots /\ data.outputRoot \in Roots
  BY <1>1 DEF TypesOK, Roots
<1> DEFINE hash == <<AggchainVKey(data.selector), LatestOutput.outputRoot, data.outputRoot,
                     data.l2BlockNumber, params>>
<1>5. hash \in Hashes
  BY <1>1, <1>2, <1>3, <1>4 DEF Hashes
<1>6. PublicValues(data, newRoots) = <<lastRoots, hash, newRoots>>
  BY DEF PublicValues, AggchainHash
<1>7. PublicValues(data, newRoots) \in ExitRoots \X Hashes \X ExitRoots
  BY <1>4, <1>5, <1>6
<1>8. About(data, newRoots) \in Claims
  BY <1>1, <1>2, <1>3, <1>4 DEF About, Claims
<1>9. Commits(PublicValues(data, newRoots), About(data, newRoots))
  BY <1>6 DEF Commits, About
<1> QED BY <1>7, <1>8, <1>9 DEF Proofs

\* A proof that verifies is about the chain as it is, and about the data given.
LEMMA VerifiedIsCurrent ==
    ASSUME TypesOK, NEW data, NEW newRoots, NEW proof \in proofs, NEW ppSelector,
           Verifies(ppSelector, proof, PublicValues(data, newRoots))
    PROVE  /\ proof.about.key = AggchainVKey(data.selector)
           /\ proof.about.from = LatestOutput.outputRoot
           /\ proof.about.to = data.outputRoot
           /\ proof.about.block = data.l2BlockNumber
           /\ proof.about.params = params
           /\ proof.about.roots[1] = lastRoots
           /\ proof.about.roots[2] = newRoots
<1>1. Commits(proof.publicValues, proof.about)
  BY DEF TypesOK, Proofs
<1>2. proof.publicValues =
          <<lastRoots,
            <<AggchainVKey(data.selector), LatestOutput.outputRoot, data.outputRoot,
              data.l2BlockNumber, params>>,
            newRoots>>
  BY DEF Verifies, PublicValues, AggchainHash
<1> QED BY <1>1, <1>2 DEF Commits

-----------------------------------------------------------------------------
\* A new output extends the chain of outputs.
LEMMA VerifyPessimisticStep ==
    ASSUME FEPIInv, NEW ppSelector \in PPSelectors, NEW data \in AggchainData,
           NEW newRoots \in ExitRoots, NEW proof \in proofs,
           VerifyPessimistic(ppSelector, data, newRoots, proof)
    PROVE  FEPIInv'
<1> DEFINE n == Len(l2Outputs)
           out == Output(data.outputRoot, data.l2BlockNumber, now)
           acc == [ppSelector |-> ppSelector, selector |-> data.selector, proof |-> proof]
<1>1. /\ TypesOK /\ LifecycleOK /\ RootsOfLast /\ BlocksGrow /\ RecordedBeforeNow
      /\ OutputsAreOneChain /\ OutputsOrderedInPast
  BY DEF FEPIInv
<1>2. /\ l2Outputs # <<>> /\ AcceptsData(data)
      /\ l2Outputs' = Append(l2Outputs, out) /\ accepted' = Append(accepted, acc)
      /\ lastRoots' = newRoots
      /\ UNCHANGED <<initializedVersion, submissionInterval, params, useDefaultGateway,
                     ownedAggchainVKeys, gatewayVars, now, proofs>>
  BY DEF VerifyPessimistic, AcceptsData, OnVerifyPessimistic, environmentVars
<1>3. /\ data.selector \in Selectors /\ data.outputRoot \in Roots /\ data.l2BlockNumber \in Nat
      /\ now \in Nat /\ l2Outputs \in Seq(Outputs) /\ accepted \in Seq(Acceptances)
      /\ proof \in Proofs
  BY <1>1, FEPAssumption DEF AggchainData, BlockNumbers, Roots, TypesOK
<1>4. out \in Outputs /\ acc \in Acceptances
  BY <1>3 DEF Output, Outputs, Acceptances
<1>5. /\ n \in Nat \ {0} /\ LatestOutput = l2Outputs[n] /\ l2Outputs[n] \in Outputs
      /\ Len(accepted) = n - 1
  BY <1>1, <1>2, <1>3, SequenceEnd DEF LatestOutput, OutputsAreOneChain
<1>6. /\ out.outputRoot = data.outputRoot /\ out.l2BlockNumber = data.l2BlockNumber
      /\ out.timestamp = now /\ acc.proof = proof
  BY DEF Output
<1> HIDE DEF n, out, acc
<1>7. /\ l2Outputs' \in Seq(Outputs) /\ Len(l2Outputs') = n + 1 /\ l2Outputs' # <<>>
      /\ \A i \in 1..n : l2Outputs'[i] = l2Outputs[i]
      /\ l2Outputs'[n + 1] = out
  BY <1>2, <1>3, <1>4, Appended DEF n
<1>8. /\ accepted' \in Seq(Acceptances) /\ Len(accepted') = n
      /\ \A i \in 1..(n - 1) : accepted'[i] = accepted[i]
      /\ accepted'[n] = acc
  BY <1>2, <1>3, <1>4, <1>5, Appended
<1>9. submissionInterval \in Nat \ {0} /\ initializedVersion = 2
  BY <1>1, <1>2 DEF LifecycleOK, TypesOK
<1>10. /\ out.l2BlockNumber > l2Outputs[n].l2BlockNumber
       /\ l2Outputs[n].l2BlockNumber \in Nat /\ out.l2BlockNumber \in Nat
  <2>1. out.l2BlockNumber >= l2Outputs[n].l2BlockNumber + submissionInterval
    BY <1>2, <1>5, <1>6 DEF AcceptsData, NextBlockNumber
  <2>2. l2Outputs[n].l2BlockNumber \in Nat /\ out.l2BlockNumber \in Nat
    BY <1>3, <1>5, <1>6 DEF Outputs
  <2> QED BY <1>9, <2>1, <2>2
<1>11. TypesOK'
  BY <1>1, <1>2, <1>7, <1>8 DEF TypesOK, gatewayVars
<1>12. LifecycleOK'
  BY <1>2, <1>7, <1>9 DEF LifecycleOK
<1>13. /\ proof.about.from = l2Outputs[n].outputRoot /\ proof.about.to = out.outputRoot
       /\ proof.about.block = out.l2BlockNumber
       /\ proof.about.roots[1] = lastRoots /\ proof.about.roots[2] = newRoots
  BY <1>1, <1>5, <1>6, VerifiedIsCurrent DEF VerifyPessimistic
<1>14. RootsOfLast'
  BY <1>2, <1>6, <1>8, <1>13 DEF RootsOfLast
<1>15. RecordedBeforeNow'
  <2>1. \A i \in 1..n : l2Outputs'[i].timestamp <= now
    BY <1>1, <1>7 DEF RecordedBeforeNow, n
  <2>2. l2Outputs'[n + 1].timestamp <= now
    BY <1>3, <1>6, <1>7
  <2> QED BY <1>2, <1>5, <1>7, <2>1, <2>2 DEF RecordedBeforeNow
<1>16. BlocksGrow'
  <2>1. ASSUME NEW i \in 1..(n + 1), NEW j \in 1..(n + 1), i < j
        PROVE  l2Outputs'[i].l2BlockNumber < l2Outputs'[j].l2BlockNumber
    <3>1. i \in 1..n
      BY <1>5, <2>1
    <3>2. CASE j \in 1..n
      BY <1>1, <1>7, <2>1, <3>1, <3>2 DEF BlocksGrow, n
    <3>3. CASE j = n + 1
      <4>1. l2Outputs[i].l2BlockNumber \in Nat
        <5>1. l2Outputs[i] \in Outputs
          BY <1>3, <3>1 DEF n
        <5> QED BY <5>1 DEF Outputs
      <4>2. l2Outputs[i].l2BlockNumber <= l2Outputs[n].l2BlockNumber
        <5>1. CASE i = n
          BY <1>10, <5>1
        <5>2. CASE i < n
          <6>1. l2Outputs[i].l2BlockNumber < l2Outputs[n].l2BlockNumber
            BY <1>1, <1>5, <3>1, <5>2 DEF BlocksGrow, n
          <6> QED BY <1>10, <4>1, <6>1
        <5> QED BY <1>5, <3>1, <5>1, <5>2
      <4> QED BY <1>7, <1>10, <3>1, <3>3, <4>1, <4>2
    <3> QED BY <1>5, <2>1, <3>2, <3>3
  <2> QED BY <1>7, <2>1 DEF BlocksGrow
<1>17. OutputsAreOneChain'
  <2>1. ASSUME NEW i \in 1..n
        PROVE  /\ accepted'[i].proof.about.from = l2Outputs'[i].outputRoot
               /\ accepted'[i].proof.about.to = l2Outputs'[i + 1].outputRoot
               /\ accepted'[i].proof.about.block = l2Outputs'[i + 1].l2BlockNumber
               /\ i > 1 => accepted'[i].proof.about.roots[1]
                              = accepted'[i - 1].proof.about.roots[2]
    <3>1. CASE i < n
      <4>1. i \in 1..(n - 1) /\ i + 1 \in 1..n /\ (i > 1 => i - 1 \in 1..(n - 1))
        BY <1>5, <3>1
      <4>2. /\ accepted[i].proof.about.from = l2Outputs[i].outputRoot
            /\ accepted[i].proof.about.to = l2Outputs[i + 1].outputRoot
            /\ accepted[i].proof.about.block = l2Outputs[i + 1].l2BlockNumber
            /\ i > 1 => accepted[i].proof.about.roots[1]
                           = accepted[i - 1].proof.about.roots[2]
        BY <1>1, <1>5, <4>1 DEF OutputsAreOneChain
      <4> QED BY <1>7, <1>8, <4>1, <4>2
    <3>2. CASE i = n
      <4>1. i > 1 => /\ accepted # <<>> /\ i - 1 = Len(accepted)
                     /\ accepted'[i - 1] = accepted[Len(accepted)]
        BY <1>3, <1>5, <1>8, <3>2
      <4>2. i > 1 => accepted'[i].proof.about.roots[1] = accepted'[i - 1].proof.about.roots[2]
        BY <1>1, <1>6, <1>8, <1>13, <3>2, <4>1 DEF RootsOfLast
      <4> QED BY <1>5, <1>6, <1>7, <1>8, <1>13, <3>2, <4>2
    <3> QED BY <1>5, <3>1, <3>2
  <2>2. Len(accepted') = Len(l2Outputs') - 1
    BY <1>5, <1>7, <1>8
  <2> QED BY <1>8, <2>1, <2>2 DEF OutputsAreOneChain
<1>18. OutputsOrderedInPast'
  <2>1. ASSUME NEW i \in 2..(n + 1)
        PROVE  /\ l2Outputs'[i - 1].l2BlockNumber < l2Outputs'[i].l2BlockNumber
               /\ l2Outputs'[i - 1].timestamp <= l2Outputs'[i].timestamp
               /\ ComputeL2Timestamp(l2Outputs'[i].l2BlockNumber) < l2Outputs'[i].timestamp
    <3>1. i - 1 \in 1..n
      BY <1>5
    <3>2. CASE i \in 2..n
      BY <1>1, <1>5, <1>7, <3>1, <3>2 DEF OutputsOrderedInPast, n
    <3>3. CASE i = n + 1
      <4>1. ComputeL2Timestamp(out.l2BlockNumber) < out.timestamp
        BY <1>2, <1>6 DEF AcceptsData, InPast
      <4>2. l2Outputs[n].timestamp <= out.timestamp
        BY <1>1, <1>5, <1>6 DEF RecordedBeforeNow, n
      <4>3. i - 1 = n /\ l2Outputs'[i - 1] = l2Outputs[n] /\ l2Outputs'[i] = out
        BY <1>5, <1>7, <3>3
      <4> QED BY <1>10, <4>1, <4>2, <4>3
    <3> QED BY <1>5, <3>2, <3>3
  <2> QED BY <1>7, <2>1 DEF OutputsOrderedInPast, ComputeL2Timestamp
<1> QED BY <1>11, <1>12, <1>14, <1>15, <1>16, <1>17, <1>18 DEF FEPIInv

\* Initialization records the first output, which needs no proof.
LEMMA InitializeStepKeeps ==
    ASSUME FEPIInv, InitializeStep
    PROVE  FEPIInv'
<1>1. PICK interval \in Intervals, configHash \in ConfigHashes \cup {ZeroHash},
           aggregationVkey \in AggregationVKeys \cup {ZeroHash},
           rangeVkey \in RangeVKeys \cup {ZeroHash}, sequencer \in Sequencers,
           useDefault \in BOOLEAN, selector \in Selectors, vkey \in AggchainVKeys \cup {NoKey} :
              Initialize(interval, configHash, aggregationVkey, rangeVkey, sequencer,
                         useDefault, selector, vkey)
  BY DEF InitializeStep
<1> DEFINE out == Output(StartingOutputRoot, StartingBlockNumber, StartingTimestamp)
<1>2. /\ initializedVersion \in 0..2 /\ initializedVersion # 2 /\ accepted = <<>>
      /\ StartingTimestamp <= now /\ interval \in Nat /\ interval # 0
      /\ initializedVersion' = 2 /\ l2Outputs' = <<out>> /\ submissionInterval' = interval
      /\ ownedAggchainVKeys' = [ownedAggchainVKeys EXCEPT ![selector] = vkey]
      /\ UNCHANGED <<defaultAggchainVKeys, pessimisticVKeyRoutes, lastRoots, now, proofs,
                     accepted>>
  BY <1>1, FEPAssumption DEF FEPIInv, TypesOK, LifecycleOK, Initialize, gatewayVars,
     environmentVars
<1>3. out \in Outputs /\ out.timestamp = StartingTimestamp
  BY FEPAssumption DEF Output, Outputs, Roots
<1> HIDE DEF out
<1>4. l2Outputs' \in Seq(Outputs) /\ Len(l2Outputs') = 1 /\ l2Outputs'[1] = out
      /\ l2Outputs' # <<>>
  BY <1>2, <1>3
<1>5. params' \in Params
  BY <1>1 DEF Initialize, FEPIInv, TypesOK, Params
<1>6. TypesOK'
  BY <1>2, <1>4, <1>5 DEF FEPIInv, TypesOK
<1>7. LifecycleOK' /\ RootsOfLast'
  BY <1>2, <1>4 DEF LifecycleOK, RootsOfLast
<1>8. BlocksGrow' /\ RecordedBeforeNow'
  BY <1>2, <1>3, <1>4 DEF BlocksGrow, RecordedBeforeNow
<1>9. OutputsAreOneChain' /\ OutputsOrderedInPast'
  <2>1. Len(accepted') = 0
    BY <1>2
  <2> QED BY <1>4, <2>1 DEF OutputsAreOneChain, OutputsOrderedInPast
<1> QED BY <1>6, <1>7, <1>8, <1>9 DEF FEPIInv

\* Every other step leaves the outputs and what was accepted alone.
LEMMA OutputsLeftAlone ==
    ASSUME FEPIInv, TypesOK', LifecycleOK', now' >= now,
           UNCHANGED <<l2Outputs, accepted, lastRoots>>
    PROVE  FEPIInv'
<1>1. RecordedBeforeNow'
  <2>1. ASSUME NEW i \in 1..Len(l2Outputs)
        PROVE  l2Outputs[i].timestamp <= now'
    <3>1. l2Outputs[i] \in Outputs /\ now \in Nat /\ now' \in Nat
      BY DEF FEPIInv, TypesOK
    <3>2. l2Outputs[i].timestamp \in Nat
      BY <3>1 DEF Outputs
    <3>3. l2Outputs[i].timestamp <= now
      BY DEF FEPIInv, RecordedBeforeNow
    <3> QED BY <3>1, <3>2, <3>3
  <2> QED BY <2>1 DEF RecordedBeforeNow
<1>2. RootsOfLast' /\ BlocksGrow' /\ OutputsAreOneChain'
  BY DEF FEPIInv, RootsOfLast, BlocksGrow, OutputsAreOneChain
<1>3. OutputsOrderedInPast'
  BY DEF FEPIInv, OutputsOrderedInPast, ComputeL2Timestamp
<1> QED BY <1>1, <1>2, <1>3 DEF FEPIInv

-----------------------------------------------------------------------------
LEMMA ParamsStep ==
    ASSUME FEPIInv, NEW newParams \in Params, SetParams(newParams)
    PROVE  FEPIInv'
<1>1. /\ params' = newParams
      /\ UNCHANGED <<initializedVersion, l2Outputs, submissionInterval, useDefaultGateway,
                     ownedAggchainVKeys, defaultAggchainVKeys, pessimisticVKeyRoutes, lastRoots,
                     now, proofs, accepted>>
  BY DEF SetParams, gatewayVars, environmentVars
<1>2. TypesOK' /\ LifecycleOK'
  BY <1>1 DEF FEPIInv, TypesOK, LifecycleOK
<1>3. now' >= now
  BY <1>1 DEF FEPIInv, TypesOK
<1> QED BY <1>1, <1>2, <1>3, OutputsLeftAlone

LEMMA OwnKeysStep ==
    ASSUME FEPIInv, NEW keys \in [Selectors -> AggchainVKeys \cup {NoKey}], SetOwnKeys(keys)
    PROVE  FEPIInv'
<1>1. /\ ownedAggchainVKeys' = keys
      /\ UNCHANGED <<initializedVersion, l2Outputs, submissionInterval, params,
                     useDefaultGateway, defaultAggchainVKeys, pessimisticVKeyRoutes, lastRoots,
                     now, proofs, accepted>>
  BY DEF SetOwnKeys, gatewayVars, environmentVars
<1>2. TypesOK' /\ LifecycleOK'
  BY <1>1 DEF FEPIInv, TypesOK, LifecycleOK
<1>3. now' >= now
  BY <1>1 DEF FEPIInv, TypesOK
<1> QED BY <1>1, <1>2, <1>3, OutputsLeftAlone

LEMMA DefaultKeysStep ==
    ASSUME FEPIInv, NEW keys \in [Selectors -> AggchainVKeys \cup {NoKey}],
           SetDefaultKeys(keys)
    PROVE  FEPIInv'
<1>1. /\ defaultAggchainVKeys' = keys
      /\ UNCHANGED <<initializedVersion, l2Outputs, submissionInterval, params,
                     useDefaultGateway, ownedAggchainVKeys, pessimisticVKeyRoutes, lastRoots,
                     now, proofs, accepted>>
  BY DEF SetDefaultKeys, chainVars, environmentVars
<1>2. TypesOK' /\ LifecycleOK'
  BY <1>1 DEF FEPIInv, TypesOK, LifecycleOK
<1>3. now' >= now
  BY <1>1 DEF FEPIInv, TypesOK
<1> QED BY <1>1, <1>2, <1>3, OutputsLeftAlone

LEMMA ChainAdministrationStep ==
    ASSUME FEPIInv, ChainAdministration
    PROVE  FEPIInv'
<1> DEFINE Keys == [Selectors -> AggchainVKeys \cup {NoKey}]
<1>1. ASSUME NEW interval \in Intervals, UpdateSubmissionInterval(interval)
      PROVE  FEPIInv'
  <2>1. /\ interval \in Nat /\ interval > 0 /\ submissionInterval' = interval
        /\ UNCHANGED <<initializedVersion, l2Outputs, params, useDefaultGateway,
                       ownedAggchainVKeys, defaultAggchainVKeys, pessimisticVKeyRoutes,
                       lastRoots, now, proofs, accepted>>
    BY <1>1, FEPAssumption DEF UpdateSubmissionInterval, ValidInterval, gatewayVars,
       environmentVars
  <2>2. TypesOK' /\ LifecycleOK' /\ now' >= now
    BY <2>1 DEF FEPIInv, TypesOK, LifecycleOK
  <2> QED BY <2>1, <2>2, OutputsLeftAlone
<1>2. params \in Params /\ ownedAggchainVKeys \in Keys
  BY DEF FEPIInv, TypesOK
<1>3. ASSUME NEW h \in ConfigHashes \cup {ZeroHash}, UpdateRollupConfigHash(h)
      PROVE  FEPIInv'
  <2>1. [params EXCEPT !.rollupConfigHash = h] \in Params
    BY <1>2 DEF Params
  <2> QED BY <1>3, <2>1, ParamsStep DEF UpdateRollupConfigHash
<1>4. ASSUME NEW k \in AggregationVKeys, UpdateAggregationVkey(k)
      PROVE  FEPIInv'
  <2>1. [params EXCEPT !.aggregationVkey = k] \in Params
    BY <1>2 DEF Params
  <2> QED BY <1>4, <2>1, ParamsStep DEF UpdateAggregationVkey
<1>5. ASSUME NEW k \in RangeVKeys, UpdateRangeVkeyCommitment(k)
      PROVE  FEPIInv'
  <2>1. [params EXCEPT !.rangeVkeyCommitment = k] \in Params
    BY <1>2 DEF Params
  <2> QED BY <1>5, <2>1, ParamsStep DEF UpdateRangeVkeyCommitment
<1>6. ASSUME NEW sequencer \in Sequencers, SetTrustedSequencer(sequencer)
      PROVE  FEPIInv'
  <2>1. [params EXCEPT !.trustedSequencer = sequencer] \in Params
    BY <1>2 DEF Params
  <2> QED BY <1>6, <2>1, ParamsStep DEF SetTrustedSequencer
<1>7. CASE EnableOptimisticMode \/ DisableOptimisticMode
  <2>1. /\ [params EXCEPT !.optimisticMode = TRUE] \in Params
        /\ [params EXCEPT !.optimisticMode = FALSE] \in Params
    BY <1>2 DEF Params
  <2> QED BY <1>7, <2>1, ParamsStep DEF EnableOptimisticMode, DisableOptimisticMode
<1>8. ASSUME NEW selector \in Selectors, NEW vkey \in AggchainVKeys \cup {NoKey},
             \/ AddOwnedAggchainVKey(selector, vkey)
             \/ UpdateOwnedAggchainVKey(selector, vkey)
      PROVE  FEPIInv'
  <2>1. [ownedAggchainVKeys EXCEPT ![selector] = vkey] \in Keys
    BY <1>2
  <2> QED BY <1>8, <2>1, OwnKeysStep DEF AddOwnedAggchainVKey, UpdateOwnedAggchainVKey
<1>9. CASE SwitchDefaultGateway
  <2>1. UNCHANGED <<initializedVersion, l2Outputs, submissionInterval, params,
                    ownedAggchainVKeys, defaultAggchainVKeys, pessimisticVKeyRoutes, lastRoots,
                    now, proofs, accepted>>
    BY <1>9 DEF SwitchDefaultGateway, gatewayVars, environmentVars
  <2>2. TypesOK' /\ LifecycleOK' /\ now' >= now
    BY <2>1 DEF FEPIInv, TypesOK, LifecycleOK
  <2> QED BY <2>1, <2>2, OutputsLeftAlone
<1> QED BY <1>1, <1>3, <1>4, <1>5, <1>6, <1>7, <1>8, <1>9 DEF ChainAdministration

LEMMA GatewayAdministrationStep ==
    ASSUME FEPIInv, GatewayAdministration
    PROVE  FEPIInv'
<1>1. ASSUME NEW selector \in PPSelectors, NEW route, SetRoute(selector, route)
      PROVE  FEPIInv'
  <2>1. UNCHANGED <<initializedVersion, l2Outputs, submissionInterval, params,
                    useDefaultGateway, ownedAggchainVKeys, defaultAggchainVKeys, lastRoots,
                    now, proofs, accepted>>
    BY <1>1 DEF SetRoute, chainVars, environmentVars
  <2>2. TypesOK' /\ LifecycleOK' /\ now' >= now
    BY <2>1 DEF FEPIInv, TypesOK, LifecycleOK
  <2> QED BY <2>1, <2>2, OutputsLeftAlone
<1>2. ASSUME NEW selector \in PPSelectors,
             \/ \E vkey \in PessimisticVKeys : AddPessimisticVKeyRoute(selector, vkey)
             \/ FreezePessimisticVKeyRoute(selector)
      PROVE  FEPIInv'
  BY <1>1, <1>2 DEF AddPessimisticVKeyRoute, FreezePessimisticVKeyRoute
<1>3. ASSUME NEW selector \in Selectors, NEW vkey \in AggchainVKeys \cup {NoKey},
             SetDefaultKeys([defaultAggchainVKeys EXCEPT ![selector] = vkey])
      PROVE  FEPIInv'
  <2>1. [defaultAggchainVKeys EXCEPT ![selector] = vkey]
            \in [Selectors -> AggchainVKeys \cup {NoKey}]
    BY DEF FEPIInv, TypesOK
  <2> QED BY <1>3, <2>1, DefaultKeysStep
<1>4. ASSUME NEW selector \in Selectors,
             \/ \E vkey \in AggchainVKeys : \/ AddDefaultAggchainVKey(selector, vkey)
                                           \/ UpdateDefaultAggchainVKey(selector, vkey)
             \/ UnsetDefaultAggchainVKey(selector)
      PROVE  FEPIInv'
  BY <1>3, <1>4 DEF AddDefaultAggchainVKey, UpdateDefaultAggchainVKey, UnsetDefaultAggchainVKey
<1> QED BY <1>2, <1>4 DEF GatewayAdministration

LEMMA ProveStep ==
    ASSUME FEPIInv, NEW data \in AggchainData, NEW newRoots \in ExitRoots,
           NEW vkey \in PessimisticVKeys, Prove(vkey, data, newRoots)
    PROVE  FEPIInv'
<1> DEFINE made == [vkey |-> vkey, publicValues |-> PublicValues(data, newRoots),
                    about |-> About(data, newRoots)]
<1>1. /\ l2Outputs # <<>> /\ AggchainVKey(data.selector) # NoKey /\ TypesOK
      /\ \E kept \in SUBSET proofs : proofs' = kept \cup {made}
      /\ UNCHANGED <<initializedVersion, l2Outputs, submissionInterval, params,
                     useDefaultGateway, ownedAggchainVKeys, defaultAggchainVKeys,
                     pessimisticVKeyRoutes, lastRoots, now, accepted>>
  BY DEF Prove, chainVars, gatewayVars, FEPIInv
<1>2. made \in Proofs
  BY <1>1, MadeProof
<1> HIDE DEF made
<1>3. proofs' \subseteq Proofs
  BY <1>1, <1>2 DEF TypesOK
<1>4. TypesOK' /\ LifecycleOK' /\ now' >= now
  BY <1>1, <1>3 DEF FEPIInv, TypesOK, LifecycleOK
<1> QED BY <1>1, <1>4, OutputsLeftAlone

LEMMA TickStep ==
    ASSUME FEPIInv, Tick
    PROVE  FEPIInv'
<1>1. /\ now' = now + 1
      /\ UNCHANGED <<initializedVersion, l2Outputs, submissionInterval, params,
                     useDefaultGateway, ownedAggchainVKeys, defaultAggchainVKeys,
                     pessimisticVKeyRoutes, lastRoots, proofs, accepted>>
  BY DEF Tick, chainVars, gatewayVars
<1>2. TypesOK' /\ LifecycleOK' /\ now' >= now
  BY <1>1 DEF FEPIInv, TypesOK, LifecycleOK
<1> QED BY <1>1, <1>2, OutputsLeftAlone

LEMMA FEPIInvInit == FEPInit => FEPIInv
<1> SUFFICES ASSUME FEPInit PROVE FEPIInv
  OBVIOUS
<1>1. /\ initializedVersion \in {0, 1} /\ l2Outputs = <<>> /\ submissionInterval = 0
      /\ ownedAggchainVKeys = [s \in Selectors |-> NoKey]
      /\ defaultAggchainVKeys = [s \in Selectors |-> NoKey]
      /\ lastRoots \in ExitRoots /\ now = StartingTimestamp /\ proofs = {}
      /\ accepted = <<>>
  BY DEF FEPInit
<1>2. params \in Params
  BY DEF FEPInit, Params
<1>3. TypesOK
  BY <1>1, <1>2, FEPAssumption DEF TypesOK
<1>4. LifecycleOK /\ RootsOfLast
  BY <1>1 DEF LifecycleOK, RootsOfLast
<1>5. Len(l2Outputs) = 0 /\ Len(accepted) = 0
  BY <1>1
<1>6. /\ BlocksGrow /\ RecordedBeforeNow /\ OutputsAreOneChain /\ OutputsOrderedInPast
  BY <1>1, <1>5 DEF BlocksGrow, RecordedBeforeNow, OutputsAreOneChain, OutputsOrderedInPast
<1> QED BY <1>3, <1>4, <1>6 DEF FEPIInv

LEMMA FEPIInvStep == FEPIInv /\ [FEPNext]_fepVars => FEPIInv'
<1> SUFFICES ASSUME FEPIInv, [FEPNext]_fepVars PROVE FEPIInv'
  OBVIOUS
<1>1. CASE Proving
  BY <1>1, ProveStep, VerifyPessimisticStep DEF Proving, VerifyPessimistic
<1>2. CASE UNCHANGED fepVars
  <2>1. UNCHANGED <<initializedVersion, l2Outputs, submissionInterval, params,
                    useDefaultGateway, ownedAggchainVKeys, defaultAggchainVKeys,
                    pessimisticVKeyRoutes, lastRoots, now, proofs, accepted>>
    BY <1>2 DEF fepVars, chainVars, gatewayVars, environmentVars
  <2>2. TypesOK' /\ LifecycleOK' /\ now' >= now
    BY <2>1 DEF FEPIInv, TypesOK, LifecycleOK
  <2> QED BY <2>1, <2>2, OutputsLeftAlone
<1> QED BY <1>1, <1>2, InitializeStepKeeps, ChainAdministrationStep, GatewayAdministrationStep,
           TickStep DEF FEPNext

(***************************************************************************)
(* The invariant that carries the theorems below: types, the interval that *)
(* is never zero, public values that commit to what a proof is about, and  *)
(* the chain of outputs (initialize, updateSubmissionInterval, getAggchain-*)
(* Hash, onVerifyPessimistic).                                             *)
(***************************************************************************)
THEOREM OutputsInvariant == FEPSpec => []FEPIInv
  BY FEPIInvInit, FEPIInvStep, PTL DEF FEPSpec

(***************************************************************************)
(* For any intervals, keys, modes and interleaving of proofs and           *)
(* administration, every recorded output was proved from the one before    *)
(* it, for the block it is filed under, and starts from the exit roots its *)
(* predecessor left (getAggchainHash, onVerifyPessimistic).                *)
(***************************************************************************)
THEOREM OutputsFormOneChain == FEPSpec => []OutputsAreOneChain
<1>1. FEPIInv => OutputsAreOneChain
  BY DEF FEPIInv
<1> QED BY <1>1, OutputsInvariant, PTL

(***************************************************************************)
(* Block numbers grow from output to output and no output was from the     *)
(* future when it was recorded, whatever the intervals were                *)
(* (getAggchainHash, computeL2Timestamp).                                  *)
(***************************************************************************)
THEOREM OutputsGrowInPast == FEPSpec => []OutputsOrderedInPast
<1>1. FEPIInv => OutputsOrderedInPast
  BY DEF FEPIInv
<1> QED BY <1>1, OutputsInvariant, PTL

(***************************************************************************)
(* Whatever is proved in the meantime and submitted late, the outputs are  *)
(* one chain of proofs, ordered and in the past (onVerifyPessimistic).     *)
(***************************************************************************)
THEOREM OutputsStayHistory == FEPSpec => []OutputsAreHistory
<1>1. OutputsAreOneChain /\ OutputsOrderedInPast => OutputsAreHistory
  BY DEF OutputsAreHistory
<1> QED BY <1>1, OutputsFormOneChain, OutputsGrowInPast, PTL

(***************************************************************************)
(* No proof is accepted twice: the block it commits to is that of its      *)
(* output, and those differ (nextBlockNumber, onVerifyPessimistic).        *)
(***************************************************************************)
THEOREM ProofsUsedOnce == FEPSpec => []NoProofReplayed
<1>1. FEPIInv => NoProofReplayed
  <2> SUFFICES ASSUME FEPIInv, NEW i \in 1..Len(accepted), NEW j \in 1..Len(accepted),
                      accepted[i].proof = accepted[j].proof
               PROVE  i = j
    BY DEF NoProofReplayed
  <2>1. /\ l2Outputs \in Seq(Outputs) /\ Len(l2Outputs) \in Nat /\ accepted # <<>>
    BY DEF FEPIInv, TypesOK
  <2>2. l2Outputs # <<>> /\ Len(accepted) = Len(l2Outputs) - 1
    BY <2>1 DEF FEPIInv, LifecycleOK, OutputsAreOneChain
  <2>3. l2Outputs[i + 1].l2BlockNumber = l2Outputs[j + 1].l2BlockNumber
    BY DEF FEPIInv, OutputsAreOneChain
  <2>4. /\ i + 1 \in 1..Len(l2Outputs) /\ j + 1 \in 1..Len(l2Outputs)
    BY <2>1, <2>2
  <2>5. l2Outputs[i + 1] \in Outputs /\ l2Outputs[j + 1] \in Outputs
    BY <2>1, <2>4
  <2>6. l2Outputs[i + 1].l2BlockNumber \in Nat
    BY <2>5 DEF Outputs
  <2>7. /\ i + 1 < j + 1 => l2Outputs[i + 1].l2BlockNumber < l2Outputs[j + 1].l2BlockNumber
        /\ j + 1 < i + 1 => l2Outputs[j + 1].l2BlockNumber < l2Outputs[i + 1].l2BlockNumber
    BY <2>4 DEF FEPIInv, BlocksGrow
  <2> QED BY <2>3, <2>6, <2>7
<1> QED BY <1>1, OutputsInvariant, PTL

-----------------------------------------------------------------------------
LEMMA OnlyVerificationAccepts ==
    ASSUME FEPNext, accepted' # accepted
    PROVE  \E ppSelector \in PPSelectors, data \in AggchainData, newRoots \in ExitRoots,
              proof \in proofs : VerifyPessimistic(ppSelector, data, newRoots, proof)
<1>1. ~InitializeStep
  BY DEF InitializeStep, Initialize
<1>2. ~ChainAdministration
  BY DEF ChainAdministration, UpdateSubmissionInterval, UpdateRollupConfigHash,
     UpdateAggregationVkey, UpdateRangeVkeyCommitment, SetTrustedSequencer, EnableOptimisticMode,
     DisableOptimisticMode, AddOwnedAggchainVKey, UpdateOwnedAggchainVKey, SwitchDefaultGateway,
     SetParams, SetOwnKeys
<1>3. ~GatewayAdministration
  BY DEF GatewayAdministration, AddPessimisticVKeyRoute, FreezePessimisticVKeyRoute,
     AddDefaultAggchainVKey, UpdateDefaultAggchainVKey, UnsetDefaultAggchainVKey,
     SetRoute, SetDefaultKeys
<1>4. ~Tick
  BY DEF Tick
<1> QED BY <1>1, <1>2, <1>3, <1>4 DEF FEPNext, Proving, Prove

LEMMA AcceptedIsCurrent ==
    ASSUME FEPIInv, FEPNext, accepted' # accepted
    PROVE  /\ Last(accepted').proof.about.params = params
           /\ Last(accepted').proof.about.key = AggchainVKey(Last(accepted').selector)
           /\ Last(accepted').proof.about.key # NoKey
           /\ Last(accepted').proof.about.roots[1] = lastRoots
           /\ ~pessimisticVKeyRoutes[Last(accepted').ppSelector].frozen
<1>1. PICK ppSelector \in PPSelectors, data \in AggchainData, newRoots \in ExitRoots,
           proof \in proofs : VerifyPessimistic(ppSelector, data, newRoots, proof)
  BY OnlyVerificationAccepts
<1> DEFINE acc == [ppSelector |-> ppSelector, selector |-> data.selector, proof |-> proof]
<1>2. acc \in Acceptances /\ accepted \in Seq(Acceptances)
  BY DEF FEPIInv, TypesOK, Acceptances, AggchainData
<1>3. Last(accepted') = acc
  <2>1. accepted' = Append(accepted, acc)
    BY <1>1 DEF VerifyPessimistic
  <2> HIDE DEF acc
  <2> QED BY <1>2, <2>1, Appended
<1>4. /\ proof.about.key = AggchainVKey(data.selector)
      /\ proof.about.params = params /\ proof.about.roots[1] = lastRoots
  BY <1>1, VerifiedIsCurrent DEF FEPIInv, VerifyPessimistic
<1>5. AggchainVKey(data.selector) # NoKey /\ ~pessimisticVKeyRoutes[ppSelector].frozen
  BY <1>1 DEF VerifyPessimistic, AcceptsData, Verifies
<1> QED BY <1>3, <1>4, <1>5

(***************************************************************************)
(* A proof that is accepted is about the chain as it is: its mode, keys,   *)
(* configuration, sequencer and exit roots, under a route that is not      *)
(* frozen (getAggchainHash, getAggchainVKey, verifyPessimisticProof).      *)
(***************************************************************************)
THEOREM ProofsAreCurrent == FEPSpec => NoStaleProof
<1>1. FEPIInv /\ [FEPNext]_fepVars =>
          [accepted' # accepted =>
              LET step == Last(accepted')
              IN /\ step.proof.about.params = params
                 /\ step.proof.about.key = AggchainVKey(step.selector)
                 /\ step.proof.about.key # NoKey
                 /\ step.proof.about.roots[1] = lastRoots
                 /\ ~pessimisticVKeyRoutes[step.ppSelector].frozen]_fepVars
  BY AcceptedIsCurrent
<1> QED BY <1>1, OutputsInvariant, PTL DEF FEPSpec, NoStaleProof
-----------------------------------------------------------------------------
Routes == [verifier : BOOLEAN, pessimisticVKey : PessimisticVKeys \cup {NoKey},
           frozen : BOOLEAN]

\* What keeps a used route from being given another key: it has a verifier.
RoutesOK ==
    /\ pessimisticVKeyRoutes \in [PPSelectors -> Routes]
    /\ \A i \in 1..Len(accepted) :
           /\ pessimisticVKeyRoutes[accepted[i].ppSelector].verifier
           /\ pessimisticVKeyRoutes[accepted[i].ppSelector].pessimisticVKey
                  = accepted[i].proof.vkey

LEMMA RoutesInit == FEPInit => RoutesOK
<1> SUFFICES ASSUME FEPInit PROVE RoutesOK
  OBVIOUS
<1>1. PICK selector \in PPSelectors, vkey \in PessimisticVKeys :
          pessimisticVKeyRoutes =
              [s \in PPSelectors |-> IF s = selector THEN NewRoute(vkey) ELSE NoRoute]
  BY DEF FEPInit
<1>2. NewRoute(vkey) \in Routes /\ NoRoute \in Routes
  BY DEF NewRoute, NoRoute, Routes
<1>3. Len(accepted) = 0
  BY DEF FEPInit
<1> QED BY <1>1, <1>2, <1>3 DEF RoutesOK

\* A route that is set keeps the key and the verifier of a route in use.
LEMMA SetRouteKeepsUsed ==
    ASSUME FEPIInv, RoutesOK, NEW selector \in PPSelectors, NEW route \in Routes,
           SetRoute(selector, route),
           pessimisticVKeyRoutes[selector].verifier =>
               /\ route.verifier
               /\ route.pessimisticVKey = pessimisticVKeyRoutes[selector].pessimisticVKey
    PROVE  RoutesOK'
<1>1. /\ pessimisticVKeyRoutes' = [pessimisticVKeyRoutes EXCEPT ![selector] = route]
      /\ accepted' = accepted
  BY DEF SetRoute
<1>2. pessimisticVKeyRoutes' \in [PPSelectors -> Routes]
  BY <1>1 DEF RoutesOK
<1>3. ASSUME NEW i \in 1..Len(accepted)
      PROVE  /\ pessimisticVKeyRoutes'[accepted[i].ppSelector].verifier
             /\ pessimisticVKeyRoutes'[accepted[i].ppSelector].pessimisticVKey
                    = accepted[i].proof.vkey
  <2>1. accepted[i] \in Acceptances
    BY DEF FEPIInv, TypesOK
  <2>2. accepted[i].ppSelector \in PPSelectors
    BY <2>1 DEF Acceptances
  <2>3. /\ pessimisticVKeyRoutes[accepted[i].ppSelector].verifier
        /\ pessimisticVKeyRoutes[accepted[i].ppSelector].pessimisticVKey
               = accepted[i].proof.vkey
    BY DEF RoutesOK
  <2>4. CASE accepted[i].ppSelector = selector
    <3>1. pessimisticVKeyRoutes'[accepted[i].ppSelector] = route
      BY <1>1, <2>4 DEF RoutesOK
    <3> QED BY <2>3, <2>4, <3>1
  <2>5. CASE accepted[i].ppSelector # selector
    <3>1. pessimisticVKeyRoutes'[accepted[i].ppSelector]
              = pessimisticVKeyRoutes[accepted[i].ppSelector]
      BY <1>1, <2>2, <2>5 DEF RoutesOK
    <3> QED BY <2>3, <3>1
  <2> QED BY <2>4, <2>5
<1> QED BY <1>1, <1>2, <1>3 DEF RoutesOK

LEMMA OnlyGatewaySetsRoutes ==
    ASSUME FEPNext, pessimisticVKeyRoutes' # pessimisticVKeyRoutes
    PROVE  \E selector \in PPSelectors :
               \/ \E vkey \in PessimisticVKeys : AddPessimisticVKeyRoute(selector, vkey)
               \/ FreezePessimisticVKeyRoute(selector)
<1>1. ~InitializeStep
  BY DEF InitializeStep, Initialize, gatewayVars
<1>2. ~ChainAdministration
  BY DEF ChainAdministration, UpdateSubmissionInterval, UpdateRollupConfigHash,
     UpdateAggregationVkey, UpdateRangeVkeyCommitment, SetTrustedSequencer, EnableOptimisticMode,
     DisableOptimisticMode, AddOwnedAggchainVKey, UpdateOwnedAggchainVKey, SwitchDefaultGateway,
     SetParams, SetOwnKeys, gatewayVars
<1>3. ~Proving
  BY DEF Proving, Prove, VerifyPessimistic, gatewayVars
<1>4. ~Tick
  BY DEF Tick, gatewayVars
<1>5. GatewayAdministration
  BY <1>1, <1>2, <1>3, <1>4 DEF FEPNext
<1> QED BY <1>5 DEF GatewayAdministration, AddDefaultAggchainVKey, UpdateDefaultAggchainVKey,
           UnsetDefaultAggchainVKey, SetDefaultKeys

LEMMA RoutesStep == FEPIInv /\ RoutesOK /\ [FEPNext]_fepVars => RoutesOK'
<1> SUFFICES ASSUME FEPIInv, RoutesOK, [FEPNext]_fepVars PROVE RoutesOK'
  OBVIOUS
<1>1. CASE pessimisticVKeyRoutes' = pessimisticVKeyRoutes /\ accepted' = accepted
  BY <1>1 DEF RoutesOK
<1>2. CASE FEPNext /\ pessimisticVKeyRoutes' # pessimisticVKeyRoutes
  <2>1. ASSUME NEW selector \in PPSelectors, NEW vkey \in PessimisticVKeys,
               AddPessimisticVKeyRoute(selector, vkey)
        PROVE  RoutesOK'
    <3>1. NewRoute(vkey) \in Routes
      BY DEF NewRoute, Routes
    <3>2. /\ ~pessimisticVKeyRoutes[selector].verifier
          /\ SetRoute(selector, NewRoute(vkey))
      BY <2>1 DEF AddPessimisticVKeyRoute
    <3> QED BY <3>1, <3>2, SetRouteKeepsUsed
  <2>2. ASSUME NEW selector \in PPSelectors, FreezePessimisticVKeyRoute(selector)
        PROVE  RoutesOK'
    <3> DEFINE route == [pessimisticVKeyRoutes[selector] EXCEPT !.frozen = TRUE]
    <3>1. pessimisticVKeyRoutes[selector] \in Routes
      BY DEF RoutesOK
    <3>2. /\ route \in Routes
          /\ route.verifier = pessimisticVKeyRoutes[selector].verifier
          /\ route.pessimisticVKey = pessimisticVKeyRoutes[selector].pessimisticVKey
      BY <3>1 DEF Routes
    <3>3. SetRoute(selector, route)
      BY <2>2 DEF FreezePessimisticVKeyRoute
    <3> HIDE DEF route
    <3> QED BY <3>2, <3>3, SetRouteKeepsUsed
  <2> QED BY <1>2, <2>1, <2>2, OnlyGatewaySetsRoutes
<1>3. CASE FEPNext /\ accepted' # accepted
  <2>1. PICK ppSelector \in PPSelectors, data \in AggchainData, newRoots \in ExitRoots,
             proof \in proofs : VerifyPessimistic(ppSelector, data, newRoots, proof)
    BY <1>3, OnlyVerificationAccepts
  <2> DEFINE acc == [ppSelector |-> ppSelector, selector |-> data.selector, proof |-> proof]
  <2>2. acc \in Acceptances /\ accepted \in Seq(Acceptances)
    BY DEF FEPIInv, TypesOK, Acceptances, AggchainData
  <2>3. /\ accepted' = Append(accepted, acc)
        /\ pessimisticVKeyRoutes' = pessimisticVKeyRoutes
        /\ pessimisticVKeyRoutes[acc.ppSelector].verifier
        /\ pessimisticVKeyRoutes[acc.ppSelector].pessimisticVKey = acc.proof.vkey
    BY <2>1 DEF VerifyPessimistic, Verifies, gatewayVars
  <2> HIDE DEF acc
  <2>4. /\ Len(accepted') = Len(accepted) + 1 /\ Len(accepted) \in Nat
        /\ \A i \in 1..Len(accepted) : accepted'[i] = accepted[i]
        /\ accepted'[Len(accepted) + 1] = acc
    BY <2>2, <2>3, Appended
  <2> SUFFICES ASSUME NEW i \in 1..(Len(accepted) + 1)
               PROVE  /\ pessimisticVKeyRoutes[accepted'[i].ppSelector].verifier
                      /\ pessimisticVKeyRoutes[accepted'[i].ppSelector].pessimisticVKey
                             = accepted'[i].proof.vkey
    BY <2>3, <2>4 DEF RoutesOK
  <2>5. i \in 1..Len(accepted) \/ i = Len(accepted) + 1
    BY <2>4
  <2> QED BY <2>3, <2>4, <2>5 DEF RoutesOK
<1> QED BY <1>1, <1>2, <1>3 DEF fepVars, gatewayVars

(***************************************************************************)
(* For any outputs, keys and routes, the route an output was proved under  *)
(* still names the key it was proved with: a route that was used has a     *)
(* verifier, so it cannot be added again, and freezing leaves its key      *)
(* (addPessimisticVKeyRoute, freezePessimisticVKeyRoute).                  *)
(***************************************************************************)
THEOREM RoutesStayAuditable == FEPSpec => []RoutesAccountForOutputs
<1>1. FEPIInv /\ RoutesOK /\ [FEPNext]_fepVars => RoutesOK'
  BY RoutesStep
<1>2. RoutesOK => RoutesAccountForOutputs
  BY DEF RoutesOK, RoutesAccountForOutputs
<1> QED BY <1>1, <1>2, RoutesInit, OutputsInvariant, PTL DEF FEPSpec
=============================================================================
