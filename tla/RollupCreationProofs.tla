------------------------ MODULE RollupCreationProofs ------------------------
(***************************************************************************)
(* The scripts that attach rollups, for any parameter files, any number of *)
(* scripts at once and of types, runs and crashes: what a script knows at  *)
(* each of its calls, the files it writes, and the geneses among them.     *)
(***************************************************************************)
EXTENDS RollupCreation, SumProofs, SequenceTheorems

Consensuses == Aggchains \cup Legacy
Chains      == {plan.chain : plan \in Plans}
Owners      == {plan.owner : plan \in Plans}
Tokens      == {Zero, Origin} \cup {plan.gasToken : plan \in Plans}
Impls       == (Procs \X Nat \X Consensuses) \cup Seq(STRING)

TypeEntries == [consensus : Consensuses, verifierType : VerifierTypes, impl : Impls]

RollupEntries ==
    [chain : Chains, impl : Impls, consensus : Consensuses, verifierType : VerifierTypes,
     owner : Owners, version : 0..2, gasToken : Tokens,
     committee : [of : Nat, late : BOOLEAN]]

\* The parameter files written to repair an aggchain.
RepairPlans ==
    [tool : {"initializeRollup"}, type : {"EOA", "Multisig"}, consensus : Consensuses,
     chain : Chains, owner : Owners, gasToken : {Zero}, selector : Seq(Consensuses)]

Runs ==
    [step : Nat, plan : Plans \cup RepairPlans \cup {NoPlan}, address : Nat, typeID : Nat,
     own : Nat, impl : Impls, disturbed : BOOLEAN]

PreparedCalls ==
    [plan : Plans \cup RepairPlans, target : {"manager", "aggchain"}, impl : Impls,
     address : Nat]

TypesOK ==
    /\ types \in Seq(TypeEntries)
    /\ rollups \in Seq(RollupEntries) /\ Len(rollups) <= MaxRollups
    /\ \A op \in prepared : op \in PreparedCalls
    /\ procs \in [Procs -> Runs]
    /\ budget \in [starts : Nat, crashes : Nat]

\* attachAggchainToAL refuses a chain id that is taken.
ChainsOK ==
    \A i, j \in DOMAIN rollups : rollups[i].chain = rollups[j].chain => i = j

CommitteesOK ==
    \A id \in DOMAIN rollups :
        rollups[id].committee.late \/ rollups[id].committee.of \in {0, id}

\* Where in its script a run that creates a rollup has the calls that the
\* later ones rely on.
TypeAt(plan)   == IF plan.tool = "createRollup" THEN 6 ELSE 1
NonceAt(plan)  == IF plan.tool = "createRollup" THEN 4 ELSE 3
AttachAt(plan) == IF plan.tool = "createRollup" THEN 7 ELSE 5
ExpectAt(plan) == IF plan.tool = "createRollup" THEN 11 ELSE 6

\* createNewRollup knows what contract it attaches.
AsPlanned(rollup, plan) ==
    plan.tool = "createNewRollup" =>
        /\ rollup.verifierType = VerifierType(plan.consensus)
        /\ rollup.verifierType # "ALGateway" => rollup.gasToken = plan.gasToken

\* What a run that creates a rollup knows at the call it has come to.
CreationOK(run) ==
    LET plan == run.plan IN
    /\ (plan.tool = "createRollup" /\ run.step = 6) => types # << >>
    /\ run.step > TypeAt(plan) =>
          /\ run.typeID \in DOMAIN types
          /\ plan.tool = "createNewRollup" =>
                types[run.typeID].verifierType = VerifierType(plan.consensus)
    /\ run.step > NonceAt(plan) =>
          /\ run.address # 0
          /\ ~run.disturbed => run.address = IF run.own = 0 THEN Nonce + 1 ELSE run.own
    /\ run.step <= AttachAt(plan) => run.own = 0
    /\ run.step > AttachAt(plan) =>
          /\ run.own \in DOMAIN rollups
          /\ rollups[run.own].chain = plan.chain
          /\ rollups[run.own].impl = types[run.typeID].impl
          /\ AsPlanned(rollups[run.own], plan)
    /\ run.step > ExpectAt(plan) =>
          run.address \in DOMAIN rollups /\ rollups[run.address].impl = run.impl

RunOK(run) ==
    /\ run.step = 0 => run = Idle
    /\ run.step > 0 =>
          /\ run.plan \in Plans \cup RepairPlans
          /\ run.step <= Len(Script(run.plan))
          /\ CreatesRollup(run.plan) => CreationOK(run)

\* What a file says of the chain stays so.
OutputsOK ==
    \A out \in outputs :
        /\ out.tool = out.plan.tool /\ out.gas = Resolve(out.plan.gasToken)
        /\ CreatesRollup(out.plan) =>
              /\ out.typeID \in DOMAIN types
              /\ {out.rollupID, out.address} \subseteq DOMAIN rollups
              /\ AsPlanned(rollups[out.rollupID], out.plan)

CreationIInv ==
    /\ TypesOK /\ ChainsOK /\ CommitteesOK
    /\ \A p \in Procs : RunOK(procs[p])
    /\ OutputsOK /\ OutputNamesItsRollup /\ GenesisFitsL1

-----------------------------------------------------------------------------
(* The calls of a script.                                                  *)

\* The next call is the first one after i that the run makes.
LEMMA NextStepIsLeast ==
    ASSUME NEW plan, NEW i \in Nat, NEW j \in (i + 1)..Len(Script(plan)),
           Applies(Script(plan)[j], plan), Len(Script(plan)) \in Nat
    PROVE  /\ NextStep(plan, i) \in (i + 1)..j
           /\ NextStep(plan, i) <= Len(Script(plan))
           /\ Applies(Script(plan)[NextStep(plan, i)], plan)
<1> DEFINE Due == {k \in (i + 1)..Len(Script(plan)) : Applies(Script(plan)[k], plan)}
<1>1. PICK n \in Due : \A k \in Due : n <= k
  <2>1. Due \in SUBSET Nat /\ j \in Due
    OBVIOUS
  <2> HIDE DEF Due
  <2> QED BY <2>1, LeastElement
<1> DEFINE Q(k) == /\ Applies(Script(plan)[k], plan)
                   /\ \A m \in (i + 1)..(k - 1) : ~Applies(Script(plan)[m], plan)
<1>2. n \in (i + 1)..Len(Script(plan)) /\ Q(n)
  BY <1>1
<1>3. NextStep(plan, i) = CHOOSE k \in (i + 1)..Len(Script(plan)) : Q(k)
  BY DEF NextStep
<1>4. NextStep(plan, i) \in (i + 1)..Len(Script(plan)) /\ Q(NextStep(plan, i))
  BY <1>2, <1>3
<1>5. NextStep(plan, i) <= j
  BY <1>4
<1> QED BY <1>4, <1>5

\* A script ends with a call that every run makes.
LEMMA ScriptsEnd ==
    ASSUME NEW plan, plan.tool \in Tools
    PROVE  /\ Len(Script(plan)) \in Nat \ {0}
           /\ Applies(Script(plan)[Len(Script(plan))], plan)
<1>1. CASE plan.tool = "createRollup"
  BY <1>1 DEF Script, Applies
<1>2. CASE plan.tool = "createNewRollup"
  BY <1>2 DEF Script, Applies
<1>3. CASE plan.tool = "addRollupType"
  BY <1>3 DEF Script, Applies
<1>4. CASE plan.tool = "initializeRollup"
  BY <1>4 DEF Script, Applies
<1>5. CASE plan.tool = "createSovereignGenesis"
  BY <1>5 DEF Script, Applies
<1> QED BY <1>1, <1>2, <1>3, <1>4, <1>5 DEF Tools

\* Where the calls are in the scripts that create a rollup.
LEMMA CreationCalls ==
    ASSUME NEW plan, CreatesRollup(plan), NEW i \in 1..Len(Script(plan))
    PROVE  /\ plan.tool = "createRollup" => Len(Script(plan)) = 12
           /\ plan.tool = "createNewRollup" => Len(Script(plan)) = 9
           /\ Script(plan)[i] = "nonce" <=> i = NonceAt(plan)
           /\ Script(plan)[i] = "attach" <=> i = AttachAt(plan)
           /\ Script(plan)[i] = "expect" <=> i = ExpectAt(plan)
           /\ Script(plan)[i] \in {"typeKind", "typeCount"} <=> i = TypeAt(plan)
           /\ Script(plan)[i] = "addType" <=> (plan.tool = "createRollup" /\ i = 5)
           /\ Script(plan)[i] = "implementation" <=> (plan.tool = "createRollup" /\ i = 2)
           /\ Script(plan)[i] = "output" <=> i = Len(Script(plan))
           /\ Script(plan)[i] = "committee" => i > AttachAt(plan)
           /\ Script(plan)[i] \notin {"genesis", "contract"}
           /\ Script(plan)[i] = "typeKind" => plan.tool = "createNewRollup"
           /\ Script(plan)[i] = "typeCount" => plan.tool = "createRollup"
<1>1. CASE plan.tool = "createRollup"
  BY <1>1 DEF Script, NonceAt, AttachAt, ExpectAt, TypeAt
<1>2. CASE plan.tool = "createNewRollup"
  BY <1>2 DEF Script, NonceAt, AttachAt, ExpectAt, TypeAt
<1> QED BY <1>1, <1>2 DEF CreatesRollup

\* A run does not skip the calls the later ones rely on.
LEMMA NextCallOfCreation ==
    ASSUME NEW plan, CreatesRollup(plan), NEW i \in Nat, i < Len(Script(plan)),
           NEW n, n = NextStep(plan, i)
    PROVE  /\ n \in (i + 1)..Len(Script(plan))
           /\ n > TypeAt(plan) <=> i >= TypeAt(plan)
           /\ n > NonceAt(plan) <=> i >= NonceAt(plan)
           /\ n > AttachAt(plan) <=> i >= AttachAt(plan)
           /\ n > ExpectAt(plan) <=> i >= ExpectAt(plan)
           /\ plan.tool = "createRollup" => (n = 6 <=> i = 5)
<1>1. plan.tool \in {"createRollup", "createNewRollup"}
  BY DEF CreatesRollup
<1>2. Len(Script(plan)) \in Nat \ {0} /\ Applies(Script(plan)[Len(Script(plan))], plan)
  BY <1>1, ScriptsEnd DEF Tools
<1>3. n \in (i + 1)..Len(Script(plan))
  BY <1>2, NextStepIsLeast
<1>4. ASSUME NEW j \in (i + 1)..Len(Script(plan)), Applies(Script(plan)[j], plan)
      PROVE  n <= j
  <2>1. n \in (i + 1)..j
    BY <1>2, <1>4, NextStepIsLeast
  <2> QED BY <2>1
<1>5. CASE plan.tool = "createRollup"
  <2>1. /\ Len(Script(plan)) = 12
        /\ \A j \in {4, 5, 6, 7, 11} : Applies(Script(plan)[j], plan)
    BY <1>5 DEF Script, Applies
  <2>2. \A j \in {4, 5, 6, 7, 11} : i < j => n <= j
    BY <1>4, <2>1
  <2>3. n \in Nat /\ n <= 12 /\ n >= i + 1
    BY <1>3, <2>1
  <2> QED BY <1>3, <1>5, <2>1, <2>2, <2>3 DEF TypeAt, NonceAt, AttachAt, ExpectAt
<1>6. CASE plan.tool = "createNewRollup"
  <2>1. /\ Len(Script(plan)) = 9
        /\ \A j \in {1, 3, 5, 6} : Applies(Script(plan)[j], plan)
    BY <1>6 DEF Script, Applies
  <2>2. \A j \in {1, 3, 5, 6} : i < j => n <= j
    BY <1>4, <2>1
  <2>3. n \in Nat /\ n <= 9 /\ n >= i + 1
    BY <1>3, <2>1
  <2> QED BY <1>3, <1>6, <2>1, <2>2, <2>3 DEF TypeAt, NonceAt, AttachAt, ExpectAt
<1> QED BY <1>1, <1>5, <1>6

-----------------------------------------------------------------------------
(* A run goes on.                                                          *)

\* The run after its call, with what it has read.
Advanced(run) == [run EXCEPT !.step = NextStep(run.plan, run.step)]

LEMMA PlansHaveTools ==
    ASSUME NEW plan \in Plans \cup RepairPlans
    PROVE  plan.tool \in Tools /\ plan.consensus \in Consensuses
  BY CreationAssumption DEF RepairPlans, Tools, Consensuses

LEMMA AdvancedFields ==
    ASSUME NEW run \in Runs, run.plan \in Plans \cup RepairPlans,
           run.step < Len(Script(run.plan))
    PROVE  /\ Advanced(run) \in Runs
           /\ Advanced(run).step = NextStep(run.plan, run.step)
           /\ Advanced(run).step \in (run.step + 1)..Len(Script(run.plan))
           /\ Advanced(run).plan = run.plan /\ Advanced(run).address = run.address
           /\ Advanced(run).typeID = run.typeID /\ Advanced(run).own = run.own
           /\ Advanced(run).impl = run.impl /\ Advanced(run).disturbed = run.disturbed
<1>1. run.step \in Nat
  BY DEF Runs
<1>2. NextStep(run.plan, run.step) \in (run.step + 1)..Len(Script(run.plan))
  <2>1. /\ Len(Script(run.plan)) \in Nat \ {0}
        /\ Applies(Script(run.plan)[Len(Script(run.plan))], run.plan)
    BY PlansHaveTools, ScriptsEnd
  <2> QED BY <1>1, <2>1, NextStepIsLeast
<1>3. Len(Script(run.plan)) \in Nat
  BY PlansHaveTools, ScriptsEnd
<1>4. NextStep(run.plan, run.step) \in Nat
  BY <1>1, <1>2, <1>3
<1> QED BY <1>2, <1>4 DEF Advanced, Runs

\* What the two share: only the files that create a rollup matter.
LEMMA AdvancedOK ==
    ASSUME NEW run \in Runs, run.plan \in Plans \cup RepairPlans,
           run.step < Len(Script(run.plan)),
           CreatesRollup(run.plan) => CreationOK(Advanced(run))
    PROVE  Advanced(run) \in Runs /\ RunOK(Advanced(run))
<1>1. Advanced(run).step # 0 /\ Advanced(run).step <= Len(Script(run.plan))
  <2>1. Len(Script(run.plan)) \in Nat /\ run.step \in Nat
    BY PlansHaveTools, ScriptsEnd DEF Runs
  <2> QED BY <2>1, AdvancedFields
<1> QED BY <1>1, AdvancedFields DEF RunOK

LEMMA IdleOK == Idle \in Runs /\ RunOK(Idle)
<1>1. << >> \in Impls
  BY DEF Impls
<1> QED BY <1>1 DEF Idle, Runs, RunOK

-----------------------------------------------------------------------------
(* The calls that change nothing on the chain but grants and selectors.    *)

\* One run changes; no type, rollup or file does.
LEMMA LocalStep ==
    ASSUME CreationIInv, NEW p \in Procs, NEW run \in Runs, RunOK(run),
           procs' = [procs EXCEPT ![p] = run], UNCHANGED <<types, rollups, outputs>>,
           \A op \in prepared' : op \in PreparedCalls,
           budget' \in [starts : Nat, crashes : Nat]
    PROVE  CreationIInv'
<1>1. TypesOK'
  BY DEF CreationIInv, TypesOK
<1>2. ChainsOK' /\ CommitteesOK'
  BY DEF CreationIInv, ChainsOK, CommitteesOK
<1>3. \A q \in Procs : procs'[q] = IF q = p THEN run ELSE procs[q]
  BY DEF CreationIInv, TypesOK
<1>4. \A r : RunOK(r) => RunOK(r)'
  BY DEF RunOK, CreationOK, Nonce
<1>5. \A q \in Procs : RunOK(procs[q])'
  BY <1>3, <1>4 DEF CreationIInv
<1>6. OutputsOK' /\ OutputNamesItsRollup' /\ GenesisFitsL1'
  BY DEF CreationIInv, OutputsOK, OutputNamesItsRollup, GenesisFitsL1
<1> QED BY <1>1, <1>2, <1>5, <1>6 DEF CreationIInv

LEMMA NotTheLastCall ==
    ASSUME NEW plan, plan.tool \in Tools, NEW i \in 1..Len(Script(plan)),
           Script(plan)[i] \notin {"output", "genesis"}
    PROVE  i < Len(Script(plan))
<1>1. Script(plan)[Len(Script(plan))] \in {"output", "genesis"}
  BY DEF Script, Tools
<1>2. Len(Script(plan)) \in Nat
  BY ScriptsEnd
<1> QED BY <1>1, <1>2

LEMMA CallingFacts ==
    ASSUME CreationIInv, NEW p \in Procs, NEW call, Calling(p, call),
           NEW run, run = procs[p]
    PROVE  /\ run \in Runs /\ run.step \in 1..Len(Script(run.plan))
           /\ run.plan \in Plans \cup RepairPlans /\ Script(run.plan)[run.step] = call
           /\ CreatesRollup(run.plan) => CreationOK(run)
           /\ call \notin {"output", "genesis"} => run.step < Len(Script(run.plan))
<1>1. run \in Runs /\ RunOK(run)
  BY DEF CreationIInv, TypesOK
<1>2. run.step > 0 /\ Script(run.plan)[run.step] = call
  BY DEF Calling
<1>3. /\ run.plan \in Plans \cup RepairPlans /\ run.step <= Len(Script(run.plan))
      /\ CreatesRollup(run.plan) => CreationOK(run)
  BY <1>1, <1>2 DEF RunOK
<1>4. run.plan.tool \in Tools /\ Len(Script(run.plan)) \in Nat
  BY <1>3, PlansHaveTools, ScriptsEnd
<1>5. run.step \in 1..Len(Script(run.plan))
  BY <1>1, <1>2, <1>3, <1>4 DEF Runs
<1> QED BY <1>1, <1>2, <1>3, <1>4, <1>5, NotTheLastCall

\* A call the later ones do not rely on.
LEMMA PlainCallOK ==
    ASSUME NEW run \in Runs, run.plan \in Plans \cup RepairPlans,
           run.step \in 1..Len(Script(run.plan)), run.step < Len(Script(run.plan)),
           Script(run.plan)[run.step] \notin
             {"typeKind", "typeCount", "nonce", "addType", "attach", "expect"},
           CreatesRollup(run.plan), CreationOK(run)
    PROVE  CreationOK(Advanced(run))
<1> DEFINE next == Advanced(run)
<1>1. /\ next.step = NextStep(run.plan, run.step) /\ next.plan = run.plan
      /\ next.address = run.address /\ next.typeID = run.typeID /\ next.own = run.own
      /\ next.impl = run.impl /\ next.disturbed = run.disturbed
  BY AdvancedFields
<1>2. run.step \in Nat
  BY DEF Runs
<1>3. /\ run.step # TypeAt(run.plan) /\ run.step # NonceAt(run.plan)
      /\ run.step # AttachAt(run.plan) /\ run.step # ExpectAt(run.plan)
      /\ ~(run.plan.tool = "createRollup" /\ run.step = 5)
  BY CreationCalls
<1>4. /\ TypeAt(run.plan) \in Nat /\ NonceAt(run.plan) \in Nat
      /\ AttachAt(run.plan) \in Nat /\ ExpectAt(run.plan) \in Nat
  BY DEF TypeAt, NonceAt, AttachAt, ExpectAt
<1>5. /\ next.step > TypeAt(run.plan) => run.step > TypeAt(run.plan)
      /\ next.step > NonceAt(run.plan) => run.step > NonceAt(run.plan)
      /\ next.step > AttachAt(run.plan) <=> run.step > AttachAt(run.plan)
      /\ next.step > ExpectAt(run.plan) => run.step > ExpectAt(run.plan)
      /\ ~(run.plan.tool = "createRollup" /\ next.step = 6)
      /\ next.step \in Nat
  BY <1>1, <1>2, <1>3, <1>4, NextCallOfCreation, ScriptsEnd, PlansHaveTools
<1> HIDE DEF next
<1>6. CreationOK(next)
  BY <1>1, <1>2, <1>4, <1>5 DEF CreationOK
<1> QED BY <1>6 DEF next

\* The calls of the others, or none, with nothing changed on the chain.
LEMMA PlainCallStep ==
    ASSUME CreationIInv, NEW p \in Procs, NEW call, Calling(p, call),
           call \notin {"typeKind", "typeCount", "nonce", "addType", "attach", "expect",
                        "output", "genesis"},
           Continue(p, procs[p]),
           UNCHANGED <<types, rollups, outputs, prepared, budget>>
    PROVE  CreationIInv'
<1> DEFINE run == procs[p]
<1>1. /\ run \in Runs /\ run.step \in 1..Len(Script(run.plan))
      /\ run.plan \in Plans \cup RepairPlans /\ Script(run.plan)[run.step] = call
      /\ CreatesRollup(run.plan) => CreationOK(run)
      /\ run.step < Len(Script(run.plan))
  BY CallingFacts
<1>2. procs' = [procs EXCEPT ![p] = Advanced(run)]
  BY DEF Continue, Advanced
<1>3. Advanced(run) \in Runs /\ RunOK(Advanced(run))
  BY <1>1, AdvancedOK, PlainCallOK
<1>4. /\ \A op \in prepared' : op \in PreparedCalls
      /\ budget' \in [starts : Nat, crashes : Nat]
  BY DEF CreationIInv, TypesOK
<1> HIDE DEF run
<1> QED BY <1>2, <1>3, <1>4, LocalStep

LEMMA ThrowStep ==
    ASSUME CreationIInv, NEW p \in Procs, Throw(p), UNCHANGED <<types, rollups, outputs>>,
           \A op \in prepared' : op \in PreparedCalls,
           budget' \in [starts : Nat, crashes : Nat]
    PROVE  CreationIInv'
  BY IdleOK, LocalStep DEF Throw

\* A plain call, or the end of the run.
LEMMA GrantStep ==
    ASSUME CreationIInv, NEW p \in Procs,
           Grant(p) \/ CheckGasToken(p) \/ AddDefaultVKey(p)
    PROVE  CreationIInv'
<1>1. /\ \A op \in prepared : op \in PreparedCalls
      /\ budget \in [starts : Nat, crashes : Nat]
  BY DEF CreationIInv, TypesOK
<1>2. CASE Grant(p)
  BY <1>2, PlainCallStep DEF Grant
<1>3. CASE CheckGasToken(p)
  <2>1. CASE Continue(p, procs[p])
    BY <1>3, <2>1, PlainCallStep DEF CheckGasToken
  <2>2. CASE Throw(p)
    BY <1>1, <1>3, <2>2, ThrowStep DEF CheckGasToken
  <2> QED BY <1>3, <2>1, <2>2 DEF CheckGasToken
<1>4. CASE AddDefaultVKey(p)
  <2>1. CASE Continue(p, procs[p])
    BY <1>4, <2>1, PlainCallStep DEF AddDefaultVKey
  <2>2. CASE Throw(p)
    BY <1>1, <1>4, <2>2, ThrowStep DEF AddDefaultVKey
  <2> QED BY <1>4, <2>1, <2>2 DEF AddDefaultVKey
<1> QED BY <1>2, <1>3, <1>4

\* The implementation is there before a run knows anything else.
LEMMA DeployImplementationStep ==
    ASSUME CreationIInv, NEW p \in Procs, DeployImplementation(p)
    PROVE  CreationIInv'
<1> DEFINE run == procs[p]
           impl == <<p, budget.starts, run.plan.consensus>>
           next == [run EXCEPT !.impl = impl]
<1>1. /\ run \in Runs /\ run.step \in 1..Len(Script(run.plan))
      /\ run.plan \in Plans \cup RepairPlans
      /\ Script(run.plan)[run.step] = "implementation"
      /\ CreatesRollup(run.plan) => CreationOK(run)
      /\ run.step < Len(Script(run.plan))
  BY CallingFacts DEF DeployImplementation
<1>2. impl \in Impls
  BY <1>1, PlansHaveTools DEF Impls, CreationIInv, TypesOK
<1>3. /\ next \in Runs /\ next.step = run.step /\ next.plan = run.plan
      /\ next.address = run.address /\ next.typeID = run.typeID /\ next.own = run.own
      /\ next.disturbed = run.disturbed
  BY <1>1, <1>2 DEF Runs
<1>4. procs' = [procs EXCEPT ![p] = Advanced(next)]
  BY DEF DeployImplementation, Continue, Advanced
<1>5. ASSUME CreatesRollup(run.plan)
      PROVE  CreationOK(Advanced(next))
  <2>1. run.plan.tool = "createRollup" /\ run.step = 2
    BY <1>1, <1>5, CreationCalls
  <2>2. CreationOK(Advanced(run))
    BY <1>1, <1>5, PlainCallOK
  <2>3. /\ Advanced(run).step = NextStep(run.plan, run.step)
        /\ Advanced(run).plan = run.plan
        /\ Advanced(run).address = run.address /\ Advanced(run).typeID = run.typeID
        /\ Advanced(run).own = run.own /\ Advanced(run).disturbed = run.disturbed
    BY <1>1, AdvancedFields
  <2>4. /\ Advanced(next).step = NextStep(run.plan, run.step)
        /\ Advanced(next).plan = run.plan
        /\ Advanced(next).address = run.address /\ Advanced(next).typeID = run.typeID
        /\ Advanced(next).own = run.own /\ Advanced(next).disturbed = run.disturbed
    BY <1>1, <1>3, AdvancedFields
  <2>5. ~(Advanced(next).step > ExpectAt(run.plan))
    BY <1>1, <1>5, <2>1, <2>4, NextCallOfCreation DEF ExpectAt
  <2> HIDE DEF run, next
  <2> QED BY <2>2, <2>3, <2>4, <2>5 DEF CreationOK
<1>6. Advanced(next) \in Runs /\ RunOK(Advanced(next))
  <2> HIDE DEF run, next
  <2> QED BY <1>1, <1>3, <1>5, AdvancedOK
<1>7. /\ UNCHANGED <<types, rollups, outputs, prepared, budget>>
      /\ \A op \in prepared : op \in PreparedCalls
      /\ budget \in [starts : Nat, crashes : Nat]
  BY DEF DeployImplementation, CreationIInv, TypesOK
<1> HIDE DEF run, next
<1> QED BY <1>4, <1>6, <1>7, LocalStep

\* createNewRollup reads the type, createRollup the count of types.
LEMMA CheckTypeKindStep ==
    ASSUME CreationIInv, NEW p \in Procs, CheckTypeKind(p)
    PROVE  CreationIInv'
<1> DEFINE run == procs[p]
           id == run.plan.rollupTypeId
           next == [run EXCEPT !.typeID = id, !.impl = types[id].impl]
<1>1. /\ run \in Runs /\ run.step \in 1..Len(Script(run.plan))
      /\ run.plan \in Plans \cup RepairPlans
      /\ Script(run.plan)[run.step] = "typeKind"
      /\ CreatesRollup(run.plan) => CreationOK(run)
      /\ run.step < Len(Script(run.plan))
  BY CallingFacts DEF CheckTypeKind
<1>2. /\ UNCHANGED <<types, rollups, outputs, prepared, budget>>
      /\ \A op \in prepared : op \in PreparedCalls
      /\ budget \in [starts : Nat, crashes : Nat]
  BY DEF CheckTypeKind, CreationIInv, TypesOK
<1>3. CASE Throw(p)
  BY <1>2, <1>3, ThrowStep
<1>4. ASSUME id \in DOMAIN types, types[id].verifierType = VerifierType(run.plan.consensus),
             procs' = [procs EXCEPT ![p] = Advanced(next)]
      PROVE  CreationIInv'
  <2>1. id \in Nat /\ types[id] \in TypeEntries
    BY <1>4 DEF CreationIInv, TypesOK
  <2>2. types[id].impl \in Impls
    BY <2>1 DEF TypeEntries
  <2>3. /\ next \in Runs /\ next.step = run.step /\ next.plan = run.plan
        /\ next.address = run.address /\ next.typeID = id /\ next.own = run.own
        /\ next.disturbed = run.disturbed
    BY <1>1, <2>1, <2>2 DEF Runs
  <2>4. /\ Advanced(next).step = NextStep(run.plan, run.step)
        /\ Advanced(next).plan = run.plan
        /\ Advanced(next).address = run.address /\ Advanced(next).typeID = id
        /\ Advanced(next).own = run.own /\ Advanced(next).disturbed = run.disturbed
    BY <1>1, <2>3, AdvancedFields
  <2>5. ASSUME CreatesRollup(run.plan)
        PROVE  CreationOK(Advanced(next))
    <3>1. run.plan.tool = "createNewRollup" /\ run.step = 1
      BY <1>1, <2>5, CreationCalls DEF TypeAt, CreatesRollup
    <3>2. /\ ~(Advanced(next).step > NonceAt(run.plan))
          /\ ~(Advanced(next).step > AttachAt(run.plan))
          /\ ~(Advanced(next).step > ExpectAt(run.plan))
      BY <1>1, <2>4, <2>5, <3>1, NextCallOfCreation DEF NonceAt, AttachAt, ExpectAt
    <3>3. run.own = 0
      BY <1>1, <2>5, <3>1 DEF CreationOK, AttachAt
    <3> HIDE DEF run, id, next
    <3> QED BY <1>4, <2>4, <3>1, <3>2, <3>3 DEF CreationOK
  <2>6. Advanced(next) \in Runs /\ RunOK(Advanced(next))
    <3> HIDE DEF run, id, next
    <3> QED BY <1>1, <2>3, <2>5, AdvancedOK
  <2> HIDE DEF run, id, next
  <2> QED BY <1>2, <1>4, <2>6, LocalStep
<1> QED BY <1>3, <1>4 DEF CheckTypeKind, Continue, Advanced

LEMMA ReadTypeCountStep ==
    ASSUME CreationIInv, NEW p \in Procs, ReadTypeCount(p)
    PROVE  CreationIInv'
<1> DEFINE run == procs[p]
           next == [run EXCEPT !.typeID = Len(types)]
<1>1. /\ run \in Runs /\ run.step \in 1..Len(Script(run.plan))
      /\ run.plan \in Plans \cup RepairPlans
      /\ Script(run.plan)[run.step] = "typeCount"
      /\ CreatesRollup(run.plan) => CreationOK(run)
      /\ run.step < Len(Script(run.plan))
  BY CallingFacts DEF ReadTypeCount
<1>2. /\ UNCHANGED <<types, rollups, outputs, prepared, budget>>
      /\ \A op \in prepared : op \in PreparedCalls
      /\ budget \in [starts : Nat, crashes : Nat]
  BY DEF ReadTypeCount, CreationIInv, TypesOK
<1>3. Len(types) \in Nat /\ (types # << >> => Len(types) \in DOMAIN types)
  BY DEF CreationIInv, TypesOK
<1>4. /\ next \in Runs /\ next.step = run.step /\ next.plan = run.plan
      /\ next.address = run.address /\ next.typeID = Len(types) /\ next.own = run.own
      /\ next.disturbed = run.disturbed
  BY <1>1, <1>3 DEF Runs
<1>5. /\ Advanced(next).step = NextStep(run.plan, run.step)
      /\ Advanced(next).plan = run.plan
      /\ Advanced(next).address = run.address /\ Advanced(next).typeID = Len(types)
      /\ Advanced(next).own = run.own /\ Advanced(next).disturbed = run.disturbed
  BY <1>1, <1>4, AdvancedFields
<1>6. ASSUME CreatesRollup(run.plan)
      PROVE  CreationOK(Advanced(next))
  <2>1. run.plan.tool = "createRollup" /\ run.step = 6
    BY <1>1, <1>6, CreationCalls DEF TypeAt
  <2>2. types # << >>
    BY <1>1, <1>6, <2>1 DEF CreationOK
  <2>3. /\ ~(Advanced(next).step > AttachAt(run.plan))
        /\ ~(Advanced(next).step > ExpectAt(run.plan))
        /\ Advanced(next).step # 6
    BY <1>1, <1>5, <1>6, <2>1, NextCallOfCreation DEF AttachAt, ExpectAt
  <2>4. /\ run.own = 0 /\ run.address # 0
        /\ ~run.disturbed => run.address = IF run.own = 0 THEN Nonce + 1 ELSE run.own
    BY <1>1, <1>6, <2>1 DEF CreationOK, AttachAt, NonceAt
  <2> HIDE DEF run, next
  <2> QED BY <1>3, <1>5, <2>1, <2>2, <2>3, <2>4 DEF CreationOK
<1>7. Advanced(next) \in Runs /\ RunOK(Advanced(next))
  <2> HIDE DEF run, next
  <2> QED BY <1>1, <1>4, <1>6, AdvancedOK
<1>8. procs' = [procs EXCEPT ![p] = Advanced(next)]
  BY DEF ReadTypeCount, Continue, Advanced
<1> HIDE DEF run, next
<1> QED BY <1>2, <1>7, <1>8, LocalStep

\* The address it reads is the one of the next contract.
LEMMA ReadNonceStep ==
    ASSUME CreationIInv, NEW p \in Procs, ReadNonce(p)
    PROVE  CreationIInv'
<1> DEFINE run == procs[p]
           next == [run EXCEPT !.address = NextAddress]
<1>1. /\ run \in Runs /\ run.step \in 1..Len(Script(run.plan))
      /\ run.plan \in Plans \cup RepairPlans
      /\ Script(run.plan)[run.step] = "nonce"
      /\ CreatesRollup(run.plan) => CreationOK(run)
      /\ run.step < Len(Script(run.plan))
  BY CallingFacts DEF ReadNonce
<1>2. /\ UNCHANGED <<types, rollups, outputs, prepared, budget>>
      /\ \A op \in prepared : op \in PreparedCalls
      /\ budget \in [starts : Nat, crashes : Nat]
  BY DEF ReadNonce, CreationIInv, TypesOK
<1>3. NextAddress = Nonce + 1 /\ Nonce \in Nat
  BY DEF CreationIInv, TypesOK, NextAddress, Nonce
<1>4. /\ next \in Runs /\ next.step = run.step /\ next.plan = run.plan
      /\ next.address = Nonce + 1 /\ next.typeID = run.typeID /\ next.own = run.own
      /\ next.disturbed = run.disturbed
  BY <1>1, <1>3 DEF Runs
<1>5. /\ Advanced(next).step = NextStep(run.plan, run.step)
      /\ Advanced(next).plan = run.plan
      /\ Advanced(next).address = Nonce + 1 /\ Advanced(next).typeID = run.typeID
      /\ Advanced(next).own = run.own /\ Advanced(next).disturbed = run.disturbed
  BY <1>1, <1>4, AdvancedFields
<1>6. ASSUME CreatesRollup(run.plan)
      PROVE  CreationOK(Advanced(next))
  <2>1. run.step = NonceAt(run.plan)
    BY <1>1, <1>6, CreationCalls
  <2>2. /\ ~(Advanced(next).step > AttachAt(run.plan))
        /\ ~(Advanced(next).step > ExpectAt(run.plan))
        /\ ~(run.plan.tool = "createRollup" /\ Advanced(next).step = 6)
        /\ Advanced(next).step > TypeAt(run.plan) => run.step > TypeAt(run.plan)
    BY <1>1, <1>5, <1>6, <2>1, NextCallOfCreation DEF AttachAt, ExpectAt, TypeAt, NonceAt
  <2>3. run.own = 0
    BY <1>1, <1>6, <2>1 DEF CreationOK, AttachAt, NonceAt
  <2>4. run.step > TypeAt(run.plan) =>
          /\ run.typeID \in DOMAIN types
          /\ run.plan.tool = "createNewRollup" =>
                types[run.typeID].verifierType = VerifierType(run.plan.consensus)
    BY <1>1, <1>6 DEF CreationOK
  <2> HIDE DEF run, next
  <2> QED BY <1>3, <1>5, <2>2, <2>3, <2>4 DEF CreationOK
<1>7. Advanced(next) \in Runs /\ RunOK(Advanced(next))
  <2> HIDE DEF run, next
  <2> QED BY <1>1, <1>4, <1>6, AdvancedOK
<1>8. procs' = [procs EXCEPT ![p] = Advanced(next)]
  BY DEF ReadNonce, Continue, Advanced
<1> HIDE DEF run, next
<1> QED BY <1>2, <1>7, <1>8, LocalStep

\* initializeRollup asks for the contract of its chain.
LEMMA FindContractStep ==
    ASSUME CreationIInv, NEW p \in Procs, FindContract(p)
    PROVE  CreationIInv'
<1> DEFINE run == procs[p]
<1>1. /\ run \in Runs /\ run.step \in 1..Len(Script(run.plan))
      /\ run.plan \in Plans \cup RepairPlans
      /\ Script(run.plan)[run.step] = "contract"
      /\ run.step < Len(Script(run.plan))
  BY CallingFacts DEF FindContract
<1>2. /\ UNCHANGED <<types, rollups, outputs, prepared, budget>>
      /\ \A op \in prepared : op \in PreparedCalls
      /\ budget \in [starts : Nat, crashes : Nat]
  BY DEF FindContract, CreationIInv, TypesOK
<1>3. PICK id \in DOMAIN rollups :
        procs' = [procs EXCEPT ![p] = Advanced([run EXCEPT !.address = id, !.own = id])]
  BY DEF FindContract, RollupOf, Continue, Advanced
<1> DEFINE next == [run EXCEPT !.address = id, !.own = id]
<1>4. id \in Nat
  BY DEF CreationIInv, TypesOK
<1>5. next \in Runs /\ next.step = run.step /\ next.plan = run.plan
  BY <1>1, <1>4 DEF Runs
<1>6. ~CreatesRollup(run.plan)
  BY <1>1, CreationCalls
<1> HIDE DEF run
<1>7. Advanced(next) \in Runs /\ RunOK(Advanced(next))
  <2> HIDE DEF next
  <2> QED BY <1>1, <1>5, <1>6, AdvancedOK
<1> HIDE DEF next
<1> QED BY <1>2, <1>3, <1>7, LocalStep DEF next

LEMMA ExpectStep ==
    ASSUME CreationIInv, NEW p \in Procs, Expect(p)
    PROVE  CreationIInv'
<1> DEFINE run == procs[p]
<1>1. /\ run \in Runs /\ run.step \in 1..Len(Script(run.plan))
      /\ run.plan \in Plans \cup RepairPlans
      /\ Script(run.plan)[run.step] = "expect"
      /\ CreatesRollup(run.plan) => CreationOK(run)
      /\ run.step < Len(Script(run.plan))
  BY CallingFacts DEF Expect
<1>2. /\ UNCHANGED <<types, rollups, outputs, prepared, budget>>
      /\ \A op \in prepared : op \in PreparedCalls
      /\ budget \in [starts : Nat, crashes : Nat]
  BY DEF Expect, CreationIInv, TypesOK
<1>3. CASE Throw(p)
  BY <1>2, <1>3, ThrowStep
<1>4. ASSUME run.address \in DOMAIN rollups, rollups[run.address].impl = run.impl,
             procs' = [procs EXCEPT ![p] = Advanced(run)]
      PROVE  CreationIInv'
  <2>1. /\ Advanced(run).step = NextStep(run.plan, run.step)
        /\ Advanced(run).plan = run.plan
        /\ Advanced(run).address = run.address /\ Advanced(run).typeID = run.typeID
        /\ Advanced(run).own = run.own /\ Advanced(run).impl = run.impl
        /\ Advanced(run).disturbed = run.disturbed
    BY <1>1, AdvancedFields
  <2>2. ASSUME CreatesRollup(run.plan)
        PROVE  CreationOK(Advanced(run))
    <3>1. run.step = ExpectAt(run.plan)
      BY <1>1, <2>2, CreationCalls
    <3>2. /\ run.step > TypeAt(run.plan) /\ run.step > NonceAt(run.plan)
          /\ run.step > AttachAt(run.plan)
          /\ run.step \in Nat /\ run.step # 5
      BY <3>1, <1>1 DEF ExpectAt, TypeAt, NonceAt, AttachAt, Runs
    <3>3. /\ Advanced(run).step > AttachAt(run.plan)
          /\ ~(run.plan.tool = "createRollup" /\ Advanced(run).step = 6)
          /\ Advanced(run).step \in Nat
      BY <1>1, <2>1, <2>2, <3>1, <3>2, NextCallOfCreation, ScriptsEnd, PlansHaveTools
         DEF AttachAt
    <3>4. AttachAt(run.plan) \in Nat
      BY DEF AttachAt
    <3> HIDE DEF run
    <3> QED BY <1>1, <1>4, <2>1, <2>2, <3>2, <3>3, <3>4 DEF CreationOK
  <2>3. Advanced(run) \in Runs /\ RunOK(Advanced(run))
    BY <1>1, <2>2, AdvancedOK
  <2> HIDE DEF run
  <2> QED BY <1>2, <1>4, <2>3, LocalStep
<1> QED BY <1>3, <1>4 DEF Expect, Continue, Advanced

\* What is prepared is as the run knows it.
LEMMA PrepareStep ==
    ASSUME CreationIInv, NEW p \in Procs, Prepare(p)
    PROVE  CreationIInv'
<1> DEFINE run == procs[p]
           op == [plan |-> run.plan, target |-> Target(run.plan), impl |-> run.impl,
                  address |-> run.address]
<1>1. run \in Runs /\ run.plan \in Plans \cup RepairPlans
  BY CallingFacts DEF Prepare
<1>2. op \in PreparedCalls
  BY <1>1 DEF PreparedCalls, Target, Runs
<1>3. prepared' = prepared \cup {op} /\ Throw(p)
      /\ UNCHANGED <<types, rollups, outputs, budget>>
  BY DEF Prepare
<1>4. /\ \A other \in prepared : other \in PreparedCalls
      /\ budget \in [starts : Nat, crashes : Nat]
  BY DEF CreationIInv, TypesOK
<1> HIDE DEF op
<1> QED BY <1>2, <1>3, <1>4, ThrowStep

\* A script begins: it knows nothing.
LEMMA RunningOK ==
    ASSUME NEW plan \in Plans \cup RepairPlans
    PROVE  Running(plan) \in Runs /\ RunOK(Running(plan))
<1> DEFINE fresh == [Idle EXCEPT !.plan = plan]
<1>1. /\ fresh \in Runs /\ fresh.plan = plan /\ fresh.step = 0 /\ fresh.own = 0
  BY IdleOK DEF Idle, Runs
<1>2. Running(plan) = Advanced(fresh)
  BY DEF Running, Advanced, Idle
<1>3. Len(Script(plan)) \in Nat \ {0}
  BY PlansHaveTools, ScriptsEnd
<1> HIDE DEF fresh
<1>4. ASSUME CreatesRollup(plan)
      PROVE  CreationOK(Advanced(fresh))
  <2>1. /\ Advanced(fresh).step = NextStep(plan, 0) /\ Advanced(fresh).plan = plan
        /\ Advanced(fresh).own = 0
    BY <1>1, <1>3, AdvancedFields
  <2>2. /\ ~(Advanced(fresh).step > TypeAt(plan)) /\ ~(Advanced(fresh).step > NonceAt(plan))
        /\ ~(Advanced(fresh).step > AttachAt(plan))
        /\ ~(Advanced(fresh).step > ExpectAt(plan))
        /\ ~(plan.tool = "createRollup" /\ Advanced(fresh).step = 6)
    BY <1>3, <1>4, <2>1, NextCallOfCreation DEF TypeAt, NonceAt, AttachAt, ExpectAt
  <2> QED BY <2>1, <2>2 DEF CreationOK
<1> QED BY <1>1, <1>2, <1>3, <1>4, AdvancedOK

LEMMA StartStep ==
    ASSUME CreationIInv, NEW p \in Procs, Start(p)
    PROVE  CreationIInv'
<1>1. PICK plan \in Plans : procs' = [procs EXCEPT ![p] = Running(plan)]
  BY DEF Start
<1>2. /\ \A op \in prepared' : op \in PreparedCalls
      /\ budget' \in [starts : Nat, crashes : Nat]
  BY DEF Start, CreationIInv, TypesOK
<1> QED BY <1>1, <1>2, RunningOK, LocalStep DEF Start

LEMMA CrashStep ==
    ASSUME CreationIInv, NEW p \in Procs, Crash(p)
    PROVE  CreationIInv'
<1>1. /\ \A op \in prepared' : op \in PreparedCalls
      /\ budget' \in [starts : Nat, crashes : Nat]
  BY DEF Crash, CreationIInv, TypesOK
<1> QED BY <1>1, ThrowStep DEF Crash

LEMMA RepairStep ==
    ASSUME CreationIInv, NEW p \in Procs, Repair(p)
    PROVE  CreationIInv'
<1>1. PICK id \in DOMAIN rollups, type \in {"EOA", "Multisig"} :
        procs' = [procs EXCEPT ![p] = Running(
          [tool |-> "initializeRollup", type |-> type, consensus |-> rollups[id].consensus,
           chain |-> rollups[id].chain, owner |-> rollups[id].owner, gasToken |-> Zero,
           selector |-> <<rollups[id].consensus>>])]
  BY DEF Repair
<1> DEFINE plan ==
      [tool |-> "initializeRollup", type |-> type, consensus |-> rollups[id].consensus,
       chain |-> rollups[id].chain, owner |-> rollups[id].owner, gasToken |-> Zero,
       selector |-> <<rollups[id].consensus>>]
<1>2. rollups[id] \in RollupEntries
  BY DEF CreationIInv, TypesOK
<1>3. plan \in RepairPlans
  BY <1>2 DEF RepairPlans, RollupEntries
<1>4. /\ \A op \in prepared : op \in PreparedCalls
      /\ budget \in [starts : Nat, crashes : Nat]
  BY DEF CreationIInv, TypesOK
<1>5. procs' = [procs EXCEPT ![p] = Running(plan)]
  BY <1>1
<1> HIDE DEF plan
<1> QED BY <1>3, <1>4, <1>5, RunningOK, LocalStep DEF Repair

LEMMA StillStep ==
    ASSUME CreationIInv, UNCHANGED <<types, rollups, outputs, prepared, procs, budget>>
    PROVE  CreationIInv'
<1>1. TypesOK' /\ ChainsOK' /\ CommitteesOK'
  BY DEF CreationIInv, TypesOK, ChainsOK, CommitteesOK
<1>2. \A r : RunOK(r) => RunOK(r)'
  BY DEF RunOK, CreationOK, Nonce
<1>3. OutputsOK' /\ OutputNamesItsRollup' /\ GenesisFitsL1'
  BY DEF CreationIInv, OutputsOK, OutputNamesItsRollup, GenesisFitsL1
<1> QED BY <1>1, <1>2, <1>3 DEF CreationIInv

-----------------------------------------------------------------------------
(* The chain grows, and what the runs and the files rely on stays.         *)

\* A rollup keeps what it was made of; only an aggchain gets another token.
Stays(i) ==
    /\ i \in DOMAIN rollups' /\ rollups'[i].chain = rollups[i].chain
    /\ rollups'[i].impl = rollups[i].impl
    /\ rollups'[i].verifierType = rollups[i].verifierType
    /\ rollups[i].verifierType # "ALGateway" => rollups'[i].gasToken = rollups[i].gasToken

Grown ==
    /\ \A i \in DOMAIN types : i \in DOMAIN types' /\ types'[i] = types[i]
    /\ \A i \in DOMAIN rollups : Stays(i)

LEMMA GrownFiles ==
    ASSUME CreationIInv, Grown, outputs' = outputs, CommitteesOK'
    PROVE  OutputsOK' /\ OutputNamesItsRollup' /\ GenesisFitsL1'
<1>1. ASSUME NEW out \in outputs, CreatesRollup(out.plan)
      PROVE  /\ out.typeID \in DOMAIN types /\ types'[out.typeID] = types[out.typeID]
             /\ out.typeID \in DOMAIN types'
             /\ out.rollupID \in DOMAIN rollups /\ Stays(out.rollupID)
             /\ out.address \in DOMAIN rollups /\ Stays(out.address)
             /\ AsPlanned(rollups[out.rollupID], out.plan)
  BY <1>1 DEF CreationIInv, OutputsOK, Grown
<1>2. OutputsOK'
  BY <1>1 DEF CreationIInv, OutputsOK, Stays, AsPlanned
<1>3. OutputNamesItsRollup'
  BY <1>1 DEF CreationIInv, OutputNamesItsRollup, Stays, CommitteesOK
<1>4. ASSUME NEW out \in outputs, out.genesis # Refused, out.tool = "createNewRollup",
             VerifierType(out.plan.consensus) = "Pessimistic"
      PROVE  rollups'[out.rollupID].gasToken = rollups[out.rollupID].gasToken
  <2>1. out.plan.tool = "createNewRollup" /\ CreatesRollup(out.plan)
    BY <1>4 DEF CreationIInv, OutputsOK, CreatesRollup
  <2> QED BY <1>1, <1>4, <2>1 DEF AsPlanned, Stays
<1>5. GenesisFitsL1'
  BY <1>4 DEF CreationIInv, GenesisFitsL1
<1> QED BY <1>2, <1>3, <1>5

\* A run that has its rollup, or that computes an address later, or whose
\* address is still the next one, or that is late.
LEMMA GrownRun ==
    ASSUME CreationIInv, Grown, NEW run \in Runs, RunOK(run), NEW next \in Runs,
           next = run \/ (run.address # 0 /\ next = [run EXCEPT !.disturbed = TRUE]),
           Nonce' = Nonce \/ next.disturbed \/ run.own # 0 \/ run.address = 0
    PROVE  RunOK(next)'
<1>1. /\ next.step = run.step /\ next.plan = run.plan /\ next.address = run.address
      /\ next.typeID = run.typeID /\ next.own = run.own /\ next.impl = run.impl
      /\ ~next.disturbed => ~run.disturbed
  BY DEF Runs
<1>2. ASSUME run.step = 0
      PROVE  next = Idle
  BY <1>2 DEF RunOK, Idle
<1>3. types # << >> => types' # << >>
  <2>1. types \in Seq(TypeEntries)
    BY DEF CreationIInv, TypesOK
  <2>2. types # << >> => 1 \in DOMAIN types
    BY <2>1
  <2> QED BY <2>2 DEF Grown
<1>4. ASSUME CreationOK(run)
      PROVE  CreationOK(next)'
  <2>1. run.step > TypeAt(run.plan) =>
          /\ run.typeID \in DOMAIN types /\ run.typeID \in DOMAIN types'
          /\ types'[run.typeID] = types[run.typeID]
    BY <1>4 DEF CreationOK, Grown
  <2>2. run.step > AttachAt(run.plan) =>
          /\ run.own \in DOMAIN rollups /\ Stays(run.own)
          /\ rollups[run.own].chain = run.plan.chain
          /\ rollups[run.own].impl = types[run.typeID].impl
          /\ AsPlanned(rollups[run.own], run.plan)
    BY <1>4 DEF CreationOK, Grown
  <2>3. run.step > ExpectAt(run.plan) =>
          /\ run.address \in DOMAIN rollups /\ Stays(run.address)
          /\ rollups[run.address].impl = run.impl
    BY <1>4 DEF CreationOK, Grown
  <2>4. run.step > AttachAt(run.plan) => run.step > TypeAt(run.plan)
    BY DEF AttachAt, TypeAt, Runs
  <2>5. run.step > AttachAt(run.plan) => AsPlanned(rollups'[run.own], run.plan)
    BY <2>2 DEF AsPlanned, Stays
  <2>6. run.step > NonceAt(run.plan) =>
          /\ run.address # 0
          /\ ~next.disturbed =>
               run.address = IF run.own = 0 THEN Nonce' + 1 ELSE run.own
    BY <1>1, <1>4 DEF CreationOK
  <2>7. /\ (run.plan.tool = "createRollup" /\ run.step = 6) => types' # << >>
        /\ run.step <= AttachAt(run.plan) => run.own = 0
        /\ run.step > TypeAt(run.plan) /\ run.plan.tool = "createNewRollup" =>
              types[run.typeID].verifierType = VerifierType(run.plan.consensus)
    BY <1>3, <1>4 DEF CreationOK
  <2> QED BY <1>1, <2>1, <2>2, <2>3, <2>4, <2>5, <2>6, <2>7 DEF CreationOK, Stays
<1> QED BY <1>1, <1>2, <1>4 DEF RunOK

\* A step of which some runs learn something; the others see the chain grow.
LEMMA GrowStep ==
    ASSUME CreationIInv, Grown, NEW some \in SUBSET Procs,
           types' \in Seq(TypeEntries), rollups' \in Seq(RollupEntries),
           Len(rollups') <= MaxRollups, ChainsOK', CommitteesOK', outputs' = outputs,
           NEW new \in [Procs -> Runs], procs' = new, \A q \in some : RunOK(new[q])',
           \A q \in Procs \ some :
             /\ \/ new[q] = procs[q]
                \/ procs[q].address # 0 /\ new[q] = [procs[q] EXCEPT !.disturbed = TRUE]
             /\ \/ Nonce' = Nonce \/ new[q].disturbed
                \/ procs[q].own # 0 \/ procs[q].address = 0,
           \A op \in prepared' : op \in PreparedCalls,
           budget' \in [starts : Nat, crashes : Nat]
    PROVE  CreationIInv'
<1>1. TypesOK'
  BY DEF TypesOK
<1>2. OutputsOK' /\ OutputNamesItsRollup' /\ GenesisFitsL1'
  BY GrownFiles
<1>3. ASSUME NEW q \in Procs \ some
      PROVE  RunOK(new[q])'
  <2>1. /\ procs[q] \in Runs /\ RunOK(procs[q]) /\ new[q] \in Runs
    BY DEF CreationIInv, TypesOK
  <2>2. PICK run \in Runs : run = procs[q]
    BY <2>1
  <2>3. PICK next \in Runs : next = new[q]
    BY <2>1
  <2>4. /\ RunOK(run)
        /\ next = run \/ (run.address # 0 /\ next = [run EXCEPT !.disturbed = TRUE])
        /\ Nonce' = Nonce \/ next.disturbed \/ run.own # 0 \/ run.address = 0
    BY <2>1, <2>2, <2>3
  <2>5. RunOK(next)'
    BY <2>4, GrownRun
  <2> QED BY <2>3, <2>5
<1>4. \A q \in Procs : RunOK(procs[q])'
  BY <1>3
<1> QED BY <1>1, <1>2, <1>4 DEF CreationIInv

-----------------------------------------------------------------------------
(* The calls that add a type, attach a rollup or write to one.             *)

LEMMA AdvancedLater ==
    ASSUME NEW run \in Runs, run.plan \in Plans \cup RepairPlans,
           run.step < Len(Script(run.plan)),
           CreatesRollup(run.plan) => CreationOK(Advanced(run))'
    PROVE  Advanced(run) \in Runs /\ RunOK(Advanced(run))'
<1>1. Advanced(run).step # 0 /\ Advanced(run).step <= Len(Script(run.plan))
  <2>1. Len(Script(run.plan)) \in Nat /\ run.step \in Nat
    BY PlansHaveTools, ScriptsEnd DEF Runs
  <2> QED BY <2>1, AdvancedFields
<1> QED BY <1>1, AdvancedFields DEF RunOK

LEMMA NewTypeOK ==
    ASSUME CreationIInv, NEW plan \in Plans \cup RepairPlans, NEW impl \in Impls,
           types' = Append(types, NewType(plan.consensus, impl)),
           UNCHANGED rollups
    PROVE  /\ types' \in Seq(TypeEntries) /\ types' # << >>
           /\ Grown /\ ChainsOK' /\ CommitteesOK' /\ Nonce' = Nonce
           /\ rollups' \in Seq(RollupEntries) /\ Len(rollups') <= MaxRollups
<1>1. NewType(plan.consensus, impl) \in TypeEntries
  BY PlansHaveTools
     DEF NewType, TypeEntries, Consensuses, VerifierType, VerifierTypes
<1>2. types \in Seq(TypeEntries)
  BY DEF CreationIInv, TypesOK
<1>3. types' \in Seq(TypeEntries) /\ types' # << >>
  BY <1>1, <1>2
<1>4. \A i \in DOMAIN types : i \in DOMAIN types' /\ types'[i] = types[i]
  BY <1>1, <1>2
<1>5. Grown /\ ChainsOK' /\ CommitteesOK' /\ Nonce' = Nonce
  BY <1>4 DEF Grown, Stays, CreationIInv, ChainsOK, CommitteesOK, Nonce
<1> QED BY <1>3, <1>5 DEF CreationIInv, TypesOK

\* One run goes on, with the count of rollups as it was.
LEMMA OneRunStep ==
    ASSUME CreationIInv, Grown, NEW p \in Procs, NEW next \in Runs, RunOK(next)',
           procs' = [procs EXCEPT ![p] = next], Nonce' = Nonce,
           types' \in Seq(TypeEntries), rollups' \in Seq(RollupEntries),
           Len(rollups') <= MaxRollups, ChainsOK', CommitteesOK', outputs' = outputs,
           \A op \in prepared' : op \in PreparedCalls,
           budget' \in [starts : Nat, crashes : Nat]
    PROVE  CreationIInv'
<1>1. procs \in [Procs -> Runs]
  BY DEF CreationIInv, TypesOK
<1>2. PICK new \in [Procs -> Runs] :
        procs' = new /\ new = [procs EXCEPT ![p] = next]
  BY <1>1
<1>3. new[p] = next /\ \A q \in Procs \ {p} : new[q] = procs[q]
  BY <1>1, <1>2
<1>4. {p} \in SUBSET Procs /\ \A q \in {p} : RunOK(new[q])'
  BY <1>3
<1> HIDE DEF Runs
<1> QED BY <1>2, <1>3, <1>4, GrowStep

LEMMA AddTypeStep ==
    ASSUME CreationIInv, NEW p \in Procs, AddType(p)
    PROVE  CreationIInv'
<1>5. PICK run \in Runs : run = procs[p]
  BY DEF CreationIInv, TypesOK
<1>1. /\ run.step \in 1..Len(Script(run.plan))
      /\ run.plan \in Plans \cup RepairPlans
      /\ Script(run.plan)[run.step] = "addType"
      /\ CreatesRollup(run.plan) => CreationOK(run)
      /\ run.step < Len(Script(run.plan))
  BY <1>5, CallingFacts DEF AddType
<1>2. /\ UNCHANGED <<rollups, outputs, prepared, budget>>
      /\ \A op \in prepared : op \in PreparedCalls
      /\ budget \in [starts : Nat, crashes : Nat]
      /\ procs \in [Procs -> Runs]
  BY DEF AddType, CreationIInv, TypesOK
<1>3. CASE Throw(p) /\ UNCHANGED types
  BY <1>2, <1>3, ThrowStep
<1>4. ASSUME types' = Append(types, NewType(run.plan.consensus, run.impl)),
             procs' = [procs EXCEPT ![p] = Advanced(run)]
      PROVE  CreationIInv'
  <2>1. run.impl \in Impls
    BY <1>1 DEF Runs
  <2>2. /\ types' \in Seq(TypeEntries) /\ types' # << >>
        /\ Grown /\ ChainsOK' /\ CommitteesOK' /\ Nonce' = Nonce
        /\ rollups' \in Seq(RollupEntries) /\ Len(rollups') <= MaxRollups
    BY <1>1, <1>2, <1>4, <2>1, NewTypeOK
  <2>3. ASSUME CreatesRollup(run.plan)
        PROVE  CreationOK(Advanced(run))'
    <3>1. run.plan.tool = "createRollup" /\ run.step = 5
      BY <1>1, <2>3, CreationCalls
    <3>2. /\ Advanced(run).step = 6 /\ Advanced(run).plan = run.plan
          /\ Advanced(run).address = run.address /\ Advanced(run).own = run.own
          /\ Advanced(run).disturbed = run.disturbed
      BY <1>1, <2>3, <3>1, AdvancedFields, NextCallOfCreation
    <3>3. /\ run.own = 0 /\ run.address # 0
          /\ ~run.disturbed => run.address = IF run.own = 0 THEN Nonce + 1 ELSE run.own
      BY <1>1, <2>3, <3>1 DEF CreationOK, AttachAt, NonceAt
    <3> QED BY <2>2, <3>1, <3>2, <3>3
            DEF CreationOK, TypeAt, NonceAt, AttachAt, ExpectAt
  <2>4. Advanced(run) \in Runs /\ RunOK(Advanced(run))'
    BY <1>1, <2>3, AdvancedLater
  <2> QED BY <1>2, <1>4, <2>2, <2>4, OneRunStep
<1> QED BY <1>3, <1>4, <1>5 DEF AddType, Continue, Advanced

\* A rollup is attached, of a type that is there, for a chain that has none; and
\* all that holds with it.
Attached(plan, typeID, rollup) ==
    /\ CanAttach(typeID, plan.chain, InitializeBytes(plan))
    /\ rollup = NewRollup(typeID, plan.chain, InitializeBytes(plan))
    /\ rollups' = Append(rollups, rollup) /\ UNCHANGED types

Joined(plan, typeID, rollup) ==
    /\ rollups' \in Seq(RollupEntries) /\ Len(rollups') <= MaxRollups
    /\ types' \in Seq(TypeEntries) /\ Nonce' = Nonce + 1 /\ Nonce \in Nat
    /\ Nonce + 1 \in DOMAIN rollups' /\ rollups'[Nonce + 1] = rollup
    /\ Grown /\ ChainsOK' /\ CommitteesOK'
    /\ rollup.chain = plan.chain /\ rollup.impl = types[typeID].impl
    /\ rollup.verifierType = types[typeID].verifierType
    /\ rollup.verifierType # "ALGateway" =>
         rollup.gasToken = InitializeBytes(plan).gasToken

LEMMA NewRollupOK ==
    ASSUME CreationIInv, NEW plan \in Plans, NEW typeID, NEW rollup,
           Attached(plan, typeID, rollup)
    PROVE  Joined(plan, typeID, rollup)
<1> USE DEF Attached
<1>1. /\ types \in Seq(TypeEntries) /\ rollups \in Seq(RollupEntries)
      /\ MaxRollups \in Nat
  BY CreationAssumption DEF CreationIInv, TypesOK
<1>2. types[typeID] \in TypeEntries /\ Nonce < MaxRollups
  BY <1>1 DEF CanAttach
<1>3. InitializeBytes(plan).gasToken \in Tokens /\ InitializeBytes(plan).owner \in Owners
  BY DEF InitializeBytes, Tokens, Owners, Resolve
<1>4. Zero \in Tokens /\ plan.chain \in Chains
  BY DEF Tokens, Chains
<1>5. /\ rollup.chain = plan.chain /\ rollup.impl = types[typeID].impl
      /\ rollup.verifierType = types[typeID].verifierType
      /\ rollup.verifierType # "ALGateway" =>
           rollup.gasToken = InitializeBytes(plan).gasToken
      /\ rollup.committee = NoCommittee
  BY DEF NewRollup
<1>6. rollup \in RollupEntries
  <2>1. NoCommittee \in [of : Nat, late : BOOLEAN]
    BY DEF NoCommittee
  <2> QED BY <1>2, <1>3, <1>4, <2>1 DEF NewRollup, RollupEntries, TypeEntries
<1>7. /\ rollups' \in Seq(RollupEntries) /\ Len(rollups') = Nonce + 1 /\ Nonce \in Nat
      /\ Nonce + 1 \in DOMAIN rollups' /\ rollups'[Nonce + 1] = rollup
      /\ DOMAIN rollups' = DOMAIN rollups \cup {Nonce + 1}
      /\ \A i \in DOMAIN rollups : rollups'[i] = rollups[i]
  BY <1>1, <1>6 DEF Nonce
<1>8. Grown
  BY <1>7 DEF Grown, Stays
<1>9. ChainsOK'
  <2>1. \A i \in DOMAIN rollups : rollups[i].chain # rollup.chain
    BY <1>5 DEF CanAttach, RollupOf
  <2> QED BY <1>7, <2>1 DEF CreationIInv, ChainsOK
<1>10. CommitteesOK'
  BY <1>5, <1>7 DEF CreationIInv, CommitteesOK, NoCommittee
<1> QED BY <1>1, <1>2, <1>5, <1>7, <1>8, <1>9, <1>10 DEF Joined, Nonce

\* Every other run is as it was or late.
LEMMA DisturbedRuns ==
    ASSUME CreationIInv, NEW others \in SUBSET Procs
    PROVE  /\ Disturb(others) \in [Procs -> Runs]
           /\ \A q \in Procs \ others : Disturb(others)[q] = procs[q]
           /\ \A q \in others :
                /\ \/ Disturb(others)[q] = procs[q]
                   \/ /\ procs[q].address # 0
                      /\ Disturb(others)[q] = [procs[q] EXCEPT !.disturbed = TRUE]
                /\ \/ Disturb(others)[q].disturbed
                   \/ procs[q].own # 0 \/ procs[q].address = 0
<1>1. procs \in [Procs -> Runs]
  BY DEF CreationIInv, TypesOK
<1>2. \A run \in Runs : /\ [run EXCEPT !.disturbed = TRUE] \in Runs
                        /\ [run EXCEPT !.disturbed = TRUE].disturbed
  BY DEF Runs
<1> QED BY <1>1, <1>2 DEF Disturb

LEMMA AttachStep ==
    ASSUME CreationIInv, NEW p \in Procs, Attach(p)
    PROVE  CreationIInv'
<1>1. PICK run \in Runs : run = procs[p]
  BY DEF CreationIInv, TypesOK
<1>2. /\ run.step \in 1..Len(Script(run.plan))
      /\ run.plan \in Plans \cup RepairPlans
      /\ Script(run.plan)[run.step] = "attach"
      /\ CreatesRollup(run.plan) => CreationOK(run)
      /\ run.step < Len(Script(run.plan))
  BY <1>1, CallingFacts DEF Attach
<1>3. CreatesRollup(run.plan)
  BY <1>2, PlansHaveTools DEF Script, CreatesRollup, Tools
<1>4. run.plan \in Plans
  BY <1>2, <1>3 DEF RepairPlans, CreatesRollup
<1>5. /\ UNCHANGED <<types, outputs, prepared, budget>>
      /\ \A op \in prepared : op \in PreparedCalls
      /\ budget \in [starts : Nat, crashes : Nat]
      /\ procs \in [Procs -> Runs]
  BY DEF Attach, CreationIInv, TypesOK
<1>6. CASE Throw(p) /\ UNCHANGED rollups
  BY <1>5, <1>6, ThrowStep
<1> DEFINE plan  == run.plan
           bytes == InitializeBytes(plan)
           next  == [run EXCEPT !.own = Nonce + 1]
<1>7. ASSUME CanAttach(run.typeID, plan.chain, bytes),
             rollups' = Append(rollups, NewRollup(run.typeID, plan.chain, bytes)),
             procs' = [Disturb(Procs \ {p}) EXCEPT
                         ![p].own = Nonce + 1, ![p].step = NextStep(plan, @)]
      PROVE  CreationIInv'
  <2>1. PICK rollup : Attached(plan, run.typeID, rollup)
    BY <1>5, <1>7 DEF Attached
  <2>2. Joined(plan, run.typeID, rollup)
    BY <1>4, <2>1, NewRollupOK
  <2>3. PICK id \in Nat : id = Nonce + 1
    BY <2>2 DEF Joined
  <2>4. PICK fresh \in Runs : fresh = [run EXCEPT !.own = id]
    BY <2>3 DEF Runs
  <2>5. /\ fresh.step = run.step /\ fresh.plan = run.plan /\ fresh.address = run.address
        /\ fresh.typeID = run.typeID /\ fresh.own = id /\ fresh.impl = run.impl
        /\ fresh.disturbed = run.disturbed
    BY <2>4 DEF Runs
  <2>6. /\ Advanced(fresh).step = NextStep(plan, run.step) /\ Advanced(fresh).plan = plan
        /\ Advanced(fresh).address = run.address /\ Advanced(fresh).typeID = run.typeID
        /\ Advanced(fresh).own = id /\ Advanced(fresh).impl = run.impl
        /\ Advanced(fresh).disturbed = run.disturbed
    BY <1>2, <2>5, AdvancedFields
  <2>7. run.step = AttachAt(plan)
    BY <1>2, <1>3, CreationCalls
  <2>8. /\ run.typeID \in DOMAIN types
        /\ plan.tool = "createNewRollup" =>
             types[run.typeID].verifierType = VerifierType(plan.consensus)
        /\ run.address # 0 /\ run.own = 0
        /\ ~run.disturbed => run.address = IF run.own = 0 THEN Nonce + 1 ELSE run.own
    BY <1>2, <1>3, <2>7 DEF CreationOK, AttachAt, TypeAt, NonceAt
  <2>9. /\ Advanced(fresh).step > AttachAt(plan) /\ ~(Advanced(fresh).step > ExpectAt(plan))
        /\ ~(plan.tool = "createRollup" /\ Advanced(fresh).step = 6)
        /\ Advanced(fresh).step \in Nat /\ AttachAt(plan) \in Nat
    BY <1>2, <1>3, <2>6, <2>7, NextCallOfCreation, PlansHaveTools, ScriptsEnd
       DEF AttachAt, ExpectAt
  <2>10. AsPlanned(rollup, plan)
    BY <2>2, <2>8 DEF Joined, AsPlanned, InitializeBytes
  <2>11. CreationOK(Advanced(fresh))'
    <3>1. /\ types'[run.typeID] = types[run.typeID] /\ types' = types
          /\ rollups'[id] = rollup /\ id \in DOMAIN rollups' /\ id # 0
      BY <1>5, <2>2, <2>3 DEF Joined
    <3> HIDE DEF plan, bytes, next
    <3> QED BY <1>3, <2>2, <2>3, <2>6, <2>8, <2>9, <2>10, <3>1
            DEF CreationOK, Joined
  <2>12. Advanced(fresh) \in Runs /\ RunOK(Advanced(fresh))'
    BY <1>2, <2>5, <2>11, AdvancedLater
  <2>13. PICK new \in [Procs -> Runs] :
           /\ procs' = new /\ new[p] = Advanced(fresh)
           /\ \A q \in Procs \ {p} : new[q] = Disturb(Procs \ {p})[q]
    <3>1. /\ Disturb(Procs \ {p}) \in [Procs -> Runs]
          /\ Disturb(Procs \ {p})[p] = run
      BY <1>1, DisturbedRuns
    <3>2. procs' = [Disturb(Procs \ {p}) EXCEPT ![p] = Advanced(fresh)]
      BY <1>7, <2>3, <2>4, <3>1 DEF Advanced, Runs
    <3> QED BY <2>12, <3>1, <3>2
  <2>14. PICK others \in SUBSET Procs : others = Procs \ {p}
    OBVIOUS
  <2>15. \A q \in others :
           /\ \/ new[q] = procs[q]
              \/ procs[q].address # 0 /\ new[q] = [procs[q] EXCEPT !.disturbed = TRUE]
           /\ new[q].disturbed \/ procs[q].own # 0 \/ procs[q].address = 0
    BY <2>13, <2>14, DisturbedRuns
  <2>16. /\ {p} \in SUBSET Procs /\ \A q \in {p} : RunOK(new[q])'
         /\ \A q \in Procs \ {p} :
              /\ \/ new[q] = procs[q]
                 \/ procs[q].address # 0 /\ new[q] = [procs[q] EXCEPT !.disturbed = TRUE]
              /\ new[q].disturbed \/ procs[q].own # 0 \/ procs[q].address = 0
    BY <2>12, <2>13, <2>14, <2>15
  <2> QED BY <1>5, <2>2, <2>13, <2>16, GrowStep DEF Joined
<1> QED BY <1>1, <1>6, <1>7 DEF Attach

\* A rollup is written to: its chain, implementation and type stay.
LEMMA RewrittenOK ==
    ASSUME CreationIInv, NEW id \in DOMAIN rollups, NEW entry \in RollupEntries,
           entry.chain = rollups[id].chain, entry.impl = rollups[id].impl,
           entry.verifierType = rollups[id].verifierType,
           \/ entry.gasToken = rollups[id].gasToken
           \/ entry.verifierType = "ALGateway",
           entry.committee.late \/ entry.committee.of \in {0, id},
           rollups' = [rollups EXCEPT ![id] = entry], UNCHANGED types
    PROVE  /\ rollups' \in Seq(RollupEntries) /\ Len(rollups') <= MaxRollups
           /\ types' \in Seq(TypeEntries) /\ Nonce' = Nonce
           /\ Grown /\ ChainsOK' /\ CommitteesOK'
<1>1. types \in Seq(TypeEntries) /\ rollups \in Seq(RollupEntries)
  BY DEF CreationIInv, TypesOK
<1>2. /\ rollups' \in Seq(RollupEntries) /\ Len(rollups') = Len(rollups)
      /\ DOMAIN rollups' = DOMAIN rollups /\ rollups'[id] = entry
      /\ \A i \in DOMAIN rollups \ {id} : rollups'[i] = rollups[i]
  BY <1>1, ExceptSeq
<1>3. Grown
  BY <1>2 DEF Grown, Stays
<1>4. ChainsOK' /\ CommitteesOK'
  BY <1>2 DEF CreationIInv, ChainsOK, CommitteesOK
<1> QED BY <1>1, <1>2, <1>3, <1>4 DEF CreationIInv, TypesOK, Nonce

\* A plain call that writes to a rollup.
LEMMA PlainWriteStep ==
    ASSUME CreationIInv, NEW p \in Procs, NEW call, Calling(p, call),
           call \notin {"typeKind", "typeCount", "nonce", "addType", "attach", "expect",
                        "output", "genesis"},
           Continue(p, procs[p]), UNCHANGED <<outputs, prepared, budget>>,
           rollups' \in Seq(RollupEntries), Len(rollups') <= MaxRollups,
           types' \in Seq(TypeEntries), Nonce' = Nonce, Grown, ChainsOK', CommitteesOK'
    PROVE  CreationIInv'
<1>1. PICK run \in Runs : run = procs[p]
  BY DEF CreationIInv, TypesOK
<1>2. /\ run.step \in 1..Len(Script(run.plan))
      /\ run.plan \in Plans \cup RepairPlans /\ Script(run.plan)[run.step] = call
      /\ CreatesRollup(run.plan) => CreationOK(run)
      /\ run.step < Len(Script(run.plan))
  BY <1>1, CallingFacts
<1>3. procs' = [procs EXCEPT ![p] = Advanced(run)]
  BY <1>1 DEF Continue, Advanced
<1>4. PICK next \in Runs : next = Advanced(run) /\ RunOK(next)
  BY <1>2, AdvancedOK, PlainCallOK
<1>5. RunOK(next)'
  BY GrownRun, <1>4
<1>6. /\ \A op \in prepared' : op \in PreparedCalls
      /\ budget' \in [starts : Nat, crashes : Nat]
  BY DEF CreationIInv, TypesOK
<1> QED BY <1>3, <1>4, <1>5, <1>6, OneRunStep

\* Only the token of an aggchain and its version are written.
LEMMA InitializedOK ==
    ASSUME CreationIInv, NEW id, NEW plan \in Plans \cup RepairPlans, NEW sender,
           CanInitialize(id, plan, sender), rollups' = InitializedBy(id, plan),
           UNCHANGED types
    PROVE  /\ rollups' \in Seq(RollupEntries) /\ Len(rollups') <= MaxRollups
           /\ types' \in Seq(TypeEntries) /\ Nonce' = Nonce
           /\ Grown /\ ChainsOK' /\ CommitteesOK'
<1>1. id \in DOMAIN rollups /\ rollups[id].verifierType = "ALGateway"
  BY DEF CanInitialize
<1>2. rollups[id] \in RollupEntries /\ rollups \in Seq(RollupEntries)
  BY <1>1 DEF CreationIInv, TypesOK
<1>3. PICK token \in Tokens :
        token = IF plan.tool = "createRollup" THEN Resolve(plan.gasToken).address
                                              ELSE plan.gasToken
  BY DEF Resolve, Tokens, RepairPlans
<1> DEFINE entry == [rollups[id] EXCEPT !.version = 2, !.gasToken = token]
<1>4. /\ entry \in RollupEntries /\ entry.chain = rollups[id].chain
      /\ entry.impl = rollups[id].impl /\ entry.verifierType = rollups[id].verifierType
      /\ entry.committee = rollups[id].committee
  <2>1. PICK old \in RollupEntries : old = rollups[id]
    BY <1>2
  <2>2. [old EXCEPT !.version = 2, !.gasToken = token] \in RollupEntries
    <3>1. \A e \in RollupEntries : [e EXCEPT !.version = 2] \in RollupEntries
      BY DEF RollupEntries
    <3>2. \A e \in RollupEntries : [e EXCEPT !.gasToken = token] \in RollupEntries
      BY DEF RollupEntries
    <3> QED BY <3>1, <3>2
  <2>3. LET e == [old EXCEPT !.version = 2, !.gasToken = token] IN
        /\ e.chain = old.chain /\ e.impl = old.impl
        /\ e.verifierType = old.verifierType /\ e.committee = old.committee
    BY DEF RollupEntries
  <2> QED BY <2>1, <2>2, <2>3
<1>5. rollups' = [rollups EXCEPT ![id] = entry]
  BY <1>1, <1>2, <1>3 DEF InitializedBy, RollupEntries
<1>6. entry.committee.late \/ entry.committee.of \in {0, id}
  BY <1>1, <1>4 DEF CreationIInv, CommitteesOK
<1> HIDE DEF entry
<1> QED BY <1>1, <1>4, <1>5, <1>6, RewrittenOK

LEMMA InitializeStep ==
    ASSUME CreationIInv, NEW p \in Procs, Initialize(p)
    PROVE  CreationIInv'
<1>1. /\ Calling(p, "initialize") /\ UNCHANGED <<types, outputs, prepared, budget>>
      /\ \A op \in prepared : op \in PreparedCalls
      /\ budget \in [starts : Nat, crashes : Nat]
  BY DEF Initialize, CreationIInv, TypesOK
<1>2. CASE Throw(p) /\ UNCHANGED rollups
  BY <1>1, <1>2, ThrowStep
<1>3. ASSUME CanInitialize(procs[p].address, procs[p].plan, "deployer"),
             rollups' = InitializedBy(procs[p].address, procs[p].plan),
             Continue(p, procs[p])
      PROVE  CreationIInv'
  <2>1. procs[p].plan \in Plans \cup RepairPlans
    BY <1>1, CallingFacts
  <2>2. /\ rollups' \in Seq(RollupEntries) /\ Len(rollups') <= MaxRollups
        /\ types' \in Seq(TypeEntries) /\ Nonce' = Nonce
        /\ Grown /\ ChainsOK' /\ CommitteesOK'
    BY <1>1, <1>3, <2>1, InitializedOK
  <2> QED BY <1>1, <1>3, <2>2, PlainWriteStep
<1> QED BY <1>2, <1>3 DEF Initialize

\* A run that is not late has computed the address of its own rollup.
LEMMA SetCommitteeStep ==
    ASSUME CreationIInv, NEW p \in Procs, SetCommittee(p)
    PROVE  CreationIInv'
<1>1. PICK run \in Runs : run = procs[p]
  BY DEF CreationIInv, TypesOK
<1>2. /\ run.step \in 1..Len(Script(run.plan))
      /\ run.plan \in Plans \cup RepairPlans
      /\ Script(run.plan)[run.step] = "committee"
      /\ CreatesRollup(run.plan) => CreationOK(run)
  BY <1>1, CallingFacts DEF SetCommittee
<1>3. CreatesRollup(run.plan)
  BY <1>2, PlansHaveTools DEF Script, CreatesRollup, Tools
<1>4. /\ Calling(p, "committee") /\ UNCHANGED <<types, outputs, prepared, budget>>
      /\ \A op \in prepared : op \in PreparedCalls
      /\ budget \in [starts : Nat, crashes : Nat]
  BY DEF SetCommittee, CreationIInv, TypesOK
<1>5. CASE Throw(p) /\ UNCHANGED rollups
  BY <1>4, <1>5, ThrowStep
<1>6. CASE Continue(p, procs[p]) /\ UNCHANGED rollups
  BY <1>4, <1>6, PlainCallStep
<1>7. ASSUME run.address \in DOMAIN rollups, Continue(p, procs[p]),
             rollups' = [rollups EXCEPT ![run.address].committee =
                           [of |-> run.own, late |-> run.disturbed]]
      PROVE  CreationIInv'
  <2> DEFINE id    == run.address
             entry == [rollups[id] EXCEPT !.committee =
                         [of |-> run.own, late |-> run.disturbed]]
  <2>1. run.step > AttachAt(run.plan) /\ run.step > NonceAt(run.plan)
    BY <1>2, <1>3, CreationCalls DEF AttachAt, NonceAt
  <2>2. run.own \in DOMAIN rollups
    BY <1>2, <1>3, <2>1 DEF CreationOK
  <2>3. rollups[id] \in RollupEntries /\ rollups \in Seq(RollupEntries)
    BY <1>7 DEF CreationIInv, TypesOK
  <2>4. run.own # 0
    BY <2>2, <2>3
  <2>5. run.disturbed \/ run.own = id
    BY <1>2, <1>3, <2>1, <2>4 DEF CreationOK
  <2>6. /\ entry \in RollupEntries /\ entry.chain = rollups[id].chain
        /\ entry.impl = rollups[id].impl /\ entry.verifierType = rollups[id].verifierType
        /\ entry.gasToken = rollups[id].gasToken
        /\ entry.committee.late = run.disturbed /\ entry.committee.of = run.own
    BY <2>3 DEF RollupEntries, Runs
  <2>7. rollups' = [rollups EXCEPT ![id] = entry]
    BY <1>7, <2>3 DEF RollupEntries
  <2>8. entry.committee.late \/ entry.committee.of \in {0, id}
    BY <2>5, <2>6
  <2>9. id \in DOMAIN rollups
    BY <1>7
  <2> HIDE DEF entry, id
  <2>10. /\ rollups' \in Seq(RollupEntries) /\ Len(rollups') <= MaxRollups
         /\ types' \in Seq(TypeEntries) /\ Nonce' = Nonce
         /\ Grown /\ ChainsOK' /\ CommitteesOK'
    BY <1>4, <2>6, <2>7, <2>8, <2>9, RewrittenOK
  <2> QED BY <1>4, <1>7, <2>10, PlainWriteStep
<1> QED BY <1>1, <1>5, <1>6, <1>7 DEF SetCommittee

\* What was prepared is sent: no run learns of it.
LEMMA ExecuteStep ==
    ASSUME CreationIInv, NEW op \in prepared, Execute(op)
    PROVE  CreationIInv'
<1>1. /\ op \in PreparedCalls /\ procs \in [Procs -> Runs]
      /\ UNCHANGED <<outputs, budget>>
      /\ \A other \in prepared' : other \in PreparedCalls
      /\ budget' \in [starts : Nat, crashes : Nat]
  BY DEF Execute, CreationIInv, TypesOK
<1>2. op.plan \in Plans \cup RepairPlans /\ op.impl \in Impls
  BY <1>1 DEF PreparedCalls
<1>3. {} \in SUBSET Procs /\ \A q \in {} : RunOK(q)'
  OBVIOUS
<1>4. ASSUME UNCHANGED procs, Nonce' = Nonce, Grown, ChainsOK', CommitteesOK',
             types' \in Seq(TypeEntries), rollups' \in Seq(RollupEntries),
             Len(rollups') <= MaxRollups
      PROVE  CreationIInv'
  <2>1. PICK new \in [Procs -> Runs] : procs' = new /\ new = procs
    BY <1>1, <1>4
  <2>2. \A q \in Procs \ {} : new[q] = procs[q]
    BY <2>1
  <2>3. \A q \in {} : RunOK(new[q])'
    OBVIOUS
  <2> QED BY <1>1, <1>3, <1>4, <2>1, <2>2, <2>3, GrowStep
<1>5. CASE /\ types' = Append(types, NewType(op.plan.consensus, op.impl))
           /\ UNCHANGED <<rollups, procs>>
  BY <1>2, <1>4, <1>5, NewTypeOK
<1>6. CASE /\ op.plan.tool = "createNewRollup"
           /\ CanAttach(op.plan.rollupTypeId, op.plan.chain, InitializeBytes(op.plan))
           /\ rollups' = Append(rollups, NewRollup(op.plan.rollupTypeId, op.plan.chain,
                                                   InitializeBytes(op.plan)))
           /\ procs' = Disturb(Procs) /\ UNCHANGED types
  <2>1. op.plan \in Plans
    BY <1>2, <1>6 DEF RepairPlans
  <2>2. PICK rollup : Attached(op.plan, op.plan.rollupTypeId, rollup)
    BY <1>6 DEF Attached
  <2>3. Joined(op.plan, op.plan.rollupTypeId, rollup)
    BY <2>1, <2>2, NewRollupOK
  <2>4. PICK others \in SUBSET Procs : others = Procs
    OBVIOUS
  <2>5. PICK new \in [Procs -> Runs] : procs' = new /\ new = Disturb(others)
    BY <1>6, <2>4, DisturbedRuns
  <2>6. \A q \in Procs \ {} :
          /\ \/ new[q] = procs[q]
             \/ procs[q].address # 0 /\ new[q] = [procs[q] EXCEPT !.disturbed = TRUE]
          /\ new[q].disturbed \/ procs[q].own # 0 \/ procs[q].address = 0
    BY <2>4, <2>5, DisturbedRuns
  <2>7. \A q \in {} : RunOK(new[q])'
    OBVIOUS
  <2> QED BY <1>1, <1>3, <2>3, <2>5, <2>6, <2>7, GrowStep DEF Joined
<1>7. CASE /\ CanInitialize(op.address, op.plan, op.plan.owner)
           /\ rollups' = InitializedBy(op.address, op.plan)
           /\ UNCHANGED <<types, procs>>
  BY <1>2, <1>4, <1>7, InitializedOK
<1> QED BY <1>5, <1>6, <1>7 DEF Execute

LEMMA MineGrantStep ==
    ASSUME CreationIInv, MineGrant
    PROVE  CreationIInv'
  BY StillStep DEF MineGrant

-----------------------------------------------------------------------------
(* The geneses.                                                            *)

GenesisParts == {"proxyAdmin", "bridgeImpl", "bridge", "gerImpl", "ger", "timelock",
                 "zkEVMDeployer", "deployer", "bytecodeStorer", "tokenWrapped",
                 "sovereignTokenWrapped", "weth", "account"}

\* The slots of bridge and exit roots, and the entry of the token, when
\* both are initialised.
BridgeSlots(p) ==
    [admin |-> <<"proxyAdmin">>, impl |-> L1BridgeImpl, initialized |-> 3,
     network |-> p.rollupID, gas |-> p.gas,
     weth |-> IF CreatesWETH(p) THEN WETHAt ELSE p.sovereignWETH,
     notMintable |-> p.wethNotMintable, ger |-> ExitRoots,
     manager |-> p.bridgeManager, tokensManager |-> p.proxiedTokensManager]

ExitRootSlots(p) ==
    [admin |-> <<"proxyAdmin">>, impl |-> <<"gerImpl">>, initialized |-> 1,
     updater |-> p.updater, remover |-> p.remover]

WETHEntry(p) ==
    IF CreatesWETH(p)
    THEN Entry("WETH", WETHAt, {}, [impl |-> TokenWrappedAt, bridge |-> Bridge]) ELSE Absent

\* The genesis that is not refused, part by part.
UpdatedFrom(genesis, p) ==
    /\ DOMAIN genesis = GenesisParts
    /\ genesis.proxyAdmin =
         Entry("ProxyAdmin", <<"proxyAdmin">>, {}, [owner |-> <<"timelock">>])
    /\ genesis.bridgeImpl =
         Entry("BridgeL2SovereignChain", L1BridgeImpl, {StorerAt, TokenWrappedAt},
               [initialized |-> 255])
    /\ genesis.bridge = Entry("Proxy", Bridge, {}, BridgeSlots(p))
    /\ genesis.gerImpl =
         Entry("GlobalExitRootManagerL2SovereignChain", <<"gerImpl">>, {Bridge},
               [initialized |-> 255])
    /\ genesis.ger = Entry("Proxy", ExitRoots, {}, ExitRootSlots(p))
    /\ genesis.timelock =
         Entry("PolygonZkEVMTimelock", <<"timelock">>, {}, [admin |-> <<"timelockAdmin">>])
    /\ genesis.zkEVMDeployer =
         Entry("PolygonZkEVMDeployer", <<"zkEVMDeployer">>, {}, [owner |-> <<"deployer">>])
    /\ genesis.deployer = Entry("none", <<"deployer">>, {}, NoSlots)
    /\ genesis.bytecodeStorer = Entry("BytecodeStorer", StorerAt, {}, NoSlots)
    /\ genesis.tokenWrapped =
         Entry("TokenWrapped", CreatedBy(L1BridgeImpl, 2), {}, NoSlots)
    /\ genesis.sovereignTokenWrapped =
         Entry("TokenWrapped", TokenWrappedAt, {}, [initialized |-> 255])
    /\ genesis.weth = WETHEntry(p)
    /\ genesis.account = Absent

LEMMA EntryWithSlots ==
    ASSUME NEW contract, NEW address, NEW old, NEW slots,
           NEW entry, entry = Entry(contract, address, {}, old),
           NEW next, next = [entry EXCEPT !.slots = slots]
    PROVE  next = Entry(contract, address, {}, slots)
  BY DEF Entry

\* The expects let nothing through but a genesis with both initialised.
LEMMA UpdatedParts ==
    ASSUME NEW p, NEW genesis, genesis = UpdateVanillaGenesis(BaseGenesis(TRUE), p),
           genesis # Refused
    PROVE  UpdatedFrom(genesis, p) /\ BridgeAccepts(p)
<1>1. PICK base : base = BaseGenesis(TRUE)
  OBVIOUS
<1>2. /\ DOMAIN base = GenesisParts
      /\ base.proxyAdmin =
           Entry("ProxyAdmin", <<"proxyAdmin">>, {}, [owner |-> <<"timelock">>])
      /\ base.bridgeImpl.address = L1BridgeImpl
      /\ base.bridge =
           Entry("Proxy", Bridge, {}, [admin |-> <<"proxyAdmin">>, impl |-> L1BridgeImpl])
      /\ base.gerImpl.address = <<"gerImpl">>
      /\ base.ger =
           Entry("Proxy", ExitRoots, {}, [admin |-> <<"proxyAdmin">>, impl |-> <<"gerImpl">>])
      /\ base.timelock =
           Entry("PolygonZkEVMTimelock", <<"timelock">>, {}, [admin |-> <<"timelockAdmin">>])
      /\ base.zkEVMDeployer =
           Entry("PolygonZkEVMDeployer", <<"zkEVMDeployer">>, {}, [owner |-> <<"deployer">>])
      /\ base.deployer = Entry("none", <<"deployer">>, {}, NoSlots)
      /\ base.tokenWrapped =
           Entry("TokenWrapped", CreatedBy(L1BridgeImpl, 2), {}, NoSlots)
      /\ base.weth = Absent /\ base.account = Absent
  BY <1>1 DEF BaseGenesis, GenesisParts, Entry, Account
<1>3. PICK sovereign : sovereign = WithSovereignCode(base)
  OBVIOUS
<1>4. /\ DOMAIN sovereign = GenesisParts
      /\ \A part \in GenesisParts \ {"bridgeImpl", "gerImpl", "sovereignTokenWrapped",
                                     "bytecodeStorer"} : sovereign[part] = base[part]
      /\ sovereign.bridgeImpl =
           Entry("BridgeL2SovereignChain", L1BridgeImpl, {StorerAt, TokenWrappedAt},
                 [initialized |-> 255])
      /\ sovereign.gerImpl =
           Entry("GlobalExitRootManagerL2SovereignChain", <<"gerImpl">>, {Bridge},
                 [initialized |-> 255])
      /\ sovereign.bytecodeStorer = Entry("BytecodeStorer", StorerAt, {}, NoSlots)
      /\ sovereign.sovereignTokenWrapped =
           Entry("TokenWrapped", TokenWrappedAt, {}, [initialized |-> 255])
  <2>1. base.bridge.address = Bridge
    BY <1>2 DEF Entry
  <2> QED BY <1>2, <1>3, <2>1 DEF WithSovereignCode, StorerLeft, GenesisParts
<1>5. genesis = Initialised(sovereign, p)
  BY <1>1, <1>3 DEF UpdateVanillaGenesis
<1>6. BridgeAsExpected(genesis, p) /\ ExitRootsAsExpected(genesis, p)
  BY <1>1, <1>3, <1>5 DEF UpdateVanillaGenesis
<1>7. /\ DOMAIN genesis = GenesisParts
      /\ \A part \in GenesisParts \ {"bridge", "ger", "weth"} :
           genesis[part] = sovereign[part]
      /\ genesis.bridge = [sovereign.bridge EXCEPT !.slots = InitialisedBridge(sovereign, p)]
      /\ genesis.ger = [sovereign.ger EXCEPT !.slots = InitialisedExitRoots(sovereign, p)]
      /\ genesis.weth = IF CreatesWETH(p) /\ BridgeAccepts(p)
           THEN Entry("WETH", WETHAt, {}, [impl |-> TokenWrappedAt, bridge |-> Bridge])
           ELSE sovereign.weth
  <2>1. PICK bridge : bridge = [sovereign.bridge EXCEPT !.slots = InitialisedBridge(sovereign, p)]
    OBVIOUS
  <2>2. PICK ger : ger = [sovereign.ger EXCEPT !.slots = InitialisedExitRoots(sovereign, p)]
    OBVIOUS
  <2>3. PICK weth : weth = IF CreatesWETH(p) /\ BridgeAccepts(p)
           THEN Entry("WETH", WETHAt, {}, [impl |-> TokenWrappedAt, bridge |-> Bridge])
           ELSE sovereign.weth
    OBVIOUS
  <2>4. genesis = [sovereign EXCEPT !.bridge = bridge, !.ger = ger, !.weth = weth]
    BY <1>4, <1>5, <2>1, <2>2, <2>3 DEF Initialised, GenesisParts
  <2>5. /\ DOMAIN genesis = GenesisParts
        /\ \A part \in GenesisParts \ {"bridge", "ger", "weth"} :
             genesis[part] = sovereign[part]
        /\ genesis.bridge = bridge /\ genesis.ger = ger /\ genesis.weth = weth
    <3>1. DOMAIN sovereign = GenesisParts
      BY <1>4
    <3> QED BY <2>4, <3>1 DEF GenesisParts
  <2> QED BY <2>1, <2>2, <2>3, <2>5
<1>8. /\ sovereign.bridge =
           Entry("Proxy", Bridge, {}, [admin |-> <<"proxyAdmin">>, impl |-> L1BridgeImpl])
      /\ sovereign.ger =
           Entry("Proxy", ExitRoots, {}, [admin |-> <<"proxyAdmin">>, impl |-> <<"gerImpl">>])
      /\ sovereign.weth = Absent
  BY <1>2, <1>4 DEF GenesisParts
<1>9. /\ genesis.bridge.slots = InitialisedBridge(sovereign, p)
      /\ genesis.ger.slots = InitialisedExitRoots(sovereign, p)
  BY <1>7, <1>8 DEF Entry
<1>10. BridgeAccepts(p)
  <2>1. "initialized" \notin DOMAIN sovereign.bridge.slots
    BY <1>8 DEF Entry
  <2> QED BY <1>6, <1>9, <2>1 DEF BridgeAsExpected, InitialisedBridge
<1>11. p.updater # Zero
  <2>1. "initialized" \notin DOMAIN sovereign.ger.slots
    BY <1>8 DEF Entry
  <2> QED BY <1>6, <1>9, <2>1 DEF ExitRootsAsExpected, InitialisedExitRoots
<1>12. /\ InitialisedBridge(sovereign, p) = BridgeSlots(p)
       /\ InitialisedExitRoots(sovereign, p) = ExitRootSlots(p)
  BY <1>8, <1>10, <1>11
     DEF InitialisedBridge, InitialisedExitRoots, BridgeSlots, ExitRootSlots, Entry
<1>13. /\ genesis.bridge = Entry("Proxy", Bridge, {}, BridgeSlots(p))
       /\ genesis.ger = Entry("Proxy", ExitRoots, {}, ExitRootSlots(p))
  <2>2. PICK old, slots, entry, next :
          /\ old = [admin |-> <<"proxyAdmin">>, impl |-> L1BridgeImpl]
          /\ slots = BridgeSlots(p) /\ entry = sovereign.bridge /\ next = genesis.bridge
    OBVIOUS
  <2>3. entry = Entry("Proxy", Bridge, {}, old) /\ next = [entry EXCEPT !.slots = slots]
    BY <1>7, <1>8, <1>12, <2>2
  <2>4. next = Entry("Proxy", Bridge, {}, slots)
    BY <2>3, EntryWithSlots
  <2>5. PICK rootOld, rootSlots, rootEntry, rootNext :
          /\ rootOld = [admin |-> <<"proxyAdmin">>, impl |-> <<"gerImpl">>]
          /\ rootSlots = ExitRootSlots(p)
          /\ rootEntry = sovereign.ger /\ rootNext = genesis.ger
    OBVIOUS
  <2>6. /\ rootEntry = Entry("Proxy", ExitRoots, {}, rootOld)
        /\ rootNext = [rootEntry EXCEPT !.slots = rootSlots]
    BY <1>7, <1>8, <1>12, <2>5
  <2>7. rootNext = Entry("Proxy", ExitRoots, {}, rootSlots)
    BY <2>6, EntryWithSlots
  <2> QED BY <2>2, <2>4, <2>5, <2>7
<1>14. genesis.weth = WETHEntry(p)
  BY <1>7, <1>8, <1>10 DEF WETHEntry
<1>15. /\ \A part \in GenesisParts \ {"bridge", "ger", "weth", "bridgeImpl", "gerImpl",
                             "sovereignTokenWrapped", "bytecodeStorer"} :
            genesis[part] = base[part]
       /\ \A part \in {"bridgeImpl", "gerImpl", "sovereignTokenWrapped", "bytecodeStorer"} :
            genesis[part] = sovereign[part]
  <2>1. \A part \in GenesisParts \ {"bridgeImpl", "gerImpl", "sovereignTokenWrapped",
                                    "bytecodeStorer"} : sovereign[part] = base[part]
    BY <1>4
  <2>2. \A part \in GenesisParts \ {"bridge", "ger", "weth"} :
           genesis[part] = sovereign[part]
    BY <1>7
  <2> QED BY <2>1, <2>2 DEF GenesisParts
<1>16. /\ genesis.proxyAdmin = base.proxyAdmin /\ genesis.timelock = base.timelock
       /\ genesis.zkEVMDeployer = base.zkEVMDeployer /\ genesis.deployer = base.deployer
       /\ genesis.tokenWrapped = base.tokenWrapped /\ genesis.account = base.account
       /\ genesis.bridgeImpl = sovereign.bridgeImpl /\ genesis.gerImpl = sovereign.gerImpl
       /\ genesis.bytecodeStorer = sovereign.bytecodeStorer
       /\ genesis.sovereignTokenWrapped = sovereign.sovereignTokenWrapped
  BY <1>15 DEF GenesisParts
<1>17. /\ DOMAIN genesis = GenesisParts
       /\ genesis.bridge = Entry("Proxy", Bridge, {}, BridgeSlots(p))
       /\ genesis.ger = Entry("Proxy", ExitRoots, {}, ExitRootSlots(p))
       /\ genesis.weth = WETHEntry(p)
  BY <1>7, <1>13, <1>14
<1>18. /\ genesis.proxyAdmin =
            Entry("ProxyAdmin", <<"proxyAdmin">>, {}, [owner |-> <<"timelock">>])
       /\ genesis.timelock =
            Entry("PolygonZkEVMTimelock", <<"timelock">>, {}, [admin |-> <<"timelockAdmin">>])
       /\ genesis.zkEVMDeployer =
            Entry("PolygonZkEVMDeployer", <<"zkEVMDeployer">>, {}, [owner |-> <<"deployer">>])
       /\ genesis.deployer = Entry("none", <<"deployer">>, {}, NoSlots)
       /\ genesis.tokenWrapped =
            Entry("TokenWrapped", CreatedBy(L1BridgeImpl, 2), {}, NoSlots)
       /\ genesis.account = Absent
  BY <1>2, <1>16
<1>19. /\ genesis.bridgeImpl =
            Entry("BridgeL2SovereignChain", L1BridgeImpl, {StorerAt, TokenWrappedAt},
                  [initialized |-> 255])
       /\ genesis.gerImpl =
            Entry("GlobalExitRootManagerL2SovereignChain", <<"gerImpl">>, {Bridge},
                  [initialized |-> 255])
       /\ genesis.bytecodeStorer = Entry("BytecodeStorer", StorerAt, {}, NoSlots)
       /\ genesis.sovereignTokenWrapped =
            Entry("TokenWrapped", TokenWrappedAt, {}, [initialized |-> 255])
  BY <1>4, <1>16
<1> QED BY <1>10, <1>17, <1>18, <1>19, Zenon DEF UpdatedFrom

Fields == {"contract", "address", "code", "slots", "balance"}

LEMMA EntryFields ==
    ASSUME NEW contract, NEW address, NEW code, NEW slots,
           NEW entry, entry = Entry(contract, address, code, slots)
    PROVE  /\ DOMAIN entry = Fields /\ entry.contract = contract
           /\ entry.address = address /\ entry.slots = slots
           /\ Needs(entry) = code \cup {slots[s] : s \in AddressSlots \cap DOMAIN slots}
  BY DEF Entry, Fields, Needs

LEMMA AbsentFields ==
    DOMAIN Absent = Fields /\ Absent.contract = "absent"
  BY DEF Absent, Account, Fields

\* Where the parts of a genesis are: no two at one address.
LEMMA UpdatedAddresses ==
    ASSUME NEW p, NEW genesis, UpdatedFrom(genesis, p)
    PROVE  /\ \A part \in GenesisParts : DOMAIN genesis[part] = Fields
           /\ \A part \in Parts(genesis) : genesis[part].contract # "absent"
           /\ GenesisParts \ {"weth", "account"} \subseteq Parts(genesis)
           /\ Parts(genesis) \subseteq GenesisParts \ {"account"}
           /\ CreatesWETH(p) <=> "weth" \in Parts(genesis)
           /\ \A a, b \in Parts(genesis) :
                a # b => genesis[a].address # genesis[b].address
<1>1. \A part \in GenesisParts \ {"weth", "account"} :
         DOMAIN genesis[part] = Fields /\ genesis[part].contract # "absent"
  BY EntryFields DEF UpdatedFrom, GenesisParts
<1>2. /\ DOMAIN genesis.weth = Fields /\ DOMAIN genesis.account = Fields
      /\ genesis.account = Absent
      /\ CreatesWETH(p) => genesis.weth.contract # "absent" /\ genesis.weth.address = WETHAt
      /\ ~CreatesWETH(p) => genesis.weth = Absent
  BY EntryFields, AbsentFields DEF UpdatedFrom, WETHEntry
<1>3. \A part \in GenesisParts : DOMAIN genesis[part] = Fields
  BY <1>1, <1>2
<1>4. DOMAIN genesis = GenesisParts
  BY DEF UpdatedFrom
<1>5. /\ GenesisParts \ {"weth", "account"} \subseteq Parts(genesis)
      /\ Parts(genesis) \subseteq GenesisParts \ {"account"}
      /\ CreatesWETH(p) <=> "weth" \in Parts(genesis)
      /\ \A part \in Parts(genesis) : genesis[part].contract # "absent"
  BY <1>1, <1>2, <1>4, AbsentFields DEF Parts, GenesisParts
<1>6. /\ genesis.proxyAdmin.address = <<"proxyAdmin">>
      /\ genesis.bridgeImpl.address = <<"bridgeImpl">>
      /\ genesis.bridge.address = <<"bridge">> /\ genesis.gerImpl.address = <<"gerImpl">>
      /\ genesis.ger.address = <<"0xa40d">> /\ genesis.timelock.address = <<"timelock">>
      /\ genesis.zkEVMDeployer.address = <<"zkEVMDeployer">>
      /\ genesis.deployer.address = <<"deployer">>
      /\ genesis.bytecodeStorer.address = <<"create", <<"keyless", "BridgeL2SovereignChain">>, 1>>
      /\ genesis.tokenWrapped.address = <<"create", <<"bridgeImpl">>, 2>>
      /\ genesis.sovereignTokenWrapped.address =
           <<"create", <<"keyless", "BridgeL2SovereignChain">>, 2>>
  BY EntryFields
     DEF UpdatedFrom, StorerAt, TokenWrappedAt, SovereignBridge, Keyless, CreatedBy,
         L1BridgeImpl, Bridge, ExitRoots
<1>7. \A a, b \in GenesisParts \ {"weth", "account"} :
         a # b => genesis[a].address # genesis[b].address
  BY <1>6 DEF GenesisParts
<1>8. ASSUME CreatesWETH(p), NEW a \in GenesisParts \ {"weth", "account"}
      PROVE  genesis[a].address # genesis.weth.address
  <2>1. genesis[a].address[1] # "create2"
    BY <1>6 DEF GenesisParts
  <2>2. WETHAt[1] = "create2"
    BY DEF WETHAt
  <2> QED BY <1>2, <1>8, <2>1, <2>2
<1> QED BY <1>3, <1>5, <1>7, <1>8

\* A genesis that is not refused starts the chain it was asked for.
LEMMA UpdatedFits ==
    ASSUME NEW p, NEW genesis, UpdatedFrom(genesis, p), BridgeAccepts(p)
    PROVE  /\ Closed(genesis) /\ Sealed(genesis)
           /\ genesis.bridge.slots.network = p.rollupID
           /\ genesis.bridge.slots.gas = p.gas
           /\ (p.gas = Ether) <=> (genesis.bridge.slots.weth = Zero)
<1>1. /\ genesis.bridge.slots = BridgeSlots(p) /\ genesis.ger.slots = ExitRootSlots(p)
      /\ \A part \in {"bridgeImpl", "gerImpl", "sovereignTokenWrapped"} :
           genesis[part].slots = [initialized |-> 255]
  BY EntryFields DEF UpdatedFrom
<1>2. Sealed(genesis)
  BY <1>1 DEF Sealed, BridgeSlots, ExitRootSlots
<1>3. /\ genesis.bridge.slots.network = p.rollupID /\ genesis.bridge.slots.gas = p.gas
      /\ genesis.bridge.slots.weth = IF CreatesWETH(p) THEN WETHAt ELSE p.sovereignWETH
  BY <1>1 DEF BridgeSlots
<1>4. WETHAt # Zero
  BY DEF WETHAt, Zero
<1>5. (p.gas = Ether) <=> (genesis.bridge.slots.weth = Zero)
  BY <1>3, <1>4 DEF CreatesWETH, BridgeAccepts
<1>6. /\ Needs(genesis.proxyAdmin) = {<<"timelock">>}
      /\ Needs(genesis.zkEVMDeployer) = {<<"deployer">>}
  BY EntryFields DEF UpdatedFrom, AddressSlots
<1>7. /\ Needs(genesis.bridgeImpl) = {StorerAt, TokenWrappedAt}
      /\ Needs(genesis.gerImpl) = {Bridge} /\ Needs(genesis.sovereignTokenWrapped) = {}
  BY EntryFields DEF UpdatedFrom, AddressSlots
<1>8. Needs(genesis.bridge) = {<<"proxyAdmin">>, L1BridgeImpl, ExitRoots}
  <2>1. /\ AddressSlots \cap DOMAIN BridgeSlots(p) = {"admin", "impl", "ger"}
        /\ BridgeSlots(p).admin = <<"proxyAdmin">> /\ BridgeSlots(p).impl = L1BridgeImpl
        /\ BridgeSlots(p).ger = ExitRoots
    BY DEF AddressSlots, BridgeSlots
  <2> QED BY <2>1, EntryFields DEF UpdatedFrom
<1>9. Needs(genesis.ger) = {<<"proxyAdmin">>, <<"gerImpl">>}
  <2>1. /\ AddressSlots \cap DOMAIN ExitRootSlots(p) = {"admin", "impl"}
        /\ ExitRootSlots(p).admin = <<"proxyAdmin">>
        /\ ExitRootSlots(p).impl = <<"gerImpl">>
    BY DEF AddressSlots, ExitRootSlots
  <2> QED BY <2>1, EntryFields DEF UpdatedFrom
<1>10. /\ Needs(genesis.deployer) = {} /\ Needs(genesis.bytecodeStorer) = {}
       /\ Needs(genesis.tokenWrapped) = {}
  BY EntryFields DEF UpdatedFrom, NoSlots
<1>11. CreatesWETH(p) => Needs(genesis.weth) = {TokenWrappedAt, Bridge}
  BY EntryFields DEF UpdatedFrom, WETHEntry, AddressSlots
<1>12. {<<"proxyAdmin">>, L1BridgeImpl, ExitRoots, <<"gerImpl">>, <<"timelock">>, Bridge,
        <<"deployer">>, StorerAt, TokenWrappedAt} \subseteq Addresses(genesis)
  <2>1. \A part \in GenesisParts \ {"weth", "account"} :
           genesis[part].address \in Addresses(genesis)
    BY UpdatedAddresses DEF Addresses
  <2>2. /\ genesis.proxyAdmin.address = <<"proxyAdmin">>
        /\ genesis.bridgeImpl.address = L1BridgeImpl
        /\ genesis.bridge.address = Bridge /\ genesis.gerImpl.address = <<"gerImpl">>
        /\ genesis.ger.address = ExitRoots /\ genesis.timelock.address = <<"timelock">>
        /\ genesis.deployer.address = <<"deployer">>
        /\ genesis.bytecodeStorer.address = StorerAt
        /\ genesis.sovereignTokenWrapped.address = TokenWrappedAt
    BY EntryFields DEF UpdatedFrom
  <2> QED BY <2>1, <2>2 DEF GenesisParts
<1>13. \A part \in Parts(genesis) \ {"timelock"} :
          Needs(genesis[part]) \subseteq Addresses(genesis)
  <2>1. Parts(genesis) \subseteq GenesisParts \ {"account"}
        /\ (CreatesWETH(p) <=> "weth" \in Parts(genesis))
    BY UpdatedAddresses
  <2> QED BY <1>6, <1>7, <1>8, <1>9, <1>10, <1>11, <1>12, <2>1 DEF GenesisParts
<1>14. Closed(genesis)
  BY <1>13, UpdatedAddresses DEF Closed
<1> QED BY <1>2, <1>3, <1>5, <1>14

\* Accounts with a balance and another admin of the timelock change none of it.
LEMMA SovereignFits ==
    ASSUME NEW p, NEW genesis, UpdatedFrom(genesis, p), BridgeAccepts(p),
           NEW account, NEW balance, NEW admin,
           NEW minted, minted = PreMint(genesis, account, balance), minted # Refused,
           NEW final, final = WithTimelock(minted, admin)
    PROVE  /\ Closed(final) /\ Sealed(final)
           /\ final.bridge.slots.network = p.rollupID
           /\ final.bridge.slots.gas = p.gas
           /\ (p.gas = Ether) <=> (final.bridge.slots.weth = Zero)
<1> DEFINE there == {part \in Parts(genesis) : genesis[part].address = account}
           new   == [Account(balance) EXCEPT !.address = account]
<1>1. /\ DOMAIN genesis = GenesisParts /\ genesis.account = Absent
      /\ \A part \in GenesisParts : DOMAIN genesis[part] = Fields
      /\ \A part \in Parts(genesis) : genesis[part].contract # "absent"
      /\ Parts(genesis) \subseteq GenesisParts \ {"account"}
      /\ GenesisParts \ {"weth", "account"} \subseteq Parts(genesis)
  <2>1. DOMAIN genesis = GenesisParts /\ genesis.account = Absent
    BY DEF UpdatedFrom
  <2> HIDE DEF there, new
  <2> QED BY <2>1, UpdatedAddresses
<1>2. /\ Closed(genesis) /\ Sealed(genesis)
      /\ genesis.bridge.slots.network = p.rollupID
      /\ genesis.bridge.slots.gas = p.gas
      /\ (p.gas = Ether) <=> (genesis.bridge.slots.weth = Zero)
  BY UpdatedFits
<1>3. /\ DOMAIN new = Fields /\ new.contract = "none" /\ new.address = account
      /\ new.slots = NoSlots /\ new.code = {}
  BY DEF Account, Fields
<1> HIDE DEF new
<1>4. /\ DOMAIN minted = GenesisParts
      /\ \A part \in GenesisParts \ {"account"} :
           /\ DOMAIN minted[part] = Fields
           /\ minted[part].contract = genesis[part].contract
           /\ minted[part].address = genesis[part].address
           /\ minted[part].code = genesis[part].code
           /\ minted[part].slots = genesis[part].slots
           /\ part \notin Parts(genesis) => minted[part] = Absent
      /\ \/ minted.account = Absent
         \/ /\ minted.account = new
            /\ \A part \in Parts(genesis) : genesis[part].address # account
  <2>1. CASE there = {}
    <3>1. minted = [genesis EXCEPT !.account = new]
      BY <2>1 DEF PreMint, new
    <3>2. \A part \in Parts(genesis) : genesis[part].address # account
      BY <2>1
    <3>3. \A part \in GenesisParts \ Parts(genesis) : genesis[part] = Absent
      BY <1>1 DEF Parts
    <3>4. "account" \in GenesisParts
      BY DEF GenesisParts
    <3> QED BY <1>1, <3>1, <3>2, <3>3, <3>4
  <2>2. CASE there # {}
    <3>1. minted = [part \in DOMAIN genesis |->
                      IF part \in there THEN [genesis[part] EXCEPT !.balance = balance]
                                        ELSE genesis[part]]
      BY <2>2 DEF PreMint
    <3>2. \A part \in GenesisParts \ Parts(genesis) : genesis[part] = Absent
      BY <1>1 DEF Parts
    <3>3. "account" \in GenesisParts
      BY DEF GenesisParts
    <3>4. \A e : DOMAIN e = Fields =>
            LET f == [e EXCEPT !.balance = balance] IN
            /\ DOMAIN f = Fields /\ f.contract = e.contract /\ f.address = e.address
            /\ f.code = e.code /\ f.slots = e.slots
      BY DEF Fields
    <3> QED BY <1>1, <3>1, <3>2, <3>3, <3>4
  <2> QED BY <2>1, <2>2
<1>5. /\ DOMAIN final = GenesisParts
      /\ \A part \in GenesisParts \ {"timelock"} : final[part] = minted[part]
      /\ DOMAIN final.timelock = Fields
      /\ final.timelock.contract = genesis.timelock.contract
      /\ final.timelock.address = genesis.timelock.address
  BY <1>4 DEF WithTimelock, GenesisParts, Fields
<1>6. /\ Parts(genesis) = Parts(final) \ {"account"}
      /\ \A part \in Parts(genesis) : final[part].address = genesis[part].address
      /\ \A part \in Parts(genesis) \ {"timelock"} : Needs(final[part]) = Needs(genesis[part])
  <2>1. \A part \in Parts(genesis) :
          /\ final[part].contract = genesis[part].contract
          /\ final[part].address = genesis[part].address
    BY <1>1, <1>4, <1>5
  <2>2. \A part \in Parts(genesis) : part \in Parts(final)
    BY <1>1, <1>5, <2>1, AbsentFields DEF Parts
  <2>3. \A part \in GenesisParts \ {"account"} :
          part \notin Parts(genesis) => part \notin Parts(final)
    BY <1>1, <1>4, <1>5 DEF Parts, GenesisParts
  <2>4. Parts(final) \subseteq GenesisParts
    BY <1>5 DEF Parts
  <2>5. \A part \in Parts(genesis) \ {"timelock"} : Needs(final[part]) = Needs(genesis[part])
    BY <1>1, <1>4, <1>5 DEF Needs
  <2> QED BY <1>1, <2>1, <2>2, <2>3, <2>4, <2>5
<1>7. Addresses(genesis) \subseteq Addresses(final)
  BY <1>6 DEF Addresses
<1>8. ASSUME "account" \in Parts(final)
      PROVE  /\ Needs(final.account) = {} /\ final.account.address = account
             /\ \A part \in Parts(genesis) : genesis[part].address # account
  <2>1. final.account = minted.account /\ final.account # Absent
    BY <1>5, <1>8 DEF Parts, GenesisParts
  <2> QED BY <1>3, <1>4, <2>1 DEF Needs, NoSlots
<1>9. Closed(final)
  BY <1>2, <1>6, <1>7, <1>8 DEF Closed
<1>10. /\ final.bridge.slots = genesis.bridge.slots /\ final.ger.slots = genesis.ger.slots
       /\ \A part \in {"bridgeImpl", "gerImpl", "sovereignTokenWrapped"} :
            final[part].slots = genesis[part].slots
  BY <1>4, <1>5 DEF GenesisParts
<1>11. Sealed(final)
  BY <1>2, <1>10 DEF Sealed
<1> QED BY <1>2, <1>9, <1>10, <1>11

-----------------------------------------------------------------------------
(* The files.                                                              *)

\* A run ends and leaves a file.
LEMMA WriteStep ==
    ASSUME CreationIInv, NEW p \in Procs, Throw(p),
           UNCHANGED <<types, rollups, prepared, budget>>,
           NEW file, outputs' = outputs \cup {file},
           file.tool = file.plan.tool, file.gas = Resolve(file.plan.gasToken),
           CreatesRollup(file.plan) =>
              /\ file.typeID \in DOMAIN types
              /\ {file.rollupID, file.address} \subseteq DOMAIN rollups
              /\ AsPlanned(rollups[file.rollupID], file.plan)
              /\ rollups[file.rollupID].impl = types[file.typeID].impl
              /\ rollups[file.address].impl = file.impl
              /\ ~file.disturbed => file.address = file.rollupID,
           file.genesis # Refused =>
              /\ Closed(file.genesis) /\ Sealed(file.genesis)
              /\ file.genesis.bridge.slots.network = file.rollupID
              /\ file.genesis.bridge.slots.gas = file.gas
              /\ (file.gas = Ether) <=> (file.genesis.bridge.slots.weth = Zero)
    PROVE  CreationIInv'
<1>1. procs' = [procs EXCEPT ![p] = Idle]
  BY DEF Throw
<1>2. TypesOK' /\ ChainsOK' /\ CommitteesOK'
  BY <1>1, IdleOK DEF CreationIInv, TypesOK, ChainsOK, CommitteesOK
<1>3. \A q \in Procs : procs'[q] = IF q = p THEN Idle ELSE procs[q]
  BY <1>1 DEF CreationIInv, TypesOK
<1>4. \A r : RunOK(r) => RunOK(r)'
  BY DEF RunOK, CreationOK, Nonce
<1>5. \A q \in Procs : RunOK(procs[q])'
  BY <1>3, <1>4, IdleOK DEF CreationIInv
<1>6. OutputsOK'
  BY DEF CreationIInv, OutputsOK
<1>7. OutputNamesItsRollup'
  <2>1. /\ \A out \in outputs' : CreatesRollup(out.plan) =>
             /\ rollups[out.rollupID].impl = types[out.typeID].impl
             /\ rollups[out.address].impl = out.impl
             /\ ~out.disturbed => out.address = out.rollupID
        /\ \A id \in DOMAIN rollups :
             rollups[id].committee.late \/ rollups[id].committee.of \in {0, id}
    BY DEF CreationIInv, OutputNamesItsRollup
  <2> QED BY <2>1 DEF OutputNamesItsRollup
<1>8. GenesisFitsL1'
  <2>1. ASSUME file.genesis # Refused, file.tool = "createNewRollup",
               VerifierType(file.plan.consensus) = "Pessimistic"
        PROVE  Resolve(rollups[file.rollupID].gasToken) = file.gas
    <3>1. AsPlanned(rollups[file.rollupID], file.plan)
      BY <2>1 DEF CreatesRollup
    <3> QED BY <2>1, <3>1 DEF AsPlanned
  <2>2. \A out \in outputs' : out \in outputs \/ out = file
    OBVIOUS
  <2> QED BY <2>1, <2>2 DEF CreationIInv, GenesisFitsL1
<1> QED BY <1>2, <1>5, <1>6, <1>7, <1>8 DEF CreationIInv

\* A run that has come to its file has its rollup, which is the only one of
\* its chain.
LEMMA WriteOutputStep ==
    ASSUME CreationIInv, NEW p \in Procs, WriteOutput(p)
    PROVE  CreationIInv'
<1>1. PICK run \in Runs : run = procs[p]
  BY DEF CreationIInv, TypesOK
<1>2. /\ run.step \in 1..Len(Script(run.plan))
      /\ run.plan \in Plans \cup RepairPlans
      /\ Script(run.plan)[run.step] = "output"
      /\ CreatesRollup(run.plan) => CreationOK(run)
  BY <1>1, CallingFacts DEF WriteOutput
<1>3. /\ Throw(p) /\ UNCHANGED <<types, rollups, prepared, budget>>
      /\ \A op \in prepared' : op \in PreparedCalls
      /\ budget' \in [starts : Nat, crashes : Nat]
  BY DEF WriteOutput, CreationIInv, TypesOK
<1>4. CASE outputs' = outputs
  BY <1>3, <1>4, ThrowStep
<1>5. ASSUME CreatesRollup(run.plan), outputs' = outputs \cup {OutputOf(run)}
      PROVE  CreationIInv'
  <2>1. run.plan \in Plans
    BY <1>2, <1>5 DEF RepairPlans, CreatesRollup
  <2>2. /\ run.step > TypeAt(run.plan) /\ run.step > NonceAt(run.plan)
        /\ run.step > AttachAt(run.plan) /\ run.step > ExpectAt(run.plan)
    <3>1. /\ run.step = Len(Script(run.plan))
          /\ run.plan.tool = "createRollup" => Len(Script(run.plan)) = 12
          /\ run.plan.tool = "createNewRollup" => Len(Script(run.plan)) = 9
      BY <1>2, <1>5, CreationCalls
    <3>2. CASE run.plan.tool = "createRollup"
      <4>1. run.step = 12
        BY <3>1, <3>2
      <4> QED BY <3>2, <4>1 DEF TypeAt, NonceAt, AttachAt, ExpectAt
    <3>3. CASE run.plan.tool = "createNewRollup"
      <4>1. run.step = 9 /\ run.plan.tool # "createRollup"
        BY <3>1, <3>3
      <4> QED BY <4>1 DEF TypeAt, NonceAt, AttachAt, ExpectAt
    <3> QED BY <1>5, <3>2, <3>3 DEF CreatesRollup
  <2>3. /\ run.typeID \in DOMAIN types /\ {run.own, run.address} \subseteq DOMAIN rollups
        /\ AsPlanned(rollups[run.own], run.plan)
        /\ rollups[run.own].chain = run.plan.chain
        /\ rollups[run.own].impl = types[run.typeID].impl
        /\ rollups[run.address].impl = run.impl
        /\ ~run.disturbed => run.address = IF run.own = 0 THEN Nonce + 1 ELSE run.own
    BY <1>2, <1>5, <2>2 DEF CreationOK
  <2>4. run.own \in 1..MaxRollups /\ run.own # 0
    BY <2>3, CreationAssumption DEF CreationIInv, TypesOK
  <2>5. (CHOOSE id \in RollupOf(run.plan.chain) : TRUE) = run.own
    <3>1. RollupOf(run.plan.chain) = {run.own}
      BY <2>3 DEF RollupOf, CreationIInv, ChainsOK
    <3> QED BY <3>1
  <2>6. PICK file : file = OutputOf(run)
    OBVIOUS
  <2>7. /\ file.tool = run.plan.tool /\ file.plan = run.plan
        /\ file.address = run.address /\ file.typeID = run.typeID /\ file.impl = run.impl
        /\ file.rollupID = run.own /\ file.disturbed = run.disturbed
        /\ file.gas = Resolve(run.plan.gasToken)
        /\ file.genesis = IF run.plan.vanilla THEN GenesisOf[run.plan][run.own] ELSE Refused
    BY <2>5, <2>6 DEF OutputOf
  <2>8. ASSUME file.genesis # Refused
        PROVE  /\ Closed(file.genesis) /\ Sealed(file.genesis)
               /\ file.genesis.bridge.slots.network = run.own
               /\ file.genesis.bridge.slots.gas = file.gas
               /\ (file.gas = Ether) <=> (file.genesis.bridge.slots.weth = Zero)
    <3>1. PICK params : params = GenesisParams(run.plan, run.own)
      OBVIOUS
    <3>2. params.rollupID = run.own /\ params.gas = file.gas
      BY <2>7, <3>1 DEF GenesisParams
    <3>3. file.genesis = UpdateVanillaGenesis(BaseGenesis(TRUE), params)
      BY <2>1, <2>4, <2>7, <2>8, <3>1 DEF GenesisOf
    <3>4. UpdatedFrom(file.genesis, params) /\ BridgeAccepts(params)
      BY <2>8, <3>3, UpdatedParts
    <3> QED BY <3>2, <3>4, UpdatedFits
  <2>9. outputs' = outputs \cup {file}
    BY <1>5, <2>6
  <2>10. /\ file.tool = file.plan.tool /\ file.gas = Resolve(file.plan.gasToken)
         /\ file.typeID \in DOMAIN types
         /\ {file.rollupID, file.address} \subseteq DOMAIN rollups
         /\ AsPlanned(rollups[file.rollupID], file.plan)
         /\ rollups[file.rollupID].impl = types[file.typeID].impl
         /\ rollups[file.address].impl = file.impl
         /\ ~file.disturbed => file.address = file.rollupID
    BY <2>3, <2>4, <2>7
  <2> QED BY <1>3, <2>7, <2>8, <2>9, <2>10, WriteStep
<1> QED BY <1>1, <1>4, <1>5 DEF WriteOutput

LEMMA WriteGenesisStep ==
    ASSUME CreationIInv, NEW p \in Procs, WriteGenesis(p)
    PROVE  CreationIInv'
<1>1. PICK plan : plan = procs[p].plan
  OBVIOUS
<1>2. plan.tool = "createSovereignGenesis" /\ plan \in Plans
  <2>1. PICK run \in Runs : run = procs[p]
    BY DEF CreationIInv, TypesOK
  <2>2. /\ run.step \in 1..Len(Script(run.plan)) /\ run.plan = plan
        /\ run.plan \in Plans \cup RepairPlans
        /\ Script(run.plan)[run.step] = "genesis"
    BY <1>1, <2>1, CallingFacts DEF WriteGenesis
  <2>3. plan.tool = "createSovereignGenesis"
    BY <2>2, PlansHaveTools DEF Script, Tools
  <2> QED BY <2>2, <2>3 DEF RepairPlans
<1>3. /\ Throw(p) /\ UNCHANGED <<types, rollups, prepared, budget>>
      /\ \A op \in prepared' : op \in PreparedCalls
      /\ budget' \in [starts : Nat, crashes : Nat]
  BY DEF WriteGenesis, CreationIInv, TypesOK
<1>4. CASE outputs' = outputs
  BY <1>3, <1>4, ThrowStep
<1>5. ASSUME SovereignGenesisOf[plan] # Refused,
             NEW file, outputs' = outputs \cup {file},
             file = [tool |-> plan.tool, plan |-> plan, rollupID |-> plan.rollupID,
                     address |-> IF plan.rollupID \in DOMAIN rollups
                                 THEN plan.rollupID ELSE 0,
                     gas |-> Resolve(plan.gasToken), genesis |-> SovereignGenesisOf[plan]]
      PROVE  CreationIInv'
  <2>1. PICK params, base :
          params = GenesisParams(plan, plan.rollupID) /\ base = BaseGenesis(TRUE)
    OBVIOUS
  <2>2. PICK genesis, minted :
          /\ genesis = UpdateVanillaGenesis(base, params)
          /\ minted = PreMint(genesis, plan.account, 1)
    OBVIOUS
  <2>3. SovereignGenesisOf[plan] =
          CreateSovereignGenesis(base, params, plan.account, 1, plan.timelockAdmin)
    BY <1>2, <2>1 DEF SovereignGenesisOf
  <2>4. /\ genesis # Refused /\ minted # Refused
        /\ SovereignGenesisOf[plan] = WithTimelock(minted, plan.timelockAdmin)
    BY <1>5, <2>2, <2>3 DEF CreateSovereignGenesis
  <2>5. UpdatedFrom(genesis, params) /\ BridgeAccepts(params)
    BY <2>1, <2>2, <2>4, UpdatedParts
  <2>6. params.rollupID = plan.rollupID /\ params.gas = Resolve(plan.gasToken)
    BY <2>1 DEF GenesisParams
  <2>7. PICK final : final = SovereignGenesisOf[plan]
    OBVIOUS
  <2>8. /\ Closed(final) /\ Sealed(final)
        /\ final.bridge.slots.network = plan.rollupID
        /\ final.bridge.slots.gas = Resolve(plan.gasToken)
        /\ (Resolve(plan.gasToken) = Ether) <=> (final.bridge.slots.weth = Zero)
    BY <2>2, <2>4, <2>5, <2>6, <2>7, SovereignFits
  <2>9. /\ file.tool = plan.tool /\ file.plan = plan /\ file.rollupID = plan.rollupID
        /\ file.gas = Resolve(plan.gasToken) /\ file.genesis = final
    BY <1>5, <2>7
  <2>10. ~CreatesRollup(plan)
    BY <1>2 DEF CreatesRollup
  <2> QED BY <1>3, <1>5, <2>8, <2>9, <2>10, WriteStep
<1> QED BY <1>1, <1>4, <1>5 DEF WriteGenesis

-----------------------------------------------------------------------------
(* The theorems.                                                           *)

LEMMA CreationStarts == Init => CreationIInv
<1> SUFFICES ASSUME Init
             PROVE  CreationIInv
  OBVIOUS
<1>1. TypesOK
  <2>1. types \in Seq(TypeEntries)
    <3>1. types \in Seq([consensus : Consensuses, verifierType : VerifierTypes,
                         impl : Seq(STRING)])
      BY CreationAssumption DEF Init, Consensuses
    <3>2. [consensus : Consensuses, verifierType : VerifierTypes, impl : Seq(STRING)]
            \subseteq TypeEntries
      BY DEF TypeEntries, Impls
    <3> QED BY <3>1, <3>2, SeqMonotonic
  <2>2. procs \in [Procs -> Runs]
    BY IdleOK DEF Init
  <2> QED BY <2>1, <2>2, CreationAssumption DEF Init, TypesOK
<1>2. \A p \in Procs : RunOK(procs[p])
  BY IdleOK DEF Init
<1>3. ChainsOK /\ CommitteesOK /\ OutputsOK /\ OutputNamesItsRollup /\ GenesisFitsL1
  BY DEF Init, ChainsOK, CommitteesOK, OutputsOK, OutputNamesItsRollup, GenesisFitsL1
<1> QED BY <1>1, <1>2, <1>3 DEF CreationIInv

LEMMA CreationContinues == CreationIInv /\ [Next]_vars => CreationIInv'
<1> SUFFICES ASSUME CreationIInv, [Next]_vars
             PROVE  CreationIInv'
  OBVIOUS
<1>1. CASE UNCHANGED vars
  BY <1>1, StillStep DEF vars
<1>2. CASE MineGrant
  BY <1>2, MineGrantStep
<1>3. ASSUME NEW p \in Procs, Start(p) \/ Crash(p) \/ Repair(p)
      PROVE  CreationIInv'
  BY <1>3, StartStep, CrashStep, RepairStep
<1>4. ASSUME NEW p \in Procs, Step(p)
      PROVE  CreationIInv'
  <2>1. CASE Grant(p) \/ CheckGasToken(p) \/ AddDefaultVKey(p)
    BY <2>1, GrantStep
  <2>2. CASE DeployImplementation(p) \/ CheckTypeKind(p) \/ ReadNonce(p)
    BY <2>2, DeployImplementationStep, CheckTypeKindStep, ReadNonceStep
  <2>3. CASE AddType(p) \/ ReadTypeCount(p) \/ Attach(p)
    BY <2>3, AddTypeStep, ReadTypeCountStep, AttachStep
  <2>4. CASE FindContract(p) \/ Initialize(p) \/ SetCommittee(p)
    BY <2>4, FindContractStep, InitializeStep, SetCommitteeStep
  <2>5. CASE Expect(p) \/ WriteOutput(p) \/ WriteGenesis(p) \/ Prepare(p)
    BY <2>5, ExpectStep, WriteOutputStep, WriteGenesisStep, PrepareStep
  <2> QED BY <1>4, <2>1, <2>2, <2>3, <2>4, <2>5 DEF Step
<1>5. ASSUME NEW op \in prepared, Execute(op)
      PROVE  CreationIInv'
  BY <1>5, ExecuteStep
<1> QED BY <1>1, <1>2, <1>3, <1>4, <1>5 DEF Next

\* Every reachable state satisfies the inductive invariant of the scripts.
THEOREM CreationInvariant == Spec => []CreationIInv
  BY CreationStarts, CreationContinues, PTL DEF Spec

\* The file a run writes names the type its rollup was made of and an address
\* where its implementation is, which is the rollup's own unless the run was
\* late, whatever other scripts run and die between its calls; and only a
\* late run has set the committee of another's rollup.
THEOREM OutputsNameTheirRollups == Spec => []OutputNamesItsRollup
<1>1. CreationIInv => OutputNamesItsRollup
  BY DEF CreationIInv
<1> QED BY <1>1, CreationInvariant, PTL

\* Every genesis that is written is closed and sealed, and has the network id
\* and the gas token of its rollup, for every parameter file.
THEOREM GenesesFitL1 == Spec => []GenesisFitsL1
<1>1. CreationIInv => GenesisFitsL1
  BY DEF CreationIInv
<1> QED BY <1>1, CreationInvariant, PTL

=============================================================================
