--------------------------- MODULE RollupCreation ---------------------------
(***************************************************************************)
(* The scripts that attach rollups: 4_createRollup, createNewRollup,       *)
(* addRollupType and initializeRollup, several of them running at once     *)
(* against one rollup manager with the key that administers it.            *)
(*                                                                         *)
(* A script is the sequence of its calls. It reads the manager's nonce and *)
(* its count of types and uses what it read after other calls, and a run   *)
(* that throws leaves on the chain what it had done.                       *)
(***************************************************************************)
EXTENDS Naturals, Sequences, VanillaGenesis

CONSTANTS Procs,         \* scripts that can run at once
          Plans,         \* parameter files the operator has
          InitialTypes,  \* rollup types added before
          MaxRollups,    \* rollupCount is a uint32: the largest id of a rollup
          MaxStarts,     \* bound: runs started
          MaxCrashes     \* bound: runs that die

VARIABLES types,     \* rollupTypeMap
          rollups,   \* rollup id -> its contract
          selectors, \* default keys the gateway has
          role,      \* ADD_ROLLUP_TYPE and CREATE_ROLLUP of the key
          prepared,  \* operations and calldata written for others to send
          outputs,   \* files written by finished runs
          procs,     \* locals of each running script
          budget     \* what is left of the bounds

vars == <<types, rollups, selectors, role, prepared, outputs, procs, budget>>

----------------------------------------------------------------------------
(* Contracts and tokens.                                                   *)

Aggchains == {"AggchainECDSA", "AggchainFEP"}
Legacy    == {"PolygonZkEVMEtrog", "PolygonValidiumEtrog",
              "PolygonPessimisticConsensus"}

VerifierTypes == {"ALGateway", "Pessimistic", "StateTransition"}

Tools == {"createRollup", "createNewRollup", "addRollupType", "initializeRollup",
          "createSovereignGenesis"}

\* The scripts refuse a consensus contract they do not support.
ASSUME CreationAssumption ==
  /\ MaxRollups \in Nat /\ MaxStarts \in Nat /\ MaxCrashes \in Nat
  /\ \A plan \in Plans : plan.tool \in Tools /\ plan.consensus \in Aggchains \cup Legacy
  /\ InitialTypes \in Seq([consensus : Aggchains \cup Legacy,
                           verifierType : VerifierTypes, impl : Seq(STRING)])

VerifierType(consensus) ==
  IF consensus \in Aggchains THEN "ALGateway"
  ELSE IF consensus = "PolygonPessimisticConsensus" THEN "Pessimistic"
  ELSE "StateTransition"

\* Tokens on L1: one that lives there, one that wraps a token of network 1,
\* whose own address holds no token on L1, and an address that is no token.
TokenL1   == <<"token">>
WrappedL1 == <<"wrapped">>
Origin    == <<"origin">>
NoToken   == <<"noToken">>

\* wrappedTokenToTokenInfo and the branch on it.
Resolve(token) ==
  IF token = WrappedL1 THEN [network |-> 1, address |-> Origin]
                       ELSE [network |-> 0, address |-> token]

\* getTokenMetadata of an address that answers no name is NOT_VALID_ENCODING.
ValidToken(token) == token \in {Zero, TokenL1, WrappedL1}

\* The manager creates nothing but rollups: its nonce counts them, and the
\* address of the next contract it creates is known by that count.
Nonce == Len(rollups)

RollupOf(chain) == {id \in DOMAIN rollups : rollups[id].chain = chain}

----------------------------------------------------------------------------
(* A run.                                                                  *)

\* Calls of each script, in order; Applies says which of them a run makes.
Script(plan) ==
  CASE plan.tool = "createRollup" ->
         <<"grant", "implementation", "gasToken", "nonce", "addType", "typeCount",
           "attach", "vkey", "initialize", "committee", "expect", "output">>
    [] plan.tool = "createNewRollup" ->
         <<"typeKind", "grant", "nonce", "prepare", "attach", "expect",
           "committee", "gasToken", "output">>
    [] plan.tool = "addRollupType" ->
         <<"grant", "implementation", "prepare", "addType", "typeCount", "output">>
    [] plan.tool = "initializeRollup" ->
         <<"contract", "prepare", "initialize", "output">>
    [] plan.tool = "createSovereignGenesis" -> <<"gasToken", "genesis">>

\* A run of type Timelock or Multisig writes its data and exits.
SendsItself(plan) == plan.type = "EOA"

Applies(call, plan) ==
  /\ call = "committee" => plan.consensus = "PolygonValidiumEtrog"
  /\ call \in {"vkey", "initialize"} => plan.consensus \in Aggchains
  /\ call = "prepare" => ~SendsItself(plan)
  /\ (call = "grant" /\ plan.tool = "addRollupType") => plan.type # "Timelock"

\* The next call of the script that the run makes, after i of them.
NextStep(plan, i) ==
  CHOOSE j \in (i + 1)..Len(Script(plan)) :
    /\ Applies(Script(plan)[j], plan)
    /\ \A k \in (i + 1)..(j - 1) : ~Applies(Script(plan)[k], plan)

NoPlan == [tool |-> "none"]
Idle   == [step |-> 0, plan |-> NoPlan, address |-> 0, typeID |-> 0,
           own |-> 0, impl |-> << >>, disturbed |-> FALSE]

Running(plan) == [Idle EXCEPT !.plan = plan, !.step = NextStep(plan, 0)]

Calling(p, call) ==
  procs[p].step > 0 /\ Script(procs[p].plan)[procs[p].step] = call

\* The next call of p is due, with these locals changed.
Continue(p, locals) ==
  procs' = [procs EXCEPT ![p] = [locals EXCEPT !.step = NextStep(locals.plan, @)]]

Throw(p) == procs' = [procs EXCEPT ![p] = Idle]

\* Checks on the parameters that end a run before it touches the chain.
Sane(plan) ==
  /\ (plan.tool = "createRollup" /\ plan.consensus \in Aggchains) => plan.vanilla
  /\ (plan.tool \in {"createRollup", "createNewRollup"} /\ plan.vanilla) =>
       plan.consensus \in Aggchains \cup {"PolygonPessimisticConsensus"}

\* The chain id is free (createNewRollup); the rollup is an aggchain and is
\* not fully initialised (initializeRollup).
Possible(plan) ==
  CASE plan.tool = "createNewRollup" -> RollupOf(plan.chain) = {}
    [] plan.tool = "initializeRollup" ->
         \E id \in RollupOf(plan.chain) :
           /\ rollups[id].verifierType = "ALGateway"
           /\ rollups[id].version \in {0, 1}
    [] OTHER -> TRUE

Init ==
  /\ types = InitialTypes /\ rollups = << >>
  /\ selectors = {} /\ role = "none"
  /\ prepared = {} /\ outputs = {}
  /\ procs = [p \in Procs |-> Idle]
  /\ budget = [starts |-> MaxStarts, crashes |-> MaxCrashes]

Start(p) ==
  /\ procs[p] = Idle /\ budget.starts > 0
  /\ \E plan \in Plans :
       /\ Sane(plan) /\ Possible(plan)
       /\ procs' = [procs EXCEPT ![p] = Running(plan)]
  /\ budget' = [budget EXCEPT !.starts = @ - 1]
  /\ UNCHANGED <<types, rollups, selectors, role, prepared, outputs>>

----------------------------------------------------------------------------
(* Calls that come before the rollup.                                      *)

\* The grant is sent and not waited for.
Grant(p) ==
  /\ Calling(p, "grant")
  /\ role' = IF role = "none" THEN "sent" ELSE role
  /\ Continue(p, procs[p])
  /\ UNCHANGED <<types, rollups, selectors, prepared, outputs, budget>>

\* Grants are mined in their time.
MineGrant ==
  /\ role = "sent"
  /\ role' = "held"
  /\ UNCHANGED <<types, rollups, selectors, prepared, outputs, procs, budget>>

\* A deployment is waited for, hence mined after the grant that was sent
\* before it by the same key.
DeployImplementation(p) ==
  /\ Calling(p, "implementation")
  /\ role' = IF role = "sent" THEN "held" ELSE role
  /\ Continue(p, [procs[p] EXCEPT !.impl = <<p, budget.starts, procs[p].plan.consensus>>])
  /\ UNCHANGED <<types, rollups, selectors, prepared, outputs, budget>>

\* createNewRollup: the type must be of the verifier type of the consensus
\* and, between rollup and validium, of the right one of the two.
CheckTypeKind(p) ==
  LET plan == procs[p].plan IN
  /\ Calling(p, "typeKind")
  /\ IF /\ plan.rollupTypeId \in DOMAIN types
        /\ types[plan.rollupTypeId].verifierType = VerifierType(plan.consensus)
        /\ VerifierType(plan.consensus) = "StateTransition" =>
             types[plan.rollupTypeId].consensus = plan.consensus
     THEN Continue(p, [procs[p] EXCEPT !.typeID = plan.rollupTypeId,
                                       !.impl = types[plan.rollupTypeId].impl])
     ELSE Throw(p)
  /\ UNCHANGED <<types, rollups, selectors, role, prepared, outputs, budget>>

CheckGasToken(p) ==
  /\ Calling(p, "gasToken")
  /\ IF ValidToken(procs[p].plan.gasToken) THEN Continue(p, procs[p]) ELSE Throw(p)
  /\ UNCHANGED <<types, rollups, selectors, role, prepared, outputs, budget>>

\* Seeded bug: the nonce of the last contract, not of the next one.
LastAddress == Nonce

\* The address of the rollup, computed before it is created.
NextAddress == Nonce + 1

ReadNonce(p) ==
  /\ Calling(p, "nonce")
  /\ Continue(p, [procs[p] EXCEPT !.address = NextAddress])
  /\ UNCHANGED <<types, rollups, selectors, role, prepared, outputs, budget>>

NewType(consensus, impl) ==
  [consensus |-> consensus, verifierType |-> VerifierType(consensus), impl |-> impl]

AddType(p) ==
  LET plan == procs[p].plan IN
  /\ Calling(p, "addType")
  /\ IF role = "held"
     THEN /\ types' = Append(types, NewType(plan.consensus, procs[p].impl))
          /\ Continue(p, procs[p])
     ELSE Throw(p) /\ UNCHANGED types
  /\ UNCHANGED <<rollups, selectors, role, prepared, outputs, budget>>

\* Whichever type came last.
ReadTypeCount(p) ==
  /\ Calling(p, "typeCount")
  /\ Continue(p, [procs[p] EXCEPT !.typeID = Len(types)])
  /\ UNCHANGED <<types, rollups, selectors, role, prepared, outputs, budget>>

----------------------------------------------------------------------------
(* The rollup.                                                             *)

\* What the manager hands to the new contract: for an aggchain its manager,
\* otherwise the arguments of initialize. createRollup puts the origin's
\* address of a wrapped gas token there, createNewRollup the one on L1.
InitializeBytes(plan) ==
  [form |-> IF plan.consensus \in Aggchains THEN "manager" ELSE "legacy",
   owner |-> plan.owner,
   gasToken |-> IF plan.tool = "createRollup" THEN Resolve(plan.gasToken).address
                                              ELSE plan.gasToken]

\* attachAggchainToAL. The arguments of initialize start with an address, so
\* that they can be read as a manager but not the other way round.
CanAttach(typeID, chain, bytes) ==
  /\ typeID \in DOMAIN types /\ Nonce < MaxRollups
  /\ RollupOf(chain) = {}
  /\ types[typeID].verifierType # "ALGateway" => bytes.form = "legacy"

\* The rollup a committee was deployed for, and whether the run that set it
\* was late (see Disturb).
NoCommittee == [of |-> 0, late |-> FALSE]

NewRollup(typeID, chain, bytes) ==
  LET type == types[typeID] IN
  [chain |-> chain, impl |-> type.impl, consensus |-> type.consensus,
   verifierType |-> type.verifierType, owner |-> bytes.owner,
   version |-> IF type.verifierType = "ALGateway" THEN 0 ELSE 1,
   gasToken |-> IF type.verifierType = "ALGateway" THEN Zero ELSE bytes.gasToken,
   committee |-> NoCommittee]

\* Every other run that has computed an address and not used it is late now.
Disturb(others) ==
  [p \in Procs |->
     IF p \in others /\ procs[p].address # 0 /\ procs[p].own = 0
     THEN [procs[p] EXCEPT !.disturbed = TRUE] ELSE procs[p]]

Attach(p) ==
  LET plan == procs[p].plan  bytes == InitializeBytes(plan)  id == Nonce + 1 IN
  /\ Calling(p, "attach")
  /\ IF role = "held" /\ CanAttach(procs[p].typeID, plan.chain, bytes)
     THEN /\ rollups' = Append(rollups, NewRollup(procs[p].typeID, plan.chain, bytes))
          /\ procs' = [Disturb(Procs \ {p}) EXCEPT
                         ![p].own = id, ![p].step = NextStep(plan, @)]
     ELSE Throw(p) /\ UNCHANGED rollups
  /\ UNCHANGED <<types, selectors, role, prepared, outputs, budget>>

\* createRollup: the selector must be of the aggchain's type, and new.
AddDefaultVKey(p) ==
  LET plan == procs[p].plan IN
  /\ Calling(p, "vkey")
  /\ IF plan.selector[1] = plan.consensus /\ plan.selector \notin selectors
     THEN /\ selectors' = selectors \cup {plan.selector}
          /\ Continue(p, procs[p])
     ELSE Throw(p) /\ UNCHANGED selectors
  /\ UNCHANGED <<types, rollups, role, prepared, outputs, budget>>

\* Seeded bug: only the reinitializer of an upgraded contract is there.
CanReinitialize(id, plan, sender) ==
  /\ id \in DOMAIN rollups
  /\ rollups[id].verifierType = "ALGateway" /\ rollups[id].version = 1
  /\ rollups[id].owner = sender
  /\ rollups[id].consensus = plan.consensus
  /\ plan.selector[1] = rollups[id].consensus

\* AggchainBase.initialize by its manager, once: of a fresh contract with
\* the version 0 arguments, of an upgraded one with those of version 1.
CanInitialize(id, plan, sender) ==
  /\ id \in DOMAIN rollups
  /\ rollups[id].verifierType = "ALGateway" /\ rollups[id].version \in {0, 1}
  /\ rollups[id].owner = sender
  /\ rollups[id].consensus = plan.consensus
  /\ plan.selector[1] = rollups[id].consensus

InitializedBy(id, plan) ==
  [rollups EXCEPT ![id].version = 2,
     ![id].gasToken = IF plan.tool = "createRollup"
                      THEN Resolve(plan.gasToken).address ELSE plan.gasToken]

\* initializeRollup asks the manager for the contract of its chain.
FindContract(p) ==
  /\ Calling(p, "contract")
  /\ \E id \in RollupOf(procs[p].plan.chain) :
       Continue(p, [procs[p] EXCEPT !.address = id, !.own = id])
  /\ UNCHANGED <<types, rollups, selectors, role, prepared, outputs, budget>>

Initialize(p) ==
  LET plan == procs[p].plan IN
  /\ Calling(p, "initialize")
  /\ IF CanInitialize(procs[p].address, plan, "deployer")
     THEN /\ rollups' = InitializedBy(procs[p].address, plan)
          /\ Continue(p, procs[p])
     ELSE Throw(p) /\ UNCHANGED rollups
  /\ UNCHANGED <<types, selectors, role, prepared, outputs, budget>>

\* A committee is deployed; the admin of the validium at the address sets
\* it, someone else's admin is left to do so. A call that the contract at
\* the address does not have reverts.
SetCommittee(p) ==
  LET id == procs[p].address IN
  /\ Calling(p, "committee")
  /\ IF id \notin DOMAIN rollups \/ rollups[id].verifierType = "ALGateway"
     THEN Throw(p) /\ UNCHANGED rollups
     ELSE IF rollups[id].owner # "deployer"
     THEN Continue(p, procs[p]) /\ UNCHANGED rollups
     ELSE IF rollups[id].consensus # "PolygonValidiumEtrog"
     THEN Throw(p) /\ UNCHANGED rollups
     ELSE /\ rollups' = [rollups EXCEPT ![id].committee =
                         [of |-> procs[p].own, late |-> procs[p].disturbed]]
          /\ Continue(p, procs[p])
  /\ UNCHANGED <<types, selectors, role, prepared, outputs, budget>>

\* The contract at the address has the implementation of the run.
Expect(p) ==
  /\ Calling(p, "expect")
  /\ IF /\ procs[p].address \in DOMAIN rollups
        /\ rollups[procs[p].address].impl = procs[p].impl
     THEN Continue(p, procs[p])
     ELSE Throw(p)
  /\ UNCHANGED <<types, rollups, selectors, role, prepared, outputs, budget>>

----------------------------------------------------------------------------
(* Outputs.                                                                *)

\* initializeParams of a vanilla client.
GenesisParams(plan, rollupID) ==
  [rollupID |-> rollupID, gas |-> Resolve(plan.gasToken),
   sovereignWETH |-> plan.weth, wethNotMintable |-> plan.notMintable,
   bridgeManager |-> <<"manager">>, updater |-> <<"updater">>,
   remover |-> plan.remover, proxiedTokensManager |-> <<"tokens">>]

\* The genesis of each parameter file and rollup id.
GenesisOf ==
  [plan \in Plans |-> [rollupID \in 1..MaxRollups |->
     UpdateVanillaGenesis(BaseGenesis(TRUE), GenesisParams(plan, rollupID))]]

SovereignGenesisOf ==
  [plan \in {q \in Plans : q.tool = "createSovereignGenesis"} |->
     CreateSovereignGenesis(BaseGenesis(TRUE), GenesisParams(plan, plan.rollupID),
                            plan.account, 1, plan.timelockAdmin)]

CreatesRollup(plan) == plan.tool \in {"createRollup", "createNewRollup"}

\* createRollup ends without a file when the genesis is refused, while
\* createNewRollup logs the error and writes the rest.
RefusesOutput(plan, rollupID) ==
  /\ plan.tool = "createRollup" /\ plan.vanilla
  /\ GenesisOf[plan][rollupID] = Refused

OutputOf(run) ==
  [tool |-> run.plan.tool, plan |-> run.plan, chain |-> run.plan.chain,
   address |-> run.address, typeID |-> run.typeID, impl |-> run.impl,
   rollupID |-> CHOOSE id \in RollupOf(run.plan.chain) : TRUE,
   disturbed |-> run.disturbed,
   \* the gas token of the first batch or of the genesis
   gas |-> Resolve(run.plan.gasToken),
   genesis |-> IF run.plan.vanilla THEN GenesisOf[run.plan][run.own] ELSE Refused]

\* Only runs that created a rollup write a file that names one.
WriteOutput(p) ==
  LET run == procs[p] IN
  /\ Calling(p, "output")
  /\ outputs' = IF CreatesRollup(run.plan) /\ ~RefusesOutput(run.plan, run.own)
                THEN outputs \cup {OutputOf(run)} ELSE outputs
  /\ Throw(p)
  /\ UNCHANGED <<types, rollups, selectors, role, prepared, budget>>

\* create-sovereign-genesis takes the id from its file, before or after the
\* rollup is there, and writes the address the manager has for it.
WriteGenesis(p) ==
  LET plan == procs[p].plan
      genesis == SovereignGenesisOf[plan] IN
  /\ Calling(p, "genesis")
  /\ outputs' = IF genesis = Refused THEN outputs
                ELSE outputs \cup
                  {[tool |-> plan.tool, plan |-> plan, rollupID |-> plan.rollupID,
                    address |-> IF plan.rollupID \in DOMAIN rollups THEN plan.rollupID ELSE 0,
                    gas |-> Resolve(plan.gasToken), genesis |-> genesis]}
  /\ Throw(p)
  /\ UNCHANGED <<types, rollups, selectors, role, prepared, budget>>

\* The call of the operation or calldata a run leaves behind. The timelock
\* operation of initializeRollup is addressed to the rollup manager.
Target(plan) ==
  IF plan.tool = "initializeRollup" /\ plan.type = "Multisig" THEN "aggchain" ELSE "manager"

Prepare(p) ==
  LET run == procs[p] IN
  /\ Calling(p, "prepare")
  /\ prepared' = prepared \cup
       {[plan |-> run.plan, target |-> Target(run.plan), impl |-> run.impl,
         address |-> run.address]}
  /\ Throw(p)
  /\ UNCHANGED <<types, rollups, selectors, role, outputs, budget>>

\* The timelock or the multisig sends what was prepared; they hold the roles.
Execute(op) ==
  LET plan == op.plan  bytes == InitializeBytes(plan) IN
  /\ op \in prepared
  /\ \/ /\ plan.tool = "addRollupType"
        /\ types' = Append(types, NewType(plan.consensus, op.impl))
        /\ UNCHANGED <<rollups, procs>>
     \/ /\ plan.tool = "createNewRollup"
        /\ CanAttach(plan.rollupTypeId, plan.chain, bytes)
        /\ rollups' = Append(rollups, NewRollup(plan.rollupTypeId, plan.chain, bytes))
        /\ procs' = Disturb(Procs)
        /\ UNCHANGED types
     \/ /\ plan.tool = "initializeRollup" /\ op.target = "aggchain"
        /\ CanInitialize(op.address, plan, plan.owner)
        /\ rollups' = InitializedBy(op.address, plan)
        /\ UNCHANGED <<types, procs>>
  /\ prepared' = prepared \ {op}
  /\ UNCHANGED <<selectors, role, outputs, budget>>

----------------------------------------------------------------------------

\* The process dies or a transaction is refused by the node.
Crash(p) ==
  /\ procs[p] # Idle /\ budget.crashes > 0
  /\ budget' = [budget EXCEPT !.crashes = @ - 1]
  /\ Throw(p)
  /\ UNCHANGED <<types, rollups, selectors, role, prepared, outputs>>

\* An aggchain the scripts left uninitialised is initialised by its manager
\* with initializeRollup, by key or by multisig, once nothing runs.
Repair(p) ==
  /\ \A q \in Procs : procs[q] = Idle
  /\ \E id \in DOMAIN rollups :
       /\ rollups[id].verifierType = "ALGateway" /\ rollups[id].version = 0
       /\ LET plan == [tool |-> "initializeRollup",
                       type |-> IF rollups[id].owner = "deployer" THEN "EOA" ELSE "Multisig",
                       consensus |-> rollups[id].consensus, chain |-> rollups[id].chain,
                       owner |-> rollups[id].owner, gasToken |-> Zero,
                       selector |-> <<rollups[id].consensus>>] IN
          procs' = [procs EXCEPT ![p] = Running(plan)]
  /\ UNCHANGED <<types, rollups, selectors, role, prepared, outputs, budget>>

Step(p) ==
  \/ Grant(p) \/ DeployImplementation(p) \/ CheckTypeKind(p) \/ CheckGasToken(p)
  \/ ReadNonce(p) \/ AddType(p) \/ ReadTypeCount(p) \/ Attach(p)
  \/ AddDefaultVKey(p) \/ FindContract(p) \/ Initialize(p) \/ SetCommittee(p)
  \/ Expect(p) \/ WriteOutput(p)
  \/ WriteGenesis(p) \/ Prepare(p)

Next ==
  \/ MineGrant
  \/ \E p \in Procs : Start(p) \/ Step(p) \/ Crash(p) \/ Repair(p)
  \/ \E op \in prepared : Execute(op)

\* Running scripts go on, transactions are mined, what was prepared is sent
\* when it can be, and an aggchain that needs it is initialised.
Spec ==
  /\ Init /\ [][Next]_vars
  /\ WF_vars(MineGrant)
  /\ \A p \in Procs : WF_vars(Step(p))
  /\ WF_vars(\E op \in prepared : Execute(op))
  /\ WF_vars(\E p \in Procs : Repair(p))

----------------------------------------------------------------------------
(* Properties.                                                             *)

\* A file written by a run that created a rollup is about that rollup: the
\* type it names is the one the rollup was made from, and the address it
\* names holds a contract with the implementation of the run. The address
\* was computed before the rollup was there; it is the rollup's own unless
\* another rollup was attached in between. Such a late run, and no other, can
\* also replace the committee of another's validium by its own, and have made
\* its rollup from a type that was not added by it
\* (4_createRollup.ts:297-301, createNewRollup.ts:243-256).
OutputNamesItsRollup ==
  /\ \A out \in {o \in outputs : CreatesRollup(o.plan)} :
       /\ rollups[out.rollupID].impl = types[out.typeID].impl
       /\ rollups[out.address].impl = out.impl
       /\ ~out.disturbed => out.address = out.rollupID
  /\ \A id \in DOMAIN rollups :
       rollups[id].committee.late \/ rollups[id].committee.of \in {0, id}

\* The genesis written for a chain can start it: every contract its code
\* and storage refer to is there at an address of its own, bridge and exit
\* roots are initialised for good, and it runs on the network id and the
\* gas token that L1 has for the rollup. (4_createRollup gives L1 another
\* token when the token is a wrapped one: GasTokenIsOnMainnet.)
GenesisFitsL1 ==
  \A out \in {o \in outputs : o.genesis # Refused} :
    LET bridge == out.genesis.bridge.slots IN
    /\ Closed(out.genesis) /\ Sealed(out.genesis)
    /\ bridge.network = out.rollupID /\ bridge.gas = out.gas
    /\ (bridge.gas = Ether) <=> (bridge.weth = Zero)
    /\ (out.tool = "createNewRollup" /\ VerifierType(out.plan.consensus) = "Pessimistic") =>
         Resolve(rollups[out.rollupID].gasToken) = bridge.gas

\* An aggchain that was attached ends up initialised, whatever run died
\* between the two transactions of 4_createRollup, since its manager can
\* still do it with initializeRollup (initializeRollup.ts:140-295).
EventuallyInitialised ==
  \A id \in 1..MaxRollups :
    (id \in DOMAIN rollups /\ rollups[id].verifierType = "ALGateway")
      ~> (id \in DOMAIN rollups /\ rollups[id].version = 2)

\* The gas token a rollup is initialised with is an address on mainnet
\* (AggchainBase.sol:139 and PolygonRollupBaseEtrog.sol:220: "Indicates the
\* token address in mainnet that will be used as a gas token"). Violated:
\* 4_createRollup hands over the origin's address of a wrapped token.
GasTokenIsOnMainnet ==
  \A id \in DOMAIN rollups : rollups[id].gasToken \in {Zero, TokenL1, WrappedL1}
=============================================================================
