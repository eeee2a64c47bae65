----------------------------- MODULE Governance -----------------------------
(***************************************************************************)
(* The tools that operate a deployed system, and the timelock most of      *)
(* their calls go through: the gateway's and the aggchain's tools,         *)
(* updateRollup, initMigration, grantRole, changeDelayTimelock and the     *)
(* upgrade scripts that run at this commit.                                *)
(*                                                                         *)
(* A tool is the calls it makes. By type it sends them with a key (EOA),   *)
(* writes them down for a multisig, or writes timelock operations, to be   *)
(* scheduled and executed whenever their holders like, or never.           *)
(***************************************************************************)
EXTENDS Naturals, Sequences, FiniteSets, SequencesExt, TwoStepRole

CONSTANTS Procs,        \* runs of tools with a key at the same time
          Jobs,         \* tools the operators run: [tool, type, salt, delay]
          Selectors, Rollups,
          Kinds,        \* verifier type of each rollup type
          FirstReleases,\* what the proxies may have at the start
          Grants,       \* roles held at the start, as <<role, account>>
          FirstDelay,   \* minimum delay of the timelocks at the start
          MaxJobs, MaxTurns \* bounds: jobs run, changes of the environment

ExitRootManager == "exitRootManager" \* where a manager of a test has its gateway

Key         == "key"
NextManager == "next"
Timelock    == "timelock"
Multisig    == "multisig"

Timelocks == {"L1", "L2"} \* the timelock of the system, and that of an L2
Proxies == {"manager", "bridge", "exitRoots", "sovereignBridge"}

ToolNames ==
  {"addDefaultAggchainVKey", "updateDefaultAggchainVKey", "unsetDefaultAggchainVKey",
   "addPessimisticVKeyRoute", "freezePessimisticVKeyRoute", "updateSubmissionInterval",
   "updateAggregationVkey", "updateRangeVkeyCommitment", "updateRollupConfigHash",
   "changeOptimisticMode", "transferAggchainManager", "transferOptimisticManager",
   "updateRollup", "initMigration", "grantRole", "changeDelayTimelock", "upgradeV3",
   "upgradeRollupManager", "upgradeSovereignBridge"}

\* Delays are uint256; a batch of updateRollup names at least one rollup.
ASSUME GovernanceAssumption ==
  /\ IsFiniteSet(Procs) /\ MaxJobs \in Nat /\ MaxTurns \in Nat
  /\ {Key, NextManager, Timelock, Multisig} \subseteq Accounts
  /\ FirstDelay \in [Timelocks -> Nat]
  /\ \A job \in Jobs :
       /\ job.tool \in ToolNames /\ job.delay \in Nat
       /\ job.tool = "changeDelayTimelock" => job.at \in Timelocks /\ job.value \in Nat
       /\ job.tool = "updateRollup" => job.at \in Seq(Rollups) \ {<< >>}
       /\ job.tool = "upgradeRollupManager" => job.value \in BOOLEAN

\* A release has the initializer versions of its scripts, and a manager with
\* a gateway comes with the bridge of release v3, unless it was upgraded for
\* a test.
ASSUME ReleaseAssumption ==
  \A first \in FirstReleases :
    /\ first = [proxy \in Proxies |-> first[proxy]]
    /\ first["manager"].name = "v3" <=> first["manager"].version = 5
    /\ first["manager"].name = "v3" =>
         first["bridge"].name = "v3" \/ first["manager"].gateway = ExitRootManager
    /\ first["bridge"].name = "v3" /\ first["exitRoots"].name = "v3"
         <=> first["bridge"].version = 2
    /\ first["manager"].gateway # "none" =>
         \/ first["bridge"].version = 2
         \/ first["manager"].gateway = ExitRootManager /\ first["manager"].version = 5

VARIABLES chain,     \* state of the governed contracts
          emergency, \* the system of the L1 timelock is in emergency
          timelock,  \* operation id -> its state
          prepared,  \* operations and calldata the tools have written
          procs,     \* runs with a key: what is left of them
          mempool,   \* grants sent and not mined
          budget

vars == <<chain, emergency, timelock, prepared, procs, mempool, budget, roleVars>>

Call(fn, at, value) == <<fn, at, value>>
Fn(call)    == call[1]
At(call)    == call[2]
Value(call) == call[3]

Holds(c, right, account) == <<right, account>> \in c.granted

----------------------------------------------------------------------------
(* What the contracts accept, and what a call does.                        *)

Reverted == << >>

GatewayAllows(c, call, by) ==
  \/ /\ Holds(c, "vkey", by)
     /\ \/ Fn(call) = "addDefaultAggchainVKey" /\ c.vkey[At(call)] = 0
        \/ Fn(call) \in {"updateDefaultAggchainVKey", "unsetDefaultAggchainVKey"}
           /\ c.vkey[At(call)] # 0
  \/ /\ Fn(call) = "addPessimisticVKeyRoute"
     /\ Holds(c, "addRoute", by) /\ c.route[At(call)] = "none"
  \/ /\ Fn(call) = "freezePessimisticVKeyRoute"
     /\ Holds(c, "freezeRoute", by) /\ c.route[At(call)] = "live"

Settings == {"submissionInterval", "aggregationVkey", "rangeVkeyCommitment",
             "rollupConfigHash"}

FEPAllows(c, call, by) ==
  \/ Fn(call) = "update" /\ At(call) \in Settings /\ by = holder[AggchainManager]
  \/ /\ Fn(call) = "optimisticMode"
     /\ by = holder[OptimisticModeManager] /\ c.optimistic # Value(call)

\* updateRollup and initMigration: the second asks for no pending batches.
ManagerAllows(c, call, by) ==
  \/ /\ Fn(call) \in {"updateRollup", "initMigration"}
     /\ Holds(c, "update", by)
     /\ Value(call) \in DOMAIN Kinds /\ c.type[At(call)] # Value(call)
     /\ IF Fn(call) = "updateRollup"
        THEN Kinds[Value(call)] \in {"ALGateway", Kinds[c.type[At(call)]]}
        ELSE /\ Kinds[c.type[At(call)]] = "StateTransition"
             /\ Kinds[Value(call)] # "StateTransition"
             /\ ~c.pending[At(call)]
  \/ Fn(call) = "grantRole" /\ Holds(c, "managerAdmin", by)

\* ProxyAdmin.upgrade and upgradeAndCall: the initializer runs once.
ProxyAllows(c, call, by) ==
  /\ by = Timelock
  /\ \/ Fn(call) = "upgrade"
     \/ Fn(call) = "upgradeAndCall" /\ c.initialized[At(call)] < Value(call).version
        /\ (At(call) = "bridge" => c.initialized[At(call)] # 0)

\* TimelockController.updateDelay, by the timelock itself.
TimelockAllows(c, call, by) == Fn(call) = "updateDelay" /\ by = Timelock

Allows(c, call, by) ==
  \/ GatewayAllows(c, call, by) \/ FEPAllows(c, call, by)
  \/ ManagerAllows(c, call, by) \/ ProxyAllows(c, call, by)
  \/ TimelockAllows(c, call, by)

After(c, call) ==
  CASE Fn(call) \in {"addDefaultAggchainVKey", "updateDefaultAggchainVKey",
                    "unsetDefaultAggchainVKey"} -> [c EXCEPT !.vkey[At(call)] = Value(call)]
    [] Fn(call) \in {"addPessimisticVKeyRoute", "freezePessimisticVKeyRoute"} ->
         [c EXCEPT !.route[At(call)] = Value(call)]
    [] Fn(call) = "update"         -> [c EXCEPT !.setting[At(call)] = Value(call)]
    [] Fn(call) = "optimisticMode" -> [c EXCEPT !.optimistic = Value(call)]
    [] Fn(call) \in {"updateRollup", "initMigration"} ->
         [c EXCEPT !.type[At(call)] = Value(call)]
    [] Fn(call) = "grantRole"      -> [c EXCEPT !.granted = @ \cup {<<At(call), Value(call)>>}]
    [] Fn(call) = "upgrade"        -> [c EXCEPT !.impl[At(call)] = Value(call)]
    [] Fn(call) = "upgradeAndCall" ->
         [c EXCEPT !.impl[At(call)] = Value(call),
                   !.initialized[At(call)] = Value(call).version]
    [] Fn(call) = "updateDelay"    -> [c EXCEPT !.delay[At(call)] = Value(call)]

\* Seeded bug: a call that reverts is passed over.
TransactWhatWorks(c, calls, by) ==
  FoldLeft(LAMBDA d, call : IF Allows(d, call, by) THEN After(d, call) ELSE d, c, calls)

\* The calls of one transaction take effect together or not at all.
Transact(c, calls, by) ==
  FoldLeft(LAMBDA d, call : IF d = Reverted \/ ~Allows(d, call, by) THEN Reverted
                            ELSE After(d, call),
           c, calls)

----------------------------------------------------------------------------
(* The tools. "checks" is the right a key must have, "grants" that an      *)
(* admin of the contract without it grants it to himself; a tool that      *)
(* "stops" ends at its first error. Each element of "parts" becomes an     *)
(* operation of its own.                                                   *)

GatewayTool(right, call) ==
  [net |-> "L1", checks |-> right, grants |-> TRUE, stops |-> TRUE,
   by |-> <<Key>>, parts |-> <<<<call>>>>]

AddDefaultAggchainVKey(selector, vkey) ==
  GatewayTool("vkey", Call("addDefaultAggchainVKey", selector, vkey))
UpdateDefaultAggchainVKey(selector, vkey) ==
  GatewayTool("vkey", Call("updateDefaultAggchainVKey", selector, vkey))
UnsetDefaultAggchainVKey(selector) ==
  GatewayTool("vkey", Call("unsetDefaultAggchainVKey", selector, 0))
AddPessimisticVKeyRoute(selector) ==
  GatewayTool("addRoute", Call("addPessimisticVKeyRoute", selector, "live"))
FreezePessimisticVKeyRoute(selector) ==
  GatewayTool("freezeRoute", Call("freezePessimisticVKeyRoute", selector, "frozen"))

FEPTool(right, call) ==
  [net |-> "L1", checks |-> right, grants |-> FALSE, stops |-> TRUE,
   by |-> <<Key>>, parts |-> <<<<call>>>>]

UpdateSubmissionInterval(v)  == FEPTool("aggchainManager", Call("update", "submissionInterval", v))
UpdateAggregationVkey(v)     == FEPTool("aggchainManager", Call("update", "aggregationVkey", v))
UpdateRangeVkeyCommitment(v) == FEPTool("aggchainManager", Call("update", "rangeVkeyCommitment", v))
UpdateRollupConfigHash(v)    == FEPTool("aggchainManager", Call("update", "rollupConfigHash", v))
ChangeOptimisticMode(on)     == FEPTool("optimisticModeManager", Call("optimisticMode", "fep", on))

\* The two manager tools name a successor and, with his key, accept. Their
\* two timelock operations are both sent by the timelock.
TransferTool(r) ==
  [net |-> "L1", checks |-> r.name, grants |-> FALSE, stops |-> TRUE,
   by |-> <<Key, NextManager>>,
   parts |-> <<<<Call("transfer", r, NextManager)>>, <<Call("accept", r, 0)>>>>]

TransferAggchainManager   == TransferTool(AggchainManager)
TransferOptimisticManager == TransferTool(OptimisticModeManager)

\* One transaction per rollup with a key, errors noted and passed over; one
\* batch of them all with the timelock.
UpdateRollups(rollups, type) ==
  [net |-> "L1", checks |-> "update", grants |-> FALSE, stops |-> FALSE,
   by |-> [i \in DOMAIN rollups |-> Key],
   parts |-> <<[i \in DOMAIN rollups |-> Call("updateRollup", rollups[i], type)]>>]

InitMigration(rollup, type) ==
  [net |-> "L1", checks |-> "update", grants |-> FALSE, stops |-> TRUE,
   by |-> <<Key>>, parts |-> <<<<Call("initMigration", rollup, type)>>>>]

\* Tools that only write timelock operations.
TimelockTool(net, calls) ==
  [net |-> net, checks |-> "none", grants |-> FALSE, stops |-> TRUE,
   by |-> << >>, parts |-> <<calls>>]

GrantRole(right, account) ==
  TimelockTool("L1", <<Call("grantRole", right, account)>>)
ChangeDelay(net, delay) ==
  TimelockTool(net, <<Call("updateDelay", net, delay)>>)

Release(name, version, gateway) ==
  [name |-> name, version |-> version, gateway |-> gateway]

\* Manager, bridge and exit roots in one batch, the first two initialized.
UpgradeV3(gateway) ==
  TimelockTool("L1",
    <<Call("upgradeAndCall", "manager", Release("v3", 5, gateway)),
      Call("upgradeAndCall", "bridge", Release("v3", 2, "none")),
      Call("upgrade", "exitRoots", Release("v3", 0, "none"))>>)

\* Seeded bug: the gateway comes from a file of parameters.
UpgradeWithParameters(test) ==
  TimelockTool("L1",
    <<Call("upgradeAndCall", "manager", Release("v3", 5, "otherGateway"))>>)

\* The manager alone; the gateway is the one the manager has, read now, or,
\* to test the upgrade of a system without one, the exit root manager.
UpgradeRollupManager(test) ==
  LET gateway == IF test THEN ExitRootManager ELSE chain.impl["manager"].gateway IN
  TimelockTool("L1", <<Call("upgradeAndCall", "manager", Release("v3", 5, gateway))>>)

\* A new implementation each time it is run; nothing is initialized.
UpgradeSovereignBridge(run) ==
  TimelockTool("L2", <<Call("upgrade", "sovereignBridge", Release(run, 0, "none"))>>)

ToolOf(job) ==
  CASE job.tool = "addDefaultAggchainVKey" -> AddDefaultAggchainVKey(job.at, job.value)
    [] job.tool = "updateDefaultAggchainVKey" -> UpdateDefaultAggchainVKey(job.at, job.value)
    [] job.tool = "unsetDefaultAggchainVKey" -> UnsetDefaultAggchainVKey(job.at)
    [] job.tool = "addPessimisticVKeyRoute" -> AddPessimisticVKeyRoute(job.at)
    [] job.tool = "freezePessimisticVKeyRoute" -> FreezePessimisticVKeyRoute(job.at)
    [] job.tool = "updateSubmissionInterval" -> UpdateSubmissionInterval(job.value)
    [] job.tool = "updateAggregationVkey" -> UpdateAggregationVkey(job.value)
    [] job.tool = "updateRangeVkeyCommitment" -> UpdateRangeVkeyCommitment(job.value)
    [] job.tool = "updateRollupConfigHash" -> UpdateRollupConfigHash(job.value)
    [] job.tool = "changeOptimisticMode" -> ChangeOptimisticMode(job.value)
    [] job.tool = "transferAggchainManager" -> TransferAggchainManager
    [] job.tool = "transferOptimisticManager" -> TransferOptimisticManager
    [] job.tool = "updateRollup" -> UpdateRollups(job.at, job.value)
    [] job.tool = "initMigration" -> InitMigration(job.at, job.value)
    [] job.tool = "grantRole" -> GrantRole(job.at, job.value)
    [] job.tool = "changeDelayTimelock" -> ChangeDelay(job.at, job.value)
    [] job.tool = "upgradeV3" -> UpgradeV3(job.value)
    [] job.tool = "upgradeRollupManager" -> UpgradeRollupManager(job.value)
    [] job.tool = "upgradeSovereignBridge" -> UpgradeSovereignBridge(job.value)

----------------------------------------------------------------------------
(* A run.                                                                  *)

NoRun == [left |-> << >>, checks |-> "none", grants |-> FALSE, stops |-> TRUE, phase |-> "idle"]

Init ==
  /\ \E first \in FirstReleases : chain =
       [vkey |-> [s \in Selectors |-> 0], route |-> [s \in Selectors |-> "none"],
        setting |-> [s \in Settings |-> 0], optimistic |-> FALSE,
        type |-> [r \in Rollups |-> 1], pending |-> [r \in Rollups |-> FALSE],
        granted |-> Grants, delay |-> FirstDelay,
        impl |-> first,
        initialized |-> [proxy \in Proxies |-> first[proxy].version]]
  /\ emergency = FALSE
  /\ timelock = << >> /\ prepared = {} /\ mempool = {}
  /\ procs = [p \in Procs |-> NoRun]
  /\ budget = [jobs |-> MaxJobs, turns |-> MaxTurns]
  /\ RoleInit /\ \A r \in Roles : holder[r] \in {Key, Timelock, Multisig}

\* Seeded bug: the timelock does not ask whether it has a system.
DelayOfAnySystem(net) == IF emergency THEN 0 ELSE chain.delay[net]

\* PolygonZkEVMTimelock.getMinDelay; the timelock of an L2 has no system.
GetMinDelay(net) == IF net = "L1" /\ emergency THEN 0 ELSE chain.delay[net]

\* genOperation: what an operation is known by.
Operation(net, calls, predecessor, salt) ==
  [net |-> net, calls |-> calls, predecessor |-> predecessor, salt |-> salt]

\* The delay of a tool is a parameter; two take the minimum in force.
DelayOf(job) ==
  IF job.tool \in {"changeDelayTimelock", "upgradeSovereignBridge"} /\ job.delay = 0
  THEN GetMinDelay(ToolOf(job).net) ELSE job.delay

\* The upgrade scripts read the state of the contracts before they prepare.
Runnable(job) ==
  /\ job.tool = "upgradeRollupManager" /\ ~job.value => chain.impl["manager"].gateway # "none"
  /\ job.tool \in {"grantRole", "changeDelayTimelock", "upgradeV3",
                   "upgradeRollupManager", "upgradeSovereignBridge"} => job.type = "Timelock"

Written(job) ==
  LET tool == ToolOf(job) IN
  IF job.type = "Timelock"
  THEN {[op |-> Operation(tool.net, tool.parts[i], job.predecessor, job.salt),
         delay |-> DelayOf(job)] : i \in DOMAIN tool.parts}
  ELSE {[calldata |-> tool.parts[i][j],
         by |-> IF i = 1 THEN Multisig ELSE NextManager] :
          i \in DOMAIN tool.parts, j \in DOMAIN tool.parts[1]}

\* A tool of type Timelock or Multisig only writes a file.
Write ==
  /\ budget.jobs > 0
  /\ \E job \in Jobs :
       /\ job.type # "EOA" /\ Runnable(job)
       /\ prepared' = prepared \cup Written(job)
  /\ budget' = [budget EXCEPT !.jobs = @ - 1]
  /\ UNCHANGED <<chain, emergency, timelock, procs, mempool, roleVars>>

\* The calls of a run with a key, each with its sender.
Sends(tool) ==
  LET calls == FlattenSeq(tool.parts) IN
  [i \in DOMAIN calls |-> [call |-> calls[i], by |-> tool.by[i]]]

Begin(p) ==
  /\ procs[p] = NoRun /\ budget.jobs > 0
  /\ \E job \in Jobs :
       /\ job.type = "EOA" /\ Runnable(job)
       /\ LET tool == ToolOf(job) IN
          procs' = [procs EXCEPT ![p] =
                      [left |-> Sends(tool), checks |-> tool.checks,
                       grants |-> tool.grants, stops |-> tool.stops, phase |-> "check"]]
  /\ budget' = [budget EXCEPT !.jobs = @ - 1]
  /\ UNCHANGED <<chain, emergency, timelock, prepared, mempool, roleVars>>

HasRight(right) ==
  \/ Holds(chain, right, Key)
  \/ \E r \in Roles : r.name = right /\ holder[r] = Key

\* The grant is sent and not waited for. updateRollup checks again before
\* each transaction.
CheckRight(p) ==
  LET run == procs[p] IN
  /\ run.phase = "check"
  /\ \/ /\ HasRight(run.checks)
        /\ procs' = [procs EXCEPT ![p].phase = "send"]
        /\ UNCHANGED mempool
     \/ /\ ~HasRight(run.checks) /\ run.grants /\ Holds(chain, "gatewayAdmin", Key)
        /\ mempool' = mempool \cup {<<run.checks, Key>>}
        /\ procs' = [procs EXCEPT ![p].phase = "send"]
     \/ /\ ~HasRight(run.checks) /\ ~(run.grants /\ Holds(chain, "gatewayAdmin", Key))
        /\ procs' = [procs EXCEPT ![p] = NoRun]
        /\ UNCHANGED mempool
  /\ UNCHANGED <<chain, emergency, timelock, prepared, budget, roleVars>>

MineGrant ==
  /\ \E grant \in mempool :
       /\ chain' = [chain EXCEPT !.granted = @ \cup {grant}]
       /\ mempool' = mempool \ {grant}
  /\ UNCHANGED <<emergency, timelock, prepared, procs, budget, roleVars>>

\* A transaction of one call; the calls about roles are TwoStepRole's.
CanSend(call, by) ==
  CASE Fn(call) = "transfer" -> by = holder[At(call)]
    [] Fn(call) = "accept"   -> by = pending[At(call)]
    [] OTHER                -> Allows(chain, call, by)

Send(call, by) ==
  CASE Fn(call) = "transfer" -> TransferRole(At(call), by, Value(call)) /\ UNCHANGED chain
    [] Fn(call) = "accept"   -> AcceptRole(At(call), by) /\ UNCHANGED chain
    [] OTHER                -> chain' = After(chain, call) /\ UNCHANGED roleVars

Rest(run) ==
  IF Len(run.left) = 1 THEN NoRun
  ELSE [run EXCEPT !.left = Tail(@), !.phase = IF run.stops THEN "send" ELSE "check"]

SendNext(p) ==
  LET run == procs[p]  next == Head(procs[p].left) IN
  /\ run.phase = "send"
  /\ IF CanSend(next.call, next.by)
     THEN Send(next.call, next.by) /\ procs' = [procs EXCEPT ![p] = Rest(run)]
     ELSE /\ procs' = [procs EXCEPT ![p] = IF run.stops THEN NoRun ELSE Rest(run)]
          /\ UNCHANGED <<chain, roleVars>>
  /\ UNCHANGED <<emergency, timelock, prepared, mempool, budget>>

Crash(p) ==
  /\ procs[p] # NoRun /\ budget.turns > 0
  /\ procs' = [procs EXCEPT ![p] = NoRun]
  /\ budget' = [budget EXCEPT !.turns = @ - 1]
  /\ UNCHANGED <<chain, emergency, timelock, prepared, mempool, roleVars>>

----------------------------------------------------------------------------
(* The multisig and the timelock.                                          *)

\* Calldata is sent by the multisig, an acceptance by the one who accepts.
SendCalldata(file) ==
  /\ "calldata" \in DOMAIN file
  /\ CanSend(file.calldata, file.by) /\ Send(file.calldata, file.by)
  /\ prepared' = prepared \ {file}
  /\ UNCHANGED <<emergency, timelock, procs, mempool, budget>>

Done(id) == id \in DOMAIN timelock /\ timelock[id].done

\* An operation is scheduled once for all times, whatever it was worth.
Schedule(file) ==
  /\ "op" \in DOMAIN file /\ file.op \notin DOMAIN timelock
  /\ file.delay >= GetMinDelay(file.op.net)
  /\ timelock' =
       [id \in DOMAIN timelock \cup {file.op} |->
          IF id = file.op
          THEN [wait |-> file.delay, done |-> FALSE, waited |-> 0,
                notice |-> chain.delay[file.op.net],
                urgent |-> emergency /\ file.op.net = "L1"]
          ELSE timelock[id]]
  /\ UNCHANGED <<chain, emergency, prepared, procs, mempool, budget, roleVars>>

\* The predecessor an operation names, if any.
NoOperation == {}

IsOperationReady(id) ==
  /\ ~timelock[id].done /\ timelock[id].wait = 0
  /\ \A before \in id.predecessor : Done(before)

Execute(id) ==
  /\ IsOperationReady(id)
  /\ IF Fn(id.calls[1]) \in {"transfer", "accept"}
     THEN CanSend(id.calls[1], Timelock) /\ Send(id.calls[1], Timelock)
     ELSE LET after == Transact(chain, id.calls, Timelock) IN
          after # Reverted /\ chain' = after /\ UNCHANGED roleVars
  /\ timelock' = [timelock EXCEPT ![id].done = TRUE]
  /\ UNCHANGED <<emergency, prepared, procs, mempool, budget>>

\* Time goes by for every operation that waits.
Tick ==
  /\ \E id \in DOMAIN timelock : timelock[id].wait > 0
  /\ timelock' = [id \in DOMAIN timelock |->
                    IF timelock[id].wait > 0
                    THEN [timelock[id] EXCEPT !.wait = @ - 1, !.waited = @ + 1]
                    ELSE timelock[id]]
  /\ UNCHANGED <<chain, emergency, prepared, procs, mempool, budget, roleVars>>

\* The system enters and leaves emergency; a rollup sequences and verifies.
Turn ==
  /\ budget.turns > 0
  /\ \/ emergency' = ~emergency /\ UNCHANGED chain
     \/ /\ \E r \in Rollups :
             /\ Kinds[chain.type[r]] = "StateTransition"
             /\ chain' = [chain EXCEPT !.pending[r] = ~@]
        /\ UNCHANGED emergency
  /\ budget' = [budget EXCEPT !.turns = @ - 1]
  /\ UNCHANGED <<timelock, prepared, procs, mempool, roleVars>>

Next ==
  \/ Write \/ MineGrant \/ Tick \/ Turn
  \/ \E p \in Procs : Begin(p) \/ CheckRight(p) \/ SendNext(p) \/ Crash(p)
  \/ \E file \in prepared : SendCalldata(file) \/ Schedule(file)
  \/ \E id \in DOMAIN timelock : Execute(id)

Spec == Init /\ [][Next]_vars

----------------------------------------------------------------------------
(* Properties.                                                             *)

Executed(id) == id \in DOMAIN timelock /\ Done(id)' /\ ~Done(id)

\* An operation waits for the minimum delay that was in force when it was
\* scheduled, whatever the tool that wrote it took for the delay, and
\* whatever changed since; only what is scheduled while the timelock's own
\* system is in emergency is exempt: not on an L2, and not what was written
\* in the emergency and scheduled after it (PolygonZkEVMTimelock.sol:40-49,
\* changeDelayTimelock.ts:30-32, upgrade-sbridge-10.1.2.ts:60-64).
OperationsWait ==
  [][\A id \in DOMAIN timelock :
       Executed(id) => \/ timelock[id].urgent
                       \/ timelock[id].waited >= timelock[id].notice]_vars

\* A batch of updateRollup takes every rollup it names to the new type, or
\* none when one of them cannot go there any more, because a key or another
\* operation was faster (updateRollup.ts:140-175).
BatchesAreWhole ==
  [][\A id \in DOMAIN timelock :
       Executed(id) =>
         \A i \in DOMAIN id.calls :
           Fn(id.calls[i]) = "updateRollup" =>
             /\ chain'.type[At(id.calls[i])] = Value(id.calls[i])
             /\ chain.type[At(id.calls[i])] # Value(id.calls[i])]_vars

\* However the operations of the upgrade scripts are interleaved, those
\* written against an older state and those written twice among them: the
\* L1 contracts move to the release together, each is initialized when it
\* moves and not again, and a manager that has a gateway keeps it. Only the
\* upgrade for a test moves the manager alone or replaces its gateway: it
\* puts the exit root manager there (upgradeV3.ts:60-180,
\* upgrade-rollupManager-v0.3.1.ts:58-100, the test at 61-64).
UpgradesAgree ==
  [][LET old == chain.impl  new == chain'.impl IN
       /\ new["bridge"].name = "v3" /\ new["exitRoots"].name = "v3"
            <=> chain'.initialized["bridge"] = 2
       /\ new["manager"].name = "v3" <=> chain'.initialized["manager"] = 5
       /\ new["manager"].name = "v3" =>
            new["bridge"].name = "v3" \/ new["manager"].gateway = ExitRootManager
       /\ old["manager"].gateway # "none" =>
            new["manager"].gateway \in {old["manager"].gateway, ExitRootManager}]_vars
=============================================================================
