----------------------------- MODULE Deployment -----------------------------
(***************************************************************************)
(* The deployment scripts of the L1 contracts: 2_deployPolygonZkEVMDeployer *)
(* (keyless deployer), 3_deployContracts (bridge, exit roots, gateway,     *)
(* manager and timelock) and 1_createGenesis (the same bridge on L2).      *)
(*                                                                         *)
(* The contracts are wired to each other before they exist: the timelock   *)
(* and the bridge are given addresses computed from the nonce of the       *)
(* deployer's key, and the script then relies on sending exactly the       *)
(* transactions it counted. Bridge and proxy admin are placed by create2   *)
(* and depend on the salt alone. The script keeps its progress in a file   *)
(* and can stop between any two of its steps.                              *)
(***************************************************************************)
EXTENDS Naturals, FiniteSets

CONSTANTS Test,         \* deployParameters.test: the key keeps the timelock's roles
          MaxSalt,      \* salts the operator has: 1 .. MaxSalt, taken in order
          Attempts,     \* attemptsDeployProxy
          MaxTrouble,   \* bound: crashes, lost answers, failed attempts, foreign txs
          MaxStarts     \* bound: runs started without cleaning up first

ASSUME DeploymentAssumption ==
  /\ Test \in BOOLEAN
  /\ MaxSalt \in Nat \ {0} /\ Attempts \in Nat \ {0}
  /\ MaxTrouble \in Nat    /\ MaxStarts \in Nat

VARIABLES nonce,    \* of the deployer's key
          code,     \* address -> contract, on L1
          keyless,  \* the keyless account: funds sent to it, whether it deployed
          files,    \* what the checkout keeps between runs
          run,      \* the locals of the running script
          outcome,  \* how the last run ended
          budget    \* what is left of the bounds

vars == <<nonce, code, keyless, files, run, outcome, budget>>

Key       == <<"key">>
NoAddress == <<"none">>

\* Addresses: of a plain creation, by the nonce; of create2, by salt and code.
Create(n)           == <<"create", n>>
Create2(salt, init) == <<"create2", salt, init>>

ProxyAdminAt(salt) == Create2(salt, <<"ProxyAdmin">>)
BridgeImplAt(salt) == Create2(salt, <<"PolygonZkEVMBridgeV2">>)

\* The proxy's init code holds its constructor arguments; data is empty so
\* that the code, hence the address, is the same on every network.
BridgeProxyAt(salt) ==
  Create2(salt, <<"Proxy", BridgeImplAt(salt), ProxyAdminAt(salt), "0x">>)

----------------------------------------------------------------------------
(* 1_createGenesis: the same contracts deployed in a local chain, then     *)
(* copied into the genesis of the L2.                                      *)

GlobalExitRootL2 == <<"0xa40d">>
OnMainnet(name)  == <<"mainnet", name>>

\* Nonces of the key in the local chain: the keyless deployer is funded
\* (0), proxy admin, bridge implementation and bridge proxy are created
\* through it (1 to 3), then exit root implementation, proxy and timelock.
GERImplNonce  == 4
GERProxyNonce == 5
TimelockNonce == 6

LocalChain(salt, final) ==
  [a \in {ProxyAdminAt(salt), BridgeImplAt(salt), BridgeProxyAt(salt),
          Create(GERImplNonce), Create(GERProxyNonce), Create(TimelockNonce)} |->
     CASE a = ProxyAdminAt(salt) -> [kind |-> "proxyAdmin", owner |-> final.timelock]
       [] a \in {BridgeImplAt(salt), Create(GERImplNonce)} -> [kind |-> "implementation"]
       [] a = BridgeProxyAt(salt) ->
            [kind |-> "bridge", admin |-> ProxyAdminAt(salt),
             impl |-> BridgeImplAt(salt), ger |-> NoAddress, manager |-> NoAddress]
       [] a = Create(GERProxyNonce) ->
            [kind |-> "ger", admin |-> ProxyAdminAt(salt),
             impl |-> Create(GERImplNonce), bridge |-> final.bridge]
       [] a = Create(TimelockNonce) ->
            [kind |-> "timelock", manager |-> NoAddress,
             admins |-> {<<"timelockAdmin">>, Create(TimelockNonce)}]]

\* The addresses the genesis gives its contracts: the local ones, or the
\* fixed ones of mainnet. The last two are the key's nonces 4 and 6.
FinalAddresses(salt, isMainnet) ==
  IF isMainnet
  THEN [admin |-> OnMainnet("ProxyAdmin"), impl |-> OnMainnet("bridgeImpl"),
        bridge |-> OnMainnet("bridge"), gerImpl |-> Create(4),
        timelock |-> Create(6)]
  ELSE [admin |-> ProxyAdminAt(salt), impl |-> BridgeImplAt(salt),
        bridge |-> BridgeProxyAt(salt), gerImpl |-> Create(GERImplNonce),
        timelock |-> Create(TimelockNonce)]

FinalPlaces(final) ==
  {final.admin, final.impl, final.bridge, final.gerImpl, GlobalExitRootL2, final.timelock}

\* The local contract that goes to each place of the genesis.
LocalContract(local, salt, final, place) ==
  CASE place = final.admin      -> local[ProxyAdminAt(salt)]
    [] place = final.impl       -> local[BridgeImplAt(salt)]
    [] place = final.bridge     -> local[BridgeProxyAt(salt)]
    [] place = final.gerImpl    -> local[Create(GERImplNonce)]
    [] place = GlobalExitRootL2 -> local[Create(GERProxyNonce)]
    [] place = final.timelock   -> local[Create(TimelockNonce)]

\* The local contracts at their final places, each as it is.
LocalEntries(local, salt, final) ==
  [place \in FinalPlaces(final) |-> LocalContract(local, salt, final, place)]

\* Each local contract is entered at its final address, the slots of the
\* two proxies overwritten with the final admin and implementation.
GenesisEntries(local, salt, final) ==
  [LocalEntries(local, salt, final) EXCEPT
     ![final.bridge].admin = final.admin, ![final.bridge].impl = final.impl,
     ![GlobalExitRootL2].admin = final.admin, ![GlobalExitRootL2].impl = final.gerImpl]

Genesis(salt, isMainnet) ==
  LET final == FinalAddresses(salt, isMainnet) IN
  [salt |-> salt, isMainnet |-> isMainnet, bridge |-> final.bridge,
   admin |-> final.admin,
   entries |-> GenesisEntries(LocalChain(salt, final), salt, final)]

----------------------------------------------------------------------------
(* The scripts on L1.                                                      *)

NoOngoing == [ger |-> NoAddress, gateway |-> NoAddress, manager |-> NoAddress]
NoOutput  == [salt |-> 0]
NoGenesis == [salt |-> 0]

Idle == [pc |-> "idle", salt |-> 0, preGER |-> NoAddress,
         preManager |-> NoAddress, timelock |-> NoAddress, ger |-> NoAddress,
         gateway |-> NoAddress, manager |-> NoAddress, verifier |-> NoAddress,
         impls |-> {}, tries |-> 0,
         newSalt |-> FALSE, clean |-> FALSE, disturbed |-> FALSE]

SaltUsed(salt) == ProxyAdminAt(salt) \in DOMAIN code

Init ==
  /\ nonce = 0
  /\ code = << >>
  /\ keyless = [funds |-> 0, deployed |-> FALSE]
  /\ files = [salt |-> 1, manifest |-> FALSE, ongoing |-> NoOngoing,
              zkEVMDeployer |-> FALSE, output |-> NoOutput,
              genesis |-> NoGenesis]
  /\ run = Idle
  /\ outcome = [why |-> "none", newSalt |-> FALSE, clean |-> FALSE,
                disturbed |-> FALSE]
  /\ budget = [trouble |-> MaxTrouble, starts |-> MaxStarts]

At(pc)   == run.pc = pc
Goto(pc) == run' = [run EXCEPT !.pc = pc]

\* The run ends here, by itself or because a check threw.
Stop(why) ==
  /\ run' = Idle
  /\ outcome' = [why |-> why, newSalt |-> run.newSalt, clean |-> run.clean,
                 disturbed |-> run.disturbed]

\* The chain with a contract at an address that had none.
With(chain, address, contract) ==
  [a \in DOMAIN chain \cup {address} |->
     IF a = address THEN contract ELSE chain[a]]

\* A transaction of the key that creates a contract at the next nonce.
Deploy(contract) ==
  /\ nonce' = nonce + 1
  /\ code' = With(code, Create(nonce), contract)

\* create2Deployment: nothing is sent when the address has code already.
Create2Deployment(address, contract) ==
  IF address \in DOMAIN code
  THEN UNCHANGED <<nonce, code>>
  ELSE nonce' = nonce + 1 /\ code' = With(code, address, contract)

----------------------------------------------------------------------------
(* 2_deployPolygonZkEVMDeployer.                                           *)

StartDeployer ==
  /\ At("idle") /\ ~files.zkEVMDeployer
  /\ Goto(IF keyless.deployed THEN "saveDeployer" ELSE "fund")
  /\ UNCHANGED <<nonce, code, keyless, files, outcome, budget>>

FundKeyless ==
  /\ At("fund")
  /\ nonce' = nonce + 1
  /\ keyless' = [keyless EXCEPT !.funds = @ + 1]
  /\ Goto("broadcast")
  /\ UNCHANGED <<code, files, outcome, budget>>

\* The presigned transaction spends exactly what one funding sends.
BroadcastKeyless ==
  /\ At("broadcast") /\ keyless.funds > 0 /\ ~keyless.deployed
  /\ keyless' = [funds |-> keyless.funds - 1, deployed |-> TRUE]
  /\ Goto("saveDeployer")
  /\ UNCHANGED <<nonce, code, files, outcome, budget>>

SaveDeployer ==
  /\ At("saveDeployer")
  /\ files' = [files EXCEPT !.zkEVMDeployer = TRUE]
  /\ Stop("deployer")
  /\ UNCHANGED <<nonce, code, keyless, budget>>

----------------------------------------------------------------------------
(* 3_deployContracts, one action per transaction or file written.          *)

Locals(salt, ongoing) ==
  [Idle EXCEPT !.pc = "proxyAdmin", !.salt = salt, !.gateway = ongoing.gateway,
               !.newSalt = ~SaltUsed(salt),
               !.clean = ~SaltUsed(salt) /\ ongoing = NoOngoing]

Start ==
  /\ At("idle") /\ files.zkEVMDeployer /\ budget.starts > 0
  /\ budget' = [budget EXCEPT !.starts = @ - 1]
  /\ IF files.manifest
     THEN Stop("refused")
     ELSE run' = Locals(files.salt, files.ongoing) /\ UNCHANGED outcome
  /\ UNCHANGED <<nonce, code, keyless, files>>

\* The deployer must own the proxy admin, old or new.
ProxyAdmin ==
  LET address == ProxyAdminAt(run.salt) IN
  /\ At("proxyAdmin")
  /\ Create2Deployment(address, [kind |-> "proxyAdmin", owner |-> Key,
                                 returned |-> FALSE])
  /\ IF code'[address].owner = Key
     THEN Goto("bridgeImpl") /\ UNCHANGED outcome
     ELSE Stop("refused")
  /\ UNCHANGED <<keyless, files, budget>>

BridgeImplementation ==
  /\ At("bridgeImpl")
  /\ Create2Deployment(BridgeImplAt(run.salt), [kind |-> "implementation"])
  /\ Goto("plan")
  /\ UNCHANGED <<keyless, files, outcome, budget>>

\* Seeded bugs: the implementation of a proxy counted twice, the verifier
\* not counted.
NonceGERTwice(n)      == n + 5
NonceNoVerifier(n)    == n + 8

\* Transactions the script counts on: timelock, ownership, bridge proxy and
\* exit root implementation before the exit root proxy; that proxy, the
\* verifier, the gateway's two and the manager's implementation before the
\* manager's proxy.
NonceGER(n)     == n + 4
NonceManager(n) == NonceGER(n) + 5

\* The branch that resumes an ongoing deployment needs its timelock, which
\* no line of the script saves: what was saved of the two is dropped.
Plan ==
  /\ At("plan")
  /\ files' = [files EXCEPT !.ongoing.ger = NoAddress,
                            !.ongoing.manager = NoAddress]
  /\ run' = [run EXCEPT !.pc = "timelock",
                        !.preGER = Create(NonceGER(nonce)),
                        !.preManager = Create(NonceManager(nonce))]
  /\ UNCHANGED <<nonce, code, keyless, outcome, budget>>

Timelock ==
  /\ At("timelock")
  /\ Deploy([kind |-> "timelock", manager |-> run.preManager])
  /\ run' = [run EXCEPT !.pc = "ownership", !.timelock = Create(nonce)]
  /\ UNCHANGED <<keyless, files, outcome, budget>>

\* Seeded bug: the transaction changes no owner.
OwnershipKept ==
  /\ At("ownership")
  /\ nonce' = nonce + 1
  /\ Goto("bridge")
  /\ UNCHANGED <<code, keyless, files, outcome, budget>>

TransferOwnership ==
  /\ At("ownership")
  /\ nonce' = nonce + 1
  /\ code' = [code EXCEPT ![ProxyAdminAt(run.salt)].owner = run.timelock]
  /\ Goto("bridge")
  /\ UNCHANGED <<keyless, files, outcome, budget>>

\* Seeded bug: a bridge that is there already is taken as it is.
BridgeTaken ==
  LET address == BridgeProxyAt(run.salt) IN
  /\ At("bridge")
  /\ Create2Deployment(address,
       [kind |-> "bridge", admin |-> ProxyAdminAt(run.salt),
        impl |-> BridgeImplAt(run.salt), ger |-> run.preGER,
        manager |-> run.preManager])
  /\ Goto("import")
  /\ UNCHANGED <<keyless, files, outcome, budget>>

\* A bridge that is there already must have been given the same addresses.
BridgeProxy ==
  LET address == BridgeProxyAt(run.salt) IN
  /\ At("bridge")
  /\ Create2Deployment(address,
       [kind |-> "bridge", admin |-> ProxyAdminAt(run.salt),
        impl |-> BridgeImplAt(run.salt), ger |-> run.preGER,
        manager |-> run.preManager])
  /\ IF code'[address].ger = run.preGER /\ code'[address].manager = run.preManager
     THEN Goto("import") /\ UNCHANGED outcome
     ELSE Stop("mismatch")
  /\ UNCHANGED <<keyless, files, budget>>

ForceImport ==
  /\ At("import")
  /\ files' = [files EXCEPT !.manifest = TRUE]
  /\ Goto("ger")
  /\ UNCHANGED <<nonce, code, keyless, outcome, budget>>

----------------------------------------------------------------------------
(* upgrades.deployProxy in a loop of attempts: the implementation, unless  *)
(* the manifest has it, then the proxy.                                    *)

Proxied == {"ger", "gateway", "manager"}
Saving  == [ger |-> "saveGER", gateway |-> "saveGateway", manager |-> "saveManager"]

\* The gateway of an ongoing deployment is taken as it is.
Reused == At("gateway") /\ run.gateway # NoAddress

\* The default admin of gateway and manager. The proxy admin goes to the
\* timelock in a test deployment too.
FinalTimelockAddress == IF Test THEN Key ELSE run.timelock

Built(what) ==
  CASE what = "ger" ->
         [kind |-> "ger", admin |-> ProxyAdminAt(run.salt),
          manager |-> run.preManager, bridge |-> BridgeProxyAt(run.salt)]
    [] what = "gateway" ->
         [kind |-> "gateway", admin |-> ProxyAdminAt(run.salt),
          defaultAdmin |-> FinalTimelockAddress, verifier |-> run.verifier]
    [] what = "manager" ->
         [kind |-> "manager", admin |-> ProxyAdminAt(run.salt),
          ger |-> run.ger, bridge |-> BridgeProxyAt(run.salt),
          gateway |-> run.gateway, defaultAdmin |-> FinalTimelockAddress]

DeployImplementation(what) ==
  /\ At(what) /\ ~Reused /\ what \notin run.impls
  /\ Deploy([kind |-> "implementation"])
  /\ run' = [run EXCEPT !.impls = @ \cup {what}]
  /\ UNCHANGED <<keyless, files, outcome, budget>>

DeployProxy(what) ==
  /\ At(what) /\ ~Reused /\ what \in run.impls
  /\ Deploy(Built(what))
  /\ run' = [run EXCEPT !.pc = Saving[what], ![what] = Create(nonce), !.tries = 0]
  /\ UNCHANGED <<keyless, files, outcome, budget>>

\* An attempt throws: nothing was sent, or a creation was mined and the
\* answer lost. Its contract stays on the chain, unknown to the script.
AttemptFails(what) ==
  /\ At(what) /\ ~Reused /\ budget.trouble > 0
  /\ budget' = [budget EXCEPT !.trouble = @ - 1]
  /\ \E lost \in BOOLEAN :
       /\ IF lost
          THEN Deploy(IF what \in run.impls THEN Built(what)
                      ELSE [kind |-> "implementation"])
          ELSE UNCHANGED <<nonce, code>>
       /\ IF run.tries + 1 = Attempts
          THEN Stop("exhausted")
          ELSE /\ run' = [run EXCEPT !.tries = @ + 1,
                                     !.disturbed = @ \/ lost]
               /\ UNCHANGED outcome
  /\ UNCHANGED <<keyless, files>>

SaveGER ==
  /\ At("saveGER")
  /\ IF run.ger = run.preGER
     THEN /\ files' = [files EXCEPT !.ongoing.ger = run.ger]
          /\ Goto("verifier") /\ UNCHANGED outcome
     ELSE Stop("mismatch") /\ UNCHANGED files
  /\ UNCHANGED <<nonce, code, keyless, budget>>

Verifier ==
  /\ At("verifier")
  /\ Deploy([kind |-> "verifier"])
  /\ run' = [run EXCEPT !.pc = "gateway", !.verifier = Create(nonce)]
  /\ UNCHANGED <<keyless, files, outcome, budget>>

ReuseGateway ==
  /\ Reused
  /\ Goto("manager")
  /\ UNCHANGED <<nonce, code, keyless, files, outcome, budget>>

SaveGateway ==
  /\ At("saveGateway")
  /\ files' = [files EXCEPT !.ongoing.gateway = run.gateway]
  /\ Goto("manager")
  /\ UNCHANGED <<nonce, code, keyless, outcome, budget>>

SaveManager ==
  /\ At("saveManager")
  /\ IF run.manager = run.preManager
     THEN /\ files' = [files EXCEPT !.ongoing.manager = run.manager]
          /\ Goto("check") /\ UNCHANGED outcome
     ELSE Stop("mismatch") /\ UNCHANGED files
  /\ UNCHANGED <<nonce, code, keyless, budget>>

AdminIs(address, admin) ==
  address \in DOMAIN code /\ code[address].admin = admin

\* The roles of the manager and the admin slot of the four proxies.
FinalChecks ==
  /\ code[run.manager].defaultAdmin = FinalTimelockAddress
  /\ \A address \in {run.preManager, run.preGER, BridgeProxyAt(run.salt), run.gateway} :
       AdminIs(address, ProxyAdminAt(run.salt))

Check ==
  /\ At("check")
  /\ IF FinalChecks
     THEN Goto("output") /\ UNCHANGED outcome
     ELSE Stop("mismatch")
  /\ UNCHANGED <<nonce, code, keyless, files, budget>>

WriteOutput ==
  /\ At("output")
  /\ files' = [files EXCEPT !.output =
       [salt |-> run.salt, admin |-> ProxyAdminAt(run.salt),
        bridge |-> BridgeProxyAt(run.salt), ger |-> run.ger,
        gateway |-> run.gateway, manager |-> run.manager,
        timelock |-> run.timelock]]
  /\ Goto("unlink")
  /\ UNCHANGED <<nonce, code, keyless, outcome, budget>>

UnlinkOngoing ==
  /\ At("unlink")
  /\ files' = [files EXCEPT !.ongoing = NoOngoing]
  /\ Stop("done")
  /\ UNCHANGED <<nonce, code, keyless, budget>>

----------------------------------------------------------------------------
(* What happens around the script.                                         *)

\* The process dies, or a transaction outside the loops throws.
Crash ==
  /\ ~At("idle") /\ budget.trouble > 0
  /\ budget' = [budget EXCEPT !.trouble = @ - 1]
  /\ Stop("crashed")
  /\ UNCHANGED <<nonce, code, keyless, files>>

\* The key signs something else while a script runs (before a run it would
\* only shift every nonce alike).
ForeignTransaction ==
  /\ ~At("idle") /\ budget.trouble > 0
  /\ budget' = [budget EXCEPT !.trouble = @ - 1]
  /\ nonce' = nonce + 1
  /\ run' = [run EXCEPT !.disturbed = TRUE]
  /\ UNCHANGED <<code, keyless, files, outcome>>

NewSalt ==
  /\ At("idle") /\ files.salt < MaxSalt /\ budget.starts > 0
  /\ files' = [files EXCEPT !.salt = @ + 1]
  /\ UNCHANGED <<nonce, code, keyless, run, outcome, budget>>

EraseManifest ==
  /\ At("idle") /\ files.manifest /\ budget.starts > 0
  /\ files' = [files EXCEPT !.manifest = FALSE]
  /\ UNCHANGED <<nonce, code, keyless, run, outcome, budget>>

\* A genesis is a function of the parameters: that it can be written earlier
\* too adds states and nothing else, so it is written once L1 is deployed.
CreateGenesis ==
  /\ At("idle") /\ files.output # NoOutput
  /\ \E isMainnet \in BOOLEAN :
       files' = [files EXCEPT !.genesis = Genesis(files.salt, isMainnet)]
  /\ files'.genesis # files.genesis
  /\ UNCHANGED <<nonce, code, keyless, run, outcome, budget>>

\* The timelock's admin gives the proxy admin back to the key, by a
\* scheduled operation, hoping to run the script again with the same salt.
ReturnAdmin ==
  /\ At("idle") /\ budget.starts > 0
  /\ SaltUsed(files.salt) /\ code[ProxyAdminAt(files.salt)].owner # Key
  /\ code' = [code EXCEPT ![ProxyAdminAt(files.salt)] =
                [@ EXCEPT !.owner = Key, !.returned = TRUE]]
  /\ UNCHANGED <<nonce, keyless, files, run, outcome, budget>>

\* The remedy that always works: every trace erased and a salt not used yet.
StartFromScratch ==
  /\ At("idle") /\ files.zkEVMDeployer /\ files.output = NoOutput
  /\ \E salt \in 1 .. MaxSalt :
       /\ ~SaltUsed(salt) /\ \A s \in 1 .. salt - 1 : SaltUsed(s)
       /\ files' = [files EXCEPT !.salt = salt, !.manifest = FALSE,
                                 !.ongoing = NoOngoing]
       /\ run' = Locals(salt, NoOngoing)
  /\ UNCHANGED <<nonce, code, keyless, outcome, budget>>

ScriptStep ==
  \/ FundKeyless \/ BroadcastKeyless \/ SaveDeployer
  \/ ProxyAdmin \/ BridgeImplementation \/ Plan \/ Timelock
  \/ TransferOwnership \/ BridgeProxy \/ ForceImport
  \/ SaveGER \/ Verifier \/ ReuseGateway \/ SaveGateway
  \/ SaveManager \/ Check \/ WriteOutput \/ UnlinkOngoing
  \/ \E what \in Proxied : DeployImplementation(what) \/ DeployProxy(what)

Next ==
  \/ ScriptStep
  \/ StartDeployer \/ Start \/ StartFromScratch
  \/ \E what \in Proxied : AttemptFails(what)
  \/ Crash \/ ForeignTransaction
  \/ NewSalt \/ EraseManifest \/ CreateGenesis \/ ReturnAdmin

\* A running script goes on; the operator runs step 2 until it worked and,
\* when a deployment did not, starts over from scratch.
Spec ==
  /\ Init /\ [][Next]_vars
  /\ WF_vars(ScriptStep)
  /\ WF_vars(StartDeployer)
  /\ WF_vars(StartFromScratch)
----------------------------------------------------------------------------
(* Properties.                                                             *)

\* Every contract an output file names knows the others by the addresses of
\* that file, the proxy admin over the four proxies belongs to the timelock
\* of the file, and so does the manager, which a test deployment leaves to
\* the key (3_deployContracts.ts:406). This has to survive runs
\* that were interrupted, lost an answer, took a gateway from an earlier
\* run or found the create2 addresses in use.
Wired ==
  LET o == files.output IN
  /\ code[o.admin].owner = o.timelock
  /\ code[o.timelock].manager = o.manager
  /\ code[o.bridge].ger = o.ger /\ code[o.bridge].manager = o.manager
  /\ code[o.ger].manager = o.manager /\ code[o.ger].bridge = o.bridge
  /\ code[o.manager].ger = o.ger /\ code[o.manager].bridge = o.bridge
  /\ code[o.manager].gateway = o.gateway
  /\ code[o.manager].defaultAdmin = IF Test THEN Key ELSE o.timelock
  /\ \A proxy \in {o.bridge, o.ger, o.gateway, o.manager} :
       code[proxy].admin = o.admin

OutputIsWired ==
  [][files'.output # files.output => Wired']_vars

\* The nonces the script counts are the ones it uses: a run with an unused
\* salt and no ongoing file, during which the key signs nothing else and no
\* answer is lost, passes every check it makes (3_deployContracts.ts:249-261
\* against the transactions sent up to line 565).
CleanRunPasses ==
  outcome.why = "mismatch" /\ outcome.clean => outcome.disturbed

\* The key that deploys never controls a proxy: the proxy admin belongs to
\* a timelock before any proxy names it, whatever step the script stopped
\* at, unless the timelock itself gave it back (line 282 before 319).
KeyNeverAdministers ==
  \A a \in {x \in DOMAIN code : code[x].kind \in {"bridge", "ger", "gateway", "manager"}} :
    LET admin == code[code[a].admin] IN admin.owner = Key => admin.returned

\* A genesis names only contracts it contains: both proxies have their
\* admin and implementation in it, the admin's owner is the timelock in it,
\* which administers itself, and the exit root contract obeys the bridge in
\* it. And it puts bridge and proxy admin where L1 has them when both used
\* one salt (1_createGenesis.ts, also for the fixed addresses of mainnet).
GenesisFits ==
  LET g == files.genesis
      Entry(a) == g.entries[a] IN
  g # NoGenesis =>
    /\ \A p \in {g.bridge, GlobalExitRootL2} :
         {Entry(p).admin, Entry(p).impl} \subseteq DOMAIN g.entries
    /\ Entry(GlobalExitRootL2).bridge = g.bridge
    /\ LET timelock == Entry(g.admin).owner IN
         timelock \in DOMAIN g.entries /\ timelock \in Entry(timelock).admins
    /\ ~g.isMainnet /\ files.output.salt = g.salt =>
         g.bridge = files.output.bridge /\ g.admin = files.output.admin

\* Whatever happened before, erasing the traces of earlier runs and taking
\* an unused salt ends in a deployment once the troubles stop.
EventuallyDeployed == <>(files.output # NoOutput)

\* deployment/v2/README.md:124-125 says that a new salt is enough for a new
\* deployment, with the .openzeppelin files deleted.
NewSaltIsEnough ==
  outcome.why = "mismatch" /\ outcome.newSalt => outcome.disturbed
=============================================================================
