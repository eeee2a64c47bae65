--------------------------- MODULE VanillaGenesis ---------------------------
(***************************************************************************)
(* The genesis of a sovereign chain (updateVanillaGenesis,                 *)
(* create-sovereign-genesis): the genesis of 1_createGenesis with bridge   *)
(* and exit roots replaced by their sovereign versions and initialised, as *)
(* an operator from one genesis to another.                                *)
(*                                                                         *)
(* A genesis is a record from the part an entry plays to the entry: its    *)
(* contract, its address, the addresses its code holds and its storage. An *)
(* entry can be absent.                                                    *)
(***************************************************************************)
EXTENDS Naturals

Zero              == <<"0x0">>
Bridge            == <<"bridge">>
ExitRoots         == <<"0xa40d">>
CreatedBy(a, n)   == <<"create", a, n>>
Keyless(data)     == <<"keyless", data>>

Ether   == [network |-> 0, address |-> Zero]
NoSlots == << >>
Refused == << >>

Entry(contract, address, code, slots) ==
  [contract |-> contract, address |-> address, code |-> code, slots |-> slots,
   balance |-> 0]

Account(balance) ==
  [contract |-> "none", address |-> Zero, code |-> {}, slots |-> NoSlots,
   balance |-> balance]

Absent == [Account(0) EXCEPT !.contract = "absent"]

Parts(genesis) == {part \in DOMAIN genesis : genesis[part] # Absent}

----------------------------------------------------------------------------
(* The base: 1_createGenesis, or a file of an earlier version, without the *)
(* two contracts the bridge's implementation creates.                      *)

L1BridgeImpl == <<"bridgeImpl">>

BaseGenesis(hasChildren) ==
  [proxyAdmin |-> Entry("ProxyAdmin", <<"proxyAdmin">>, {}, [owner |-> <<"timelock">>]),
   bridgeImpl |->
     Entry("PolygonZkEVMBridgeV2", L1BridgeImpl,
           {CreatedBy(L1BridgeImpl, 1), CreatedBy(L1BridgeImpl, 2)}, NoSlots),
   bridge |->
     Entry("Proxy", Bridge, {}, [admin |-> <<"proxyAdmin">>, impl |-> L1BridgeImpl]),
   gerImpl |-> Entry("PolygonZkEVMGlobalExitRootL2", <<"gerImpl">>, {Bridge}, NoSlots),
   ger |->
     Entry("Proxy", ExitRoots, {}, [admin |-> <<"proxyAdmin">>, impl |-> <<"gerImpl">>]),
   timelock |->
     Entry("PolygonZkEVMTimelock", <<"timelock">>, {}, [admin |-> <<"timelockAdmin">>]),
   zkEVMDeployer |->
     Entry("PolygonZkEVMDeployer", <<"zkEVMDeployer">>, {}, [owner |-> <<"deployer">>]),
   deployer |-> [Account(0) EXCEPT !.address = <<"deployer">>],
   bytecodeStorer |->
     IF hasChildren
     THEN Entry("BytecodeStorer", CreatedBy(L1BridgeImpl, 1), {}, NoSlots) ELSE Absent,
   tokenWrapped |->
     IF hasChildren
     THEN Entry("TokenWrapped", CreatedBy(L1BridgeImpl, 2), {}, NoSlots) ELSE Absent,
   sovereignTokenWrapped |-> Absent, weth |-> Absent, account |-> Absent]

----------------------------------------------------------------------------
(* First database: the sovereign implementations are created by keyless    *)
(* transactions; their code, not their address, goes into the genesis.     *)

SovereignBridge == Keyless("BridgeL2SovereignChain")
StorerAt        == CreatedBy(SovereignBridge, 1)
TokenWrappedAt  == CreatedBy(SovereignBridge, 2)

\* The new code and the new token implementation, with the storer still where
\* the old code looked for it.
StorerLeft(genesis) ==
  [genesis EXCEPT
     !.bridgeImpl = Entry("BridgeL2SovereignChain", genesis.bridgeImpl.address,
                          {StorerAt, TokenWrappedAt}, [initialized |-> 255]),
     !.gerImpl = Entry("GlobalExitRootManagerL2SovereignChain",
                       genesis.gerImpl.address, {genesis.bridge.address},
                       [initialized |-> 255]),
     !.sovereignTokenWrapped =
       Entry("TokenWrapped", TokenWrappedAt, {}, [initialized |-> 255])]

\* The storer of the base is moved to where the new code looks for it. The
\* token implementation is sought as "TokenWrapped implementation" where
\* 1_createGenesis wrote "TokenWrapped Implementation": never found, it is
\* entered beside the old one.
WithSovereignCode(genesis) ==
  [StorerLeft(genesis) EXCEPT
     !.bytecodeStorer = Entry("BytecodeStorer", StorerAt, {}, NoSlots)]

----------------------------------------------------------------------------
(* Second database: both proxies are initialised. A call that reverts      *)
(* leaves the storage as it was.                                           *)

\* BridgeL2SovereignChain.initialize.
BridgeAccepts(p) ==
  /\ p.rollupID # 0
  /\ p.proxiedTokensManager \notin {Zero, Bridge}
  /\ IF p.gas = Ether
     THEN p.sovereignWETH = Zero /\ ~p.wethNotMintable
     ELSE p.sovereignWETH = Zero => ~p.wethNotMintable

CreatesWETH(p) == p.gas # Ether /\ p.sovereignWETH = Zero

WETHAt == <<"create2", Bridge, "Wrapped Ether">>

InitialisedBridge(genesis, p) ==
  IF BridgeAccepts(p)
  THEN [admin |-> genesis.bridge.slots.admin,
        impl |-> genesis.bridge.slots.impl,
        initialized |-> 3, network |-> p.rollupID, gas |-> p.gas,
        weth |-> IF CreatesWETH(p) THEN WETHAt ELSE p.sovereignWETH,
        notMintable |-> p.wethNotMintable, ger |-> genesis.ger.address,
        manager |-> p.bridgeManager, tokensManager |-> p.proxiedTokensManager]
  ELSE genesis.bridge.slots

InitialisedExitRoots(genesis, p) ==
  IF p.updater # Zero
  THEN [admin |-> genesis.ger.slots.admin, impl |-> genesis.ger.slots.impl,
        initialized |-> 1, updater |-> p.updater, remover |-> p.remover]
  ELSE genesis.ger.slots

Initialised(genesis, p) ==
  [genesis EXCEPT
     !.bridge.slots = InitialisedBridge(genesis, p),
     !.ger.slots = InitialisedExitRoots(genesis, p),
     !.weth = IF CreatesWETH(p) /\ BridgeAccepts(p)
              THEN Entry("WETH", WETHAt, {}, [impl |-> TokenWrappedAt, bridge |-> Bridge])
              ELSE @]

----------------------------------------------------------------------------
(* The expects over what came out. A slot that holds zero is no slot: the  *)
(* checks for an address fail when the address is zero.                    *)

BridgeAsExpected(genesis, p) ==
  LET slots == genesis.bridge.slots IN
  /\ "initialized" \in DOMAIN slots
  /\ slots.initialized = 3
  /\ slots.impl = genesis.bridgeImpl.address
  /\ slots.admin = genesis.proxyAdmin.address
  /\ slots.ger = genesis.ger.address
  /\ slots.network = p.rollupID
  /\ slots.tokensManager = p.proxiedTokensManager
  /\ slots.manager = p.bridgeManager /\ slots.manager # Zero
  /\ p.gas # Ether =>
       /\ slots.gas = p.gas
       /\ IF p.sovereignWETH # Zero
          THEN slots.weth = p.sovereignWETH /\ slots.notMintable = p.wethNotMintable
          ELSE slots.weth = genesis.weth.address
  /\ {StorerAt, TokenWrappedAt} \subseteq genesis.bridgeImpl.code

ExitRootsAsExpected(genesis, p) ==
  LET slots == genesis.ger.slots IN
  /\ genesis.bridge.address \in genesis.gerImpl.code
  /\ slots.impl = genesis.gerImpl.address
  /\ slots.admin = genesis.proxyAdmin.address
  /\ "initialized" \in DOMAIN slots
  /\ slots.initialized = 1 /\ slots.updater = p.updater
  /\ slots.remover = p.remover /\ slots.remover # Zero

BaseAsExpected(genesis) ==
  /\ genesis.proxyAdmin.slots.owner = genesis.timelock.address
  /\ genesis.zkEVMDeployer.slots.owner = genesis.deployer.address

UpdateVanillaGenesis(base, p) ==
  LET genesis == Initialised(WithSovereignCode(base), p) IN
  IF /\ BridgeAsExpected(genesis, p)
     /\ ExitRootsAsExpected(genesis, p)
     /\ BaseAsExpected(genesis)
  THEN genesis
  ELSE Refused

----------------------------------------------------------------------------
(* create-sovereign-genesis: the tool's own checks, then accounts that     *)
(* start with a balance and the timelock's storage.                        *)

\* What the tool asks before it starts, "like in bridge contract".
ToolAccepts(p) ==
  IF p.gas = Ether
  THEN p.sovereignWETH = Zero /\ ~p.wethNotMintable
  ELSE p.sovereignWETH = Zero => ~p.wethNotMintable

HasCode(entry) == entry.contract # "none"

\* An account with code is refused, the balance of another one replaced.
PreMint(genesis, account, balance) ==
  LET there == {part \in Parts(genesis) : genesis[part].address = account} IN
  IF there = {}
  THEN [genesis EXCEPT !.account = [Account(balance) EXCEPT !.address = account]]
  ELSE IF \E part \in there : HasCode(genesis[part])
  THEN Refused
  ELSE [part \in DOMAIN genesis |->
          IF part \in there THEN [genesis[part] EXCEPT !.balance = balance]
                            ELSE genesis[part]]

\* initializeTimelockStorage: the storage is written anew, for the address
\* the timelock has in the genesis.
WithTimelock(genesis, admin) ==
  [genesis EXCEPT !.timelock.slots = [admin |-> admin]]

CreateSovereignGenesis(base, p, account, balance, admin) ==
  LET updated == UpdateVanillaGenesis(base, p)
      minted  == PreMint(updated, account, balance) IN
  IF ~ToolAccepts(p) \/ updated = Refused \/ minted = Refused
  THEN Refused
  ELSE WithTimelock(minted, admin)

----------------------------------------------------------------------------
(* What a genesis owes the chain that starts from it.                      *)

AddressSlots == {"admin", "impl", "ger", "owner", "bridge"}

\* The contracts an entry cannot work without: those its code was compiled
\* with, and those its storage names as its parts.
Needs(entry) ==
  entry.code \cup {entry.slots[s] : s \in AddressSlots \cap DOMAIN entry.slots}

Addresses(genesis) == {genesis[part].address : part \in Parts(genesis)}

\* Every contract needed is there, and no two entries share an address (the
\* geth format is keyed by it). The timelock's admin is an account.
Closed(genesis) ==
  /\ \A part \in Parts(genesis) \ {"timelock"} :
       Needs(genesis[part]) \subseteq Addresses(genesis)
  /\ \A a, b \in Parts(genesis) :
       a # b => genesis[a].address # genesis[b].address

\* Bridge and exit roots start initialised, and nothing else can do it.
Sealed(genesis) ==
  /\ genesis.bridge.slots.initialized = 3
  /\ genesis.ger.slots.initialized = 1
  /\ \A part \in {"bridgeImpl", "gerImpl", "sovereignTokenWrapped"} :
       genesis[part].slots.initialized = 255
=============================================================================
