-------------------------- MODULE DeploymentProofs --------------------------
(***************************************************************************)
(* The deployment on L1 and the genesis of L2, for any number of salts,    *)
(* attempts, runs and troubles: who controls the proxies, what an output   *)
(* and a genesis name, and that the script counts its transactions right.  *)
(***************************************************************************)
EXTENDS Deployment, TLAPS

-----------------------------------------------------------------------------
(* Addresses. The key creates at its nonces; create2 places at a salt.      *)

Salts == 1 .. MaxSalt

Created == {Create(n) : n \in Nat} \cup {NoAddress}

Placed == {ProxyAdminAt(s) : s \in Salts} \cup {BridgeImplAt(s) : s \in Salts}
            \cup {BridgeProxyAt(s) : s \in Salts}

\* Addresses are equal only if they are made in the same way.
LEMMA AddressesDiffer ==
    /\ \A n, m : Create(n) = Create(m) => n = m
    /\ \A n, s : /\ Create(n) # ProxyAdminAt(s) /\ Create(n) # BridgeImplAt(s)
                 /\ Create(n) # BridgeProxyAt(s)
    /\ \A s, t : /\ ProxyAdminAt(s) # BridgeImplAt(t) /\ ProxyAdminAt(s) # BridgeProxyAt(t)
                 /\ BridgeImplAt(s) # BridgeProxyAt(t)
    /\ \A s, t : ProxyAdminAt(s) = ProxyAdminAt(t) \/ BridgeProxyAt(s) = BridgeProxyAt(t)
                   => s = t
    /\ \A n : Create(n) # Key /\ Create(n) # NoAddress
    /\ \A s : ProxyAdminAt(s) # Key /\ ProxyAdminAt(s) # NoAddress
<1>1. \A n, m : Create(n) = Create(m) => n = m
  BY DEF Create
<1>2. \A n, s, init : Create(n) # Create2(s, init)
  BY DEF Create, Create2
<1>3. \A s, t, init, other : Create2(s, init) = Create2(t, other) => s = t /\ init = other
  BY DEF Create2
<1>4. \A n : Create(n) # Key /\ Create(n) # NoAddress
  BY DEF Create, Key, NoAddress
<1>5. \A s, init : Create2(s, init) # Key /\ Create2(s, init) # NoAddress
  BY DEF Create2, Key, NoAddress
<1>6. <<"ProxyAdmin">> # <<"PolygonZkEVMBridgeV2">>
  OBVIOUS
<1>7. \A x, y : /\ <<"ProxyAdmin">> # <<"Proxy", x, y, "0x">>
               /\ <<"PolygonZkEVMBridgeV2">> # <<"Proxy", x, y, "0x">>
  OBVIOUS
<1>8. \A s, t : ProxyAdminAt(s) = ProxyAdminAt(t) \/ BridgeProxyAt(s) = BridgeProxyAt(t) => s = t
  BY <1>3 DEF ProxyAdminAt, BridgeProxyAt
<1>9. \A s, t : /\ ProxyAdminAt(s) # BridgeImplAt(t) /\ ProxyAdminAt(s) # BridgeProxyAt(t)
                /\ BridgeImplAt(s) # BridgeProxyAt(t)
  BY <1>3, <1>6, <1>7 DEF ProxyAdminAt, BridgeImplAt, BridgeProxyAt
<1>10. \A n, s : /\ Create(n) # ProxyAdminAt(s) /\ Create(n) # BridgeImplAt(s)
                 /\ Create(n) # BridgeProxyAt(s)
  BY <1>2 DEF ProxyAdminAt, BridgeImplAt, BridgeProxyAt
<1>11. \A s : ProxyAdminAt(s) # Key /\ ProxyAdminAt(s) # NoAddress
  BY <1>5 DEF ProxyAdminAt
<1> QED BY <1>1, <1>4, <1>8, <1>9, <1>10, <1>11

-----------------------------------------------------------------------------
(* Types. *)

Phases == {"idle", "fund", "broadcast", "saveDeployer", "proxyAdmin", "bridgeImpl",
           "plan", "timelock", "ownership", "bridge", "import", "ger", "saveGER",
           "verifier", "gateway", "saveGateway", "manager", "saveManager", "check",
           "output", "unlink"}

\* The steps of 3_deployContracts from one on.
FromCheck     == {"check", "output", "unlink"}
FromSaved     == FromCheck \cup {"saveManager"}
FromManager   == FromSaved \cup {"manager"}
FromVerifier  == FromManager \cup {"saveGateway", "gateway", "verifier"}
FromSaveGER   == FromVerifier \cup {"saveGER"}
FromImport    == FromSaveGER \cup {"ger", "import"}
FromBridge    == FromImport \cup {"bridge"}
FromOwnership == FromBridge \cup {"ownership"}
FromImpl      == FromOwnership \cup {"timelock", "plan", "bridgeImpl"}
Deploying     == FromImpl \cup {"proxyAdmin"}

Runs ==
    [pc : Phases, salt : 0 .. MaxSalt, preGER : Created, preManager : Created,
     timelock : Created, ger : Created, gateway : Created, manager : Created,
     verifier : Created, impls : SUBSET Proxied, tries : Nat,
     newSalt : BOOLEAN, clean : BOOLEAN, disturbed : BOOLEAN]

Outcomes ==
    [why : {"none", "deployer", "refused", "mismatch", "exhausted", "done", "crashed"},
     newSalt : BOOLEAN, clean : BOOLEAN, disturbed : BOOLEAN]

\* An output names the create2 addresses of its salt.
Outputs ==
    {o \in [salt : Salts, admin : Placed, bridge : Placed, ger : Created,
            gateway : Created, manager : Created, timelock : Created] :
       o.admin = ProxyAdminAt(o.salt) /\ o.bridge = BridgeProxyAt(o.salt)}

Geneses == {Genesis(s, m) : s \in Salts, m \in BOOLEAN}

Files ==
    [salt : Salts, manifest : BOOLEAN,
     ongoing : [ger : Created, gateway : Created, manager : Created],
     zkEVMDeployer : BOOLEAN, output : Outputs \cup {NoOutput},
     genesis : Geneses \cup {NoGenesis}]

Contracts ==
    [kind : {"proxyAdmin"}, owner : Created \cup {Key}, returned : BOOLEAN]
      \cup [kind : {"implementation", "verifier"}]
      \cup [kind : {"timelock"}, manager : Created]
      \cup [kind : {"bridge"}, admin : Placed, impl : Placed, ger : Created, manager : Created]
      \cup [kind : {"ger"}, admin : Placed, manager : Created, bridge : Placed]
      \cup [kind : {"gateway"}, admin : Placed, defaultAdmin : Created \cup {Key},
            verifier : Created]
      \cup [kind : {"manager"}, admin : Placed, ger : Created, bridge : Placed,
            gateway : Created, defaultAdmin : Created \cup {Key}]

TypesOK ==
    /\ nonce \in Nat
    /\ code \in [DOMAIN code -> Contracts]
    /\ run \in Runs
    /\ files \in Files
    /\ outcome \in Outcomes

-----------------------------------------------------------------------------
(* What is on the chain. *)

Proxies == {"bridge", "ger", "gateway", "manager"}

\* Nothing is at a nonce that was not used yet.
NoncesOK == \A n \in Nat : Create(n) \in DOMAIN code => n < nonce

\* What create2 has placed at a salt.
PlacedOK ==
    \A s \in Salts :
        /\ ProxyAdminAt(s) \in DOMAIN code => code[ProxyAdminAt(s)].kind = "proxyAdmin"
        /\ BridgeProxyAt(s) \in DOMAIN code =>
              /\ code[BridgeProxyAt(s)].kind = "bridge"
              /\ code[BridgeProxyAt(s)].admin = ProxyAdminAt(s)

\* The key has no proxy under it unless the timelock gave it back.
NotTheKey(admin) ==
    /\ admin \in DOMAIN code
    /\ code[admin].owner = Key => code[admin].returned

\* Every proxy obeys the proxy admin of a salt, which is not the key's.
ProxiesOK ==
    \A a \in DOMAIN code : code[a].kind \in Proxies =>
        \E s \in Salts : code[a].admin = ProxyAdminAt(s) /\ NotTheKey(ProxyAdminAt(s))

ChainOK == NoncesOK /\ PlacedOK /\ ProxiesOK

-----------------------------------------------------------------------------
(* What the script knows of the chain at each of its steps. *)

Holds(a, contract) == a \in DOMAIN code /\ code[a] = contract

RunOK ==
    LET admin  == ProxyAdminAt(run.salt)
        bridge == BridgeProxyAt(run.salt) IN
    /\ run.pc = "idle" => run = Idle
    /\ run.pc \in Deploying => run.salt \in Salts
    /\ run.pc \in FromImpl => admin \in DOMAIN code
    /\ run.pc \in FromOwnership =>
          /\ Holds(run.timelock, [kind |-> "timelock", manager |-> run.preManager])
          /\ run.timelock # NoAddress
    /\ run.pc \in FromBridge => code[admin].owner = run.timelock
    /\ run.pc \in FromImport =>
          /\ bridge \in DOMAIN code
          /\ code[bridge].ger = run.preGER /\ code[bridge].manager = run.preManager
    /\ run.pc \in FromSaveGER =>
          Holds(run.ger, [kind |-> "ger", admin |-> admin, manager |-> run.preManager,
                          bridge |-> bridge])
    /\ run.pc \in FromVerifier => run.ger = run.preGER
    /\ run.pc \in FromSaved =>
          Holds(run.manager, [kind |-> "manager", admin |-> admin, ger |-> run.ger,
                              bridge |-> bridge, gateway |-> run.gateway,
                              defaultAdmin |-> FinalTimelockAddress])
    /\ run.pc \in FromCheck => run.manager = run.preManager
    /\ run.pc = "output" => AdminIs(run.gateway, admin)

-----------------------------------------------------------------------------
(* What a run that nothing disturbs has still to send. *)

\* Transactions before the proxy of the exit roots, and of the manager.
GERLeft ==
    CASE run.pc = "timelock" -> 4 [] run.pc = "ownership" -> 3 [] run.pc = "bridge" -> 2
      [] run.pc = "import" -> 1
      [] run.pc = "ger" -> (IF "ger" \in run.impls THEN 0 ELSE 1)

ManagerLeft ==
    CASE run.pc = "timelock" -> 9 [] run.pc = "ownership" -> 8 [] run.pc = "bridge" -> 7
      [] run.pc = "import" -> 6
      [] run.pc = "ger" -> (IF "ger" \in run.impls THEN 5 ELSE 6)
      [] run.pc \in {"saveGER", "verifier"} -> 4
      [] run.pc = "gateway" -> (IF "gateway" \in run.impls THEN 2 ELSE 3)
      [] run.pc = "saveGateway" -> 1
      [] run.pc = "manager" -> (IF "manager" \in run.impls THEN 0 ELSE 1)

\* The manifest has only what this run has sent.
ImplsOK ==
    /\ "gateway" \in run.impls => run.pc \in FromManager \cup {"saveGateway", "gateway"}
    /\ "manager" \in run.impls => run.pc \in FromManager
    /\ "ger" \in run.impls => run.pc \in FromSaveGER \cup {"ger"}

CleanOK ==
    run.clean =>
        /\ run.pc \in Deploying \ FromImport => BridgeProxyAt(run.salt) \notin DOMAIN code
        /\ run.pc \in Deploying \ (FromManager \cup {"saveGateway"}) =>
              run.gateway = NoAddress
        /\ run.pc \in FromManager \cup {"saveGateway"} =>
              AdminIs(run.gateway, ProxyAdminAt(run.salt))

CountsOK ==
    run.clean /\ ~run.disturbed =>
        /\ run.pc \in {"timelock", "ownership", "bridge", "import", "ger"} =>
              run.preGER = Create(nonce + GERLeft)
        /\ run.pc = "saveGER" => run.ger = run.preGER
        /\ run.pc \in {"timelock", "ownership", "bridge", "import", "ger", "saveGER",
                       "verifier", "gateway", "saveGateway", "manager"} =>
              run.preManager = Create(nonce + ManagerLeft)
        /\ run.pc = "saveManager" => run.manager = run.preManager

DepIInv ==
    /\ TypesOK /\ ChainOK /\ RunOK
    /\ ImplsOK /\ CleanOK /\ CountsOK /\ CleanRunPasses

-----------------------------------------------------------------------------
(* The chain grows, and what is on it stays. *)

\* Nothing that was there has changed.
Kept == \A b \in DOMAIN code : b \in DOMAIN code' /\ code'[b] = code[b]

\* A contract comes to an address that had none, by a transaction.
Grows(a, c) ==
    /\ a \notin DOMAIN code /\ code' = With(code, a, c) /\ nonce' = nonce + 1

LEMMA GrowsKeeps ==
    ASSUME code \in [DOMAIN code -> Contracts], NEW a, NEW c \in Contracts, Grows(a, c)
    PROVE  /\ Kept /\ DOMAIN code' = DOMAIN code \cup {a} /\ code'[a] = c
           /\ code' \in [DOMAIN code' -> Contracts]
<1>1. /\ DOMAIN code' = DOMAIN code \cup {a} /\ code'[a] = c
      /\ \A b \in DOMAIN code : code'[b] = code[b]
  BY DEF Grows, With
<1>2. \A b \in DOMAIN code' : code'[b] \in Contracts
  BY <1>1
<1>3. code' = [b \in DOMAIN code' |-> code'[b]]
  BY DEF Grows, With
<1> QED BY <1>1, <1>2, <1>3 DEF Kept

\* What comes by a plain creation is an implementation, a timelock, a
\* verifier, or a proxy under a proxy admin that is not the key's.
Governed(c) ==
    c.kind \in Proxies => \E s \in Salts : c.admin = ProxyAdminAt(s) /\ NotTheKey(ProxyAdminAt(s))

LEMMA CreationKeepsChain ==
    ASSUME TypesOK, ChainOK, NEW c \in Contracts, Governed(c), Deploy(c)
    PROVE  /\ Kept /\ DOMAIN code' = DOMAIN code \cup {Create(nonce)}
           /\ code'[Create(nonce)] = c /\ nonce' = nonce + 1
           /\ code' \in [DOMAIN code' -> Contracts] /\ ChainOK'
<1>1. Grows(Create(nonce), c)
  BY DEF TypesOK, ChainOK, NoncesOK, Grows, Deploy
<1>2. /\ Kept /\ DOMAIN code' = DOMAIN code \cup {Create(nonce)} /\ code'[Create(nonce)] = c
      /\ code' \in [DOMAIN code' -> Contracts] /\ nonce' = nonce + 1
  BY <1>1, GrowsKeeps DEF TypesOK, Grows
<1>3. NoncesOK'
  BY <1>2, AddressesDiffer DEF NoncesOK, ChainOK, TypesOK
<1>4. PlacedOK'
  BY <1>2, AddressesDiffer DEF PlacedOK, ChainOK, Kept
<1>5. ProxiesOK'
  BY <1>2 DEF ProxiesOK, ChainOK, Kept, Governed, NotTheKey
<1> QED BY <1>2, <1>3, <1>4, <1>5 DEF ChainOK

\* An action that sends nothing.
LEMMA SameChain ==
    ASSUME ChainOK, UNCHANGED code, nonce' \in Nat, nonce \in Nat, nonce' >= nonce
    PROVE  ChainOK' /\ Kept
  BY DEF ChainOK, NoncesOK, PlacedOK, ProxiesOK, NotTheKey, Kept

\* create2 has an address of its own for each contract and salt.
LEMMA PlacementKeepsChain ==
    ASSUME TypesOK, ChainOK, NEW s \in Salts, NEW a, NEW c \in Contracts,
           \/ a = ProxyAdminAt(s) /\ c.kind = "proxyAdmin"
           \/ a = BridgeImplAt(s) /\ c.kind = "implementation"
           \/ /\ a = BridgeProxyAt(s) /\ c.kind = "bridge" /\ c.admin = ProxyAdminAt(s)
              /\ NotTheKey(ProxyAdminAt(s)),
           Create2Deployment(a, c)
    PROVE  /\ Kept /\ DOMAIN code' = DOMAIN code \cup {a} /\ nonce' \in Nat
           /\ a \notin DOMAIN code => code'[a] = c /\ nonce' = nonce + 1
           /\ code' \in [DOMAIN code' -> Contracts] /\ ChainOK'
<1>1. CASE a \in DOMAIN code
  <2>1. UNCHANGED <<nonce, code>>
    BY <1>1 DEF Create2Deployment
  <2>2. ChainOK' /\ Kept
    BY <2>1, SameChain DEF TypesOK
  <2> QED BY <1>1, <2>1, <2>2 DEF TypesOK
<1>2. CASE a \notin DOMAIN code
  <2>1. Grows(a, c)
    BY <1>2 DEF Create2Deployment, Grows
  <2>2. /\ Kept /\ DOMAIN code' = DOMAIN code \cup {a} /\ code'[a] = c
        /\ code' \in [DOMAIN code' -> Contracts] /\ nonce' = nonce + 1
    BY <2>1, GrowsKeeps DEF TypesOK, Grows
  <2>3. NoncesOK'
    BY <2>2, AddressesDiffer DEF NoncesOK, ChainOK, TypesOK
  <2>4. PlacedOK'
    BY <2>2, AddressesDiffer DEF PlacedOK, ChainOK, Kept
  <2>5. ProxiesOK'
    BY <2>2 DEF ProxiesOK, ChainOK, Kept, NotTheKey, Proxies
  <2> QED BY <1>2, <2>2, <2>3, <2>4, <2>5 DEF ChainOK, TypesOK
<1> QED BY <1>1, <1>2

LEMMA ProxyAdminType ==
    ASSUME TypesOK, ChainOK, NEW s \in Salts, ProxyAdminAt(s) \in DOMAIN code
    PROVE  code[ProxyAdminAt(s)] \in
             [kind : {"proxyAdmin"}, owner : Created \cup {Key}, returned : BOOLEAN]
<1>1. code[ProxyAdminAt(s)] \in Contracts /\ code[ProxyAdminAt(s)].kind = "proxyAdmin"
  BY DEF TypesOK, ChainOK, PlacedOK
<1> QED BY <1>1 DEF Contracts

\* A proxy admin gets another owner: not the key, or with the timelock's leave.
LEMMA OwnerChangeKeepsChain ==
    ASSUME TypesOK, ChainOK, NEW s \in Salts, ProxyAdminAt(s) \in DOMAIN code,
           NEW c \in [kind : {"proxyAdmin"}, owner : Created \cup {Key}, returned : BOOLEAN],
           c.owner = Key => c.returned,
           code' = [code EXCEPT ![ProxyAdminAt(s)] = c], nonce' \in {nonce, nonce + 1}
    PROVE  /\ DOMAIN code' = DOMAIN code /\ code'[ProxyAdminAt(s)] = c
           /\ \A b \in DOMAIN code : b # ProxyAdminAt(s) => code'[b] = code[b]
           /\ code' \in [DOMAIN code' -> Contracts] /\ ChainOK' /\ nonce' \in Nat
<1>1. /\ DOMAIN code' = DOMAIN code /\ code'[ProxyAdminAt(s)] = c
      /\ \A b \in DOMAIN code : b # ProxyAdminAt(s) => code'[b] = code[b]
  BY DEF TypesOK
<1>2. c \in Contracts /\ c.kind = "proxyAdmin"
  BY DEF Contracts
<1>3. code' \in [DOMAIN code' -> Contracts]
  BY <1>1, <1>2 DEF TypesOK
<1>4. NoncesOK' /\ nonce' \in Nat
  BY <1>1 DEF NoncesOK, ChainOK, TypesOK
<1>5. code[ProxyAdminAt(s)].kind = "proxyAdmin"
  BY DEF ChainOK, PlacedOK
<1>6. PlacedOK'
  BY <1>1, <1>2, AddressesDiffer DEF PlacedOK, ChainOK
<1>7. \A t \in Salts : NotTheKey(ProxyAdminAt(t)) => NotTheKey(ProxyAdminAt(t))'
  <2> TAKE t \in Salts
  <2> QED BY <1>1 DEF NotTheKey
<1>8. ProxiesOK'
  <2> SUFFICES ASSUME NEW a \in DOMAIN code', code'[a].kind \in Proxies
               PROVE  \E t \in Salts : code'[a].admin = ProxyAdminAt(t) /\ NotTheKey(ProxyAdminAt(t))'
    BY DEF ProxiesOK
  <2>1. a \in DOMAIN code /\ code'[a] = code[a]
    BY <1>1, <1>2 DEF Proxies
  <2> QED BY <2>1, <1>7 DEF ChainOK, ProxiesOK
<1> QED BY <1>1, <1>3, <1>4, <1>6, <1>8 DEF ChainOK

\* A script that does not run knows nothing.
LEMMA IdleKnowsNothing ==
    ASSUME run' = Idle
    PROVE  RunOK' /\ ImplsOK' /\ CleanOK' /\ CountsOK' /\ run' \in Runs
<1> USE DEF FromCheck, FromSaved, FromManager, FromVerifier, FromSaveGER, FromImport,
            FromBridge, FromOwnership, FromImpl, Deploying
<1>1. run'.pc = "idle" /\ run'.impls = {} /\ run'.clean = FALSE
  BY DEF Idle
<1>2. run' \in Runs
  BY DeploymentAssumption DEF Idle, Runs, Created, Phases
<1> QED BY <1>1, <1>2 DEF RunOK, ImplsOK, CleanOK, CountsOK

-----------------------------------------------------------------------------
(* The steps of the scripts. *)

\* A run that ends leaves chain and files alone and learns nothing.
LEMMA StopKeeps ==
    ASSUME DepIInv, NEW why \in {"deployer", "refused", "exhausted", "done", "crashed"}, Stop(why)
    PROVE  /\ RunOK' /\ ImplsOK' /\ CleanOK' /\ CountsOK' /\ run' \in Runs
           /\ outcome' \in Outcomes /\ CleanRunPasses'
<1>1. RunOK' /\ ImplsOK' /\ CleanOK' /\ CountsOK' /\ run' \in Runs
  BY IdleKnowsNothing DEF Stop
<1>2. outcome' = [why |-> why, newSalt |-> run.newSalt, clean |-> run.clean,
                  disturbed |-> run.disturbed]
  BY DEF Stop
<1>3. outcome' \in Outcomes /\ outcome'.why # "mismatch"
  BY <1>2 DEF DepIInv, TypesOK, Runs, Outcomes
<1> QED BY <1>1, <1>3 DEF CleanRunPasses

\* A check that fails: only in a run that is not clean, or was disturbed.
LEMMA MismatchKeeps ==
    ASSUME DepIInv, Stop("mismatch"), run.clean => run.disturbed
    PROVE  /\ RunOK' /\ ImplsOK' /\ CleanOK' /\ CountsOK' /\ run' \in Runs
           /\ outcome' \in Outcomes /\ CleanRunPasses'
<1>1. RunOK' /\ ImplsOK' /\ CleanOK' /\ CountsOK' /\ run' \in Runs
  BY IdleKnowsNothing DEF Stop
<1>2. outcome' = [why |-> "mismatch", newSalt |-> run.newSalt, clean |-> run.clean,
                  disturbed |-> run.disturbed]
  BY DEF Stop
<1>3. outcome' \in Outcomes /\ CleanRunPasses'
  BY <1>2 DEF DepIInv, TypesOK, Runs, Outcomes, CleanRunPasses
<1> QED BY <1>1, <1>3

LEMMA DeployerStep ==
    ASSUME DepIInv, StartDeployer \/ FundKeyless \/ BroadcastKeyless \/ SaveDeployer
    PROVE  DepIInv'
<1> USE DEF FromCheck, FromSaved, FromManager, FromVerifier, FromSaveGER, FromImport,
            FromBridge, FromOwnership, FromImpl, Deploying
<1>1. CASE SaveDeployer
  <2>1. /\ Stop("deployer") /\ files' = [files EXCEPT !.zkEVMDeployer = TRUE]
        /\ UNCHANGED <<nonce, code>>
    BY <1>1 DEF SaveDeployer
  <2>2. files' \in Files
    BY <2>1 DEF DepIInv, TypesOK, Files
  <2>3. ChainOK'
    BY <2>1, SameChain DEF DepIInv, TypesOK
  <2> QED BY <2>1, <2>2, <2>3, StopKeeps DEF DepIInv, TypesOK
<1>2. CASE StartDeployer \/ FundKeyless \/ BroadcastKeyless
  <2>1. /\ run.pc \in {"idle", "fund", "broadcast"}
        /\ \E pc \in {"fund", "broadcast", "saveDeployer"} : run' = [run EXCEPT !.pc = pc]
        /\ UNCHANGED <<code, files, outcome>> /\ nonce' \in {nonce, nonce + 1}
    BY <1>2 DEF StartDeployer, FundKeyless, BroadcastKeyless, At, Goto
  <2>2. /\ run' \in Runs /\ run'.pc \in {"fund", "broadcast", "saveDeployer"}
        /\ run'.impls = run.impls
    BY <2>1 DEF DepIInv, TypesOK, Runs, Phases
  <2>3. ChainOK' /\ nonce' \in Nat
    BY <2>1, SameChain DEF DepIInv, TypesOK
  <2>4. ImplsOK'
    BY <2>1, <2>2 DEF DepIInv, ImplsOK
  <2>5. RunOK' /\ CleanOK' /\ CountsOK' /\ CleanRunPasses'
    BY <2>1, <2>2 DEF DepIInv, RunOK, CleanOK, CountsOK, CleanRunPasses
  <2> QED BY <2>1, <2>2, <2>3, <2>4, <2>5 DEF DepIInv, TypesOK
<1> QED BY <1>1, <1>2

\* What the script wrote to disk only.
LEMMA StartStep ==
    ASSUME DepIInv, Start \/ StartFromScratch
    PROVE  DepIInv'
<1> USE DEF FromCheck, FromSaved, FromManager, FromVerifier, FromSaveGER, FromImport,
            FromBridge, FromOwnership, FromImpl, Deploying
<1>1. /\ UNCHANGED <<nonce, code>>
      /\ ChainOK'
  <2>1. UNCHANGED <<nonce, code>>
    BY DEF Start, StartFromScratch
  <2> QED BY <2>1, SameChain DEF DepIInv, TypesOK
<1>2. CASE Start /\ Stop("refused")
  BY <1>1, <1>2, StopKeeps DEF Start, DepIInv, TypesOK
<1>3. CASE ~(Start /\ Stop("refused"))
  <2>1. PICK salt \in Salts, ongoing \in [ger : Created, gateway : Created, manager : Created] :
            run' = Locals(salt, ongoing)
    <3>1. CASE Start
      BY <1>3, <3>1 DEF Start, DepIInv, TypesOK, Files
    <3>2. CASE StartFromScratch
      <4>1. NoOngoing \in [ger : Created, gateway : Created, manager : Created]
        BY DEF NoOngoing, Created
      <4> QED BY <3>2, <4>1 DEF StartFromScratch, Salts
    <3> QED BY <3>1, <3>2
  <2>2. files' \in Files /\ UNCHANGED outcome
    <3>1. CASE Start
      BY <1>3, <3>1 DEF Start, DepIInv, TypesOK
    <3>2. CASE StartFromScratch
      <4>1. /\ UNCHANGED outcome
            /\ \E s \in Salts : files' = [files EXCEPT !.salt = s, !.manifest = FALSE,
                                                       !.ongoing = NoOngoing]
        BY <3>2 DEF StartFromScratch, Salts
      <4>2. NoOngoing \in [ger : Created, gateway : Created, manager : Created]
        BY DEF NoOngoing, Created
      <4> QED BY <4>1, <4>2 DEF DepIInv, TypesOK, Files
    <3> QED BY <3>1, <3>2
  <2>3. /\ run'.pc = "proxyAdmin" /\ run'.salt = salt /\ run'.impls = {}
        /\ run'.gateway = ongoing.gateway
        /\ run'.clean => ProxyAdminAt(salt) \notin DOMAIN code /\ ongoing = NoOngoing
    BY <2>1 DEF Locals, Idle, SaltUsed
  <2>4. run' \in Runs
    <3>1. Idle \in Runs
      BY DeploymentAssumption DEF Idle, Runs, Phases, Created
    <3>2. SaltUsed(salt) \in BOOLEAN /\ (ongoing = NoOngoing) \in BOOLEAN
      BY DEF SaltUsed
    <3>3. /\ salt \in 0 .. MaxSalt /\ ongoing.gateway \in Created
      BY DEF Salts
    <3> QED BY <2>1, <3>1, <3>2, <3>3 DEF Locals, Runs, Phases
  <2>5. run'.clean => BridgeProxyAt(salt) \notin DOMAIN code /\ run'.gateway = NoAddress
    <3>1. BridgeProxyAt(salt) \in DOMAIN code => ProxyAdminAt(salt) \in DOMAIN code
      BY AddressesDiffer DEF DepIInv, ChainOK, PlacedOK, ProxiesOK, NotTheKey, Proxies
    <3> QED BY <2>3, <3>1 DEF NoOngoing
  <2>6. RunOK' /\ ImplsOK' /\ CleanOK' /\ CountsOK'
    BY <1>1, <2>3, <2>5 DEF RunOK, ImplsOK, CleanOK, CountsOK
  <2>7. CleanRunPasses'
    BY <2>2 DEF DepIInv, CleanRunPasses
  <2> QED BY <1>1, <2>2, <2>4, <2>6, <2>7 DEF DepIInv, TypesOK
<1> QED BY <1>2, <1>3

LEMMA ProxyAdminStep ==
    ASSUME DepIInv, ProxyAdmin
    PROVE  DepIInv'
<1> USE DEF FromCheck, FromSaved, FromManager, FromVerifier, FromSaveGER, FromImport,
            FromBridge, FromOwnership, FromImpl, Deploying
<1> DEFINE contract == [kind |-> "proxyAdmin", owner |-> Key, returned |-> FALSE]
<1>1. /\ run.pc = "proxyAdmin" /\ run.salt \in Salts /\ UNCHANGED files
      /\ Create2Deployment(ProxyAdminAt(run.salt), contract)
  BY DEF ProxyAdmin, At, DepIInv, RunOK
<1>2. contract \in Contracts
  BY DEF Contracts
<1>3. /\ Kept /\ DOMAIN code' = DOMAIN code \cup {ProxyAdminAt(run.salt)}
      /\ nonce' \in Nat /\ code' \in [DOMAIN code' -> Contracts] /\ ChainOK'
  <2> HIDE DEF contract
  <2>1. contract.kind = "proxyAdmin"
    BY DEF contract
  <2> QED BY <1>1, <1>2, <2>1, PlacementKeepsChain DEF DepIInv
<1>4. CASE Stop("refused")
  BY <1>1, <1>3, <1>4, StopKeeps DEF DepIInv, TypesOK
<1>5. CASE Goto("bridgeImpl") /\ UNCHANGED outcome
  <2>1. /\ run' \in Runs /\ run' = [run EXCEPT !.pc = "bridgeImpl"]
        /\ run'.pc = "bridgeImpl" /\ run'.salt = run.salt /\ run'.impls = run.impls
        /\ run'.gateway = run.gateway /\ run'.clean = run.clean
    BY <1>5 DEF Goto, DepIInv, TypesOK, Runs, Phases
  <2>2. RunOK' /\ ImplsOK' /\ CountsOK'
    BY <1>1, <1>3, <2>1 DEF DepIInv, RunOK, ImplsOK, CountsOK
  <2>3. CleanOK'
    BY <1>1, <1>3, <2>1, AddressesDiffer DEF DepIInv, CleanOK
  <2>4. CleanRunPasses'
    BY <1>5 DEF DepIInv, CleanRunPasses
  <2> QED BY <1>1, <1>3, <1>5, <2>1, <2>2, <2>3, <2>4 DEF DepIInv, TypesOK
<1> QED BY <1>4, <1>5 DEF ProxyAdmin

LEMMA BridgeImplementationStep ==
    ASSUME DepIInv, BridgeImplementation
    PROVE  DepIInv'
<1> USE DEF FromCheck, FromSaved, FromManager, FromVerifier, FromSaveGER, FromImport,
            FromBridge, FromOwnership, FromImpl, Deploying
<1> DEFINE contract == [kind |-> "implementation"]
<1>1. /\ run.pc = "bridgeImpl" /\ run.salt \in Salts /\ UNCHANGED <<files, outcome>>
      /\ Create2Deployment(BridgeImplAt(run.salt), contract) /\ Goto("plan")
  BY DEF BridgeImplementation, At, DepIInv, RunOK
<1>2. contract \in Contracts
  BY DEF Contracts
<1>3. /\ Kept /\ DOMAIN code' = DOMAIN code \cup {BridgeImplAt(run.salt)}
      /\ nonce' \in Nat /\ code' \in [DOMAIN code' -> Contracts] /\ ChainOK'
  <2> HIDE DEF contract
  <2>1. contract.kind = "implementation"
    BY DEF contract
  <2> QED BY <1>1, <1>2, <2>1, PlacementKeepsChain DEF DepIInv
<1>4. /\ run' \in Runs /\ run' = [run EXCEPT !.pc = "plan"]
      /\ run'.pc = "plan" /\ run'.salt = run.salt /\ run'.impls = run.impls
      /\ run'.gateway = run.gateway /\ run'.clean = run.clean
  BY <1>1 DEF Goto, DepIInv, TypesOK, Runs, Phases
<1>5. RunOK' /\ ImplsOK' /\ CountsOK'
  BY <1>1, <1>3, <1>4 DEF DepIInv, RunOK, ImplsOK, CountsOK, Kept
<1>6. CleanOK'
  BY <1>1, <1>3, <1>4, AddressesDiffer DEF DepIInv, CleanOK
<1>7. CleanRunPasses'
  BY <1>1 DEF DepIInv, CleanRunPasses
<1> QED BY <1>1, <1>3, <1>4, <1>5, <1>6, <1>7 DEF DepIInv, TypesOK

LEMMA PlanStep ==
    ASSUME DepIInv, Plan
    PROVE  DepIInv'
<1> USE DEF FromCheck, FromSaved, FromManager, FromVerifier, FromSaveGER, FromImport,
            FromBridge, FromOwnership, FromImpl, Deploying
<1>1. /\ run.pc = "plan" /\ UNCHANGED <<nonce, code, outcome>> /\ nonce \in Nat
      /\ files' = [files EXCEPT !.ongoing.ger = NoAddress, !.ongoing.manager = NoAddress]
      /\ run' = [run EXCEPT !.pc = "timelock", !.preGER = Create(nonce + 4),
                            !.preManager = Create(nonce + 9)]
  <2>1. nonce \in Nat /\ NonceGER(nonce) = nonce + 4 /\ NonceManager(nonce) = nonce + 9
    BY DEF NonceGER, NonceManager, DepIInv, TypesOK
  <2> QED BY <2>1 DEF Plan, At
<1>2. files' \in Files
  BY <1>1 DEF DepIInv, TypesOK, Files, Created
<1>3. Create(nonce + 4) \in Created /\ Create(nonce + 9) \in Created
  BY <1>1 DEF Created
<1>4. /\ run' \in Runs /\ run'.pc = "timelock" /\ run'.salt = run.salt
      /\ run'.impls = run.impls /\ run'.gateway = run.gateway /\ run'.clean = run.clean
      /\ run'.preGER = Create(nonce + 4) /\ run'.preManager = Create(nonce + 9)
  BY <1>1, <1>3 DEF DepIInv, TypesOK, Runs, Phases
<1>5. ChainOK'
  BY <1>1, SameChain DEF DepIInv
<1>6. RunOK' /\ ImplsOK' /\ CleanOK'
  BY <1>1, <1>4 DEF DepIInv, RunOK, ImplsOK, CleanOK
<1>7. CountsOK'
  BY <1>1, <1>4 DEF CountsOK, GERLeft, ManagerLeft
<1>8. CleanRunPasses'
  BY <1>1 DEF DepIInv, CleanRunPasses
<1> QED BY <1>1, <1>2, <1>4, <1>5, <1>6, <1>7, <1>8 DEF DepIInv, TypesOK

LEMMA TimelockStep ==
    ASSUME DepIInv, Timelock
    PROVE  DepIInv'
<1> USE DEF FromCheck, FromSaved, FromManager, FromVerifier, FromSaveGER, FromImport,
            FromBridge, FromOwnership, FromImpl, Deploying
<1> DEFINE contract == [kind |-> "timelock", manager |-> run.preManager]
<1>1. /\ run.pc = "timelock" /\ run.salt \in Salts /\ UNCHANGED <<files, outcome>>
      /\ Deploy(contract) /\ nonce \in Nat
      /\ run' = [run EXCEPT !.pc = "ownership", !.timelock = Create(nonce)]
  BY DEF Timelock, At, DepIInv, RunOK, TypesOK
<1>2. contract \in Contracts /\ contract.kind \notin Proxies
  BY DEF Contracts, DepIInv, TypesOK, Runs, Proxies
<1>3. /\ Kept /\ DOMAIN code' = DOMAIN code \cup {Create(nonce)}
      /\ code'[Create(nonce)] = contract /\ nonce' = nonce + 1
      /\ code' \in [DOMAIN code' -> Contracts] /\ ChainOK'
  <2> HIDE DEF contract
  <2>1. Governed(contract)
    BY <1>2 DEF Governed
  <2> QED BY <1>1, <1>2, <2>1, CreationKeepsChain DEF DepIInv
<1>4. Create(nonce) \in Created
  BY <1>1 DEF Created
<1>5. /\ run' \in Runs /\ run'.pc = "ownership" /\ run'.salt = run.salt
      /\ run'.timelock = Create(nonce)
      /\ run'.impls = run.impls /\ run'.gateway = run.gateway /\ run'.clean = run.clean
      /\ run'.disturbed = run.disturbed
      /\ run'.preGER = run.preGER /\ run'.preManager = run.preManager
  BY <1>1, <1>4 DEF DepIInv, TypesOK, Runs, Phases
<1>6. RunOK' /\ ImplsOK'
  BY <1>1, <1>3, <1>5, AddressesDiffer DEF DepIInv, RunOK, ImplsOK, Kept, Holds
<1>7. CleanOK'
  BY <1>1, <1>3, <1>5, AddressesDiffer DEF DepIInv, CleanOK
<1>8. CountsOK'
  BY <1>1, <1>3, <1>5 DEF DepIInv, CountsOK, GERLeft, ManagerLeft
<1>9. CleanRunPasses'
  BY <1>1 DEF DepIInv, CleanRunPasses
<1> QED BY <1>1, <1>3, <1>5, <1>6, <1>7, <1>8, <1>9 DEF DepIInv, TypesOK

LEMMA TransferOwnershipStep ==
    ASSUME DepIInv, TransferOwnership
    PROVE  DepIInv'
<1> USE DEF FromCheck, FromSaved, FromManager, FromVerifier, FromSaveGER, FromImport,
            FromBridge, FromOwnership, FromImpl, Deploying
<1> DEFINE admin == ProxyAdminAt(run.salt)
           contract == [code[admin] EXCEPT !.owner = run.timelock]
<1>1. /\ run.pc = "ownership" /\ run.salt \in Salts /\ admin \in DOMAIN code
      /\ Holds(run.timelock, [kind |-> "timelock", manager |-> run.preManager])
      /\ run.timelock \in Created /\ run.timelock # NoAddress
      /\ UNCHANGED <<files, outcome>> /\ nonce' = nonce + 1 /\ nonce \in Nat
      /\ code' = [code EXCEPT ![admin] = contract]
      /\ run' = [run EXCEPT !.pc = "bridge"]
  BY DEF TransferOwnership, At, Goto, DepIInv, RunOK, TypesOK, Runs
<1>2. run.timelock # Key /\ run.timelock # admin
  BY <1>1, AddressesDiffer DEF Created
<1>3. /\ contract \in [kind : {"proxyAdmin"}, owner : Created \cup {Key}, returned : BOOLEAN]
      /\ contract.owner = run.timelock
  <2>1. code[admin] \in [kind : {"proxyAdmin"}, owner : Created \cup {Key}, returned : BOOLEAN]
    BY <1>1, ProxyAdminType DEF DepIInv
  <2> QED BY <1>1, <2>1
<1>4. /\ DOMAIN code' = DOMAIN code /\ code'[admin] = contract
      /\ \A b \in DOMAIN code : b # admin => code'[b] = code[b]
      /\ code' \in [DOMAIN code' -> Contracts] /\ ChainOK'
  <2> HIDE DEF contract
  <2> QED BY <1>1, <1>2, <1>3, OwnerChangeKeepsChain DEF DepIInv
<1>5. /\ run' \in Runs /\ run'.pc = "bridge" /\ run'.salt = run.salt
      /\ run'.timelock = run.timelock
      /\ run'.impls = run.impls /\ run'.gateway = run.gateway /\ run'.clean = run.clean
      /\ run'.disturbed = run.disturbed
      /\ run'.preGER = run.preGER /\ run'.preManager = run.preManager
  BY <1>1 DEF DepIInv, TypesOK, Runs, Phases
<1>6. RunOK'
  BY <1>1, <1>2, <1>3, <1>4, <1>5 DEF RunOK, Holds
<1>7. ImplsOK' /\ CleanOK'
  BY <1>1, <1>4, <1>5 DEF DepIInv, ImplsOK, CleanOK
<1>8. CountsOK'
  BY <1>1, <1>5 DEF DepIInv, CountsOK, GERLeft, ManagerLeft
<1>9. CleanRunPasses'
  BY <1>1 DEF DepIInv, CleanRunPasses
<1> QED BY <1>1, <1>4, <1>5, <1>6, <1>7, <1>8, <1>9 DEF DepIInv, TypesOK

LEMMA BridgeProxyStep ==
    ASSUME DepIInv, BridgeProxy
    PROVE  DepIInv'
<1> USE DEF FromCheck, FromSaved, FromManager, FromVerifier, FromSaveGER, FromImport,
            FromBridge, FromOwnership, FromImpl, Deploying
<1> DEFINE bridge   == BridgeProxyAt(run.salt)
           contract == [kind |-> "bridge", admin |-> ProxyAdminAt(run.salt),
                        impl |-> BridgeImplAt(run.salt), ger |-> run.preGER,
                        manager |-> run.preManager]
<1>1. /\ run.pc = "bridge" /\ run.salt \in Salts /\ UNCHANGED files /\ nonce \in Nat
      /\ ProxyAdminAt(run.salt) \in DOMAIN code
      /\ code[ProxyAdminAt(run.salt)].owner = run.timelock
      /\ Holds(run.timelock, [kind |-> "timelock", manager |-> run.preManager])
      /\ run.timelock \in Created /\ run.timelock # NoAddress
      /\ Create2Deployment(bridge, contract)
  BY DEF BridgeProxy, At, DepIInv, RunOK, TypesOK, Runs
<1>2. NotTheKey(ProxyAdminAt(run.salt))
  BY <1>1, AddressesDiffer DEF NotTheKey, Created
<1>3. /\ contract \in Contracts /\ contract.kind = "bridge"
      /\ contract.admin = ProxyAdminAt(run.salt)
  BY <1>1 DEF Contracts, DepIInv, TypesOK, Runs, Placed
<1>4. /\ Kept /\ DOMAIN code' = DOMAIN code \cup {bridge}
      /\ bridge \notin DOMAIN code => code'[bridge] = contract /\ nonce' = nonce + 1
      /\ nonce' \in Nat /\ code' \in [DOMAIN code' -> Contracts] /\ ChainOK'
  <2> HIDE DEF contract
  <2> QED BY <1>1, <1>2, <1>3, PlacementKeepsChain DEF DepIInv
<1>5. CASE code'[bridge].ger = run.preGER /\ code'[bridge].manager = run.preManager
  <2>1. Goto("import") /\ UNCHANGED outcome
    BY <1>5 DEF BridgeProxy
  <2>2. /\ run' \in Runs /\ run'.pc = "import" /\ run'.salt = run.salt
        /\ run'.timelock = run.timelock
        /\ run'.impls = run.impls /\ run'.gateway = run.gateway /\ run'.clean = run.clean
        /\ run'.disturbed = run.disturbed
        /\ run'.preGER = run.preGER /\ run'.preManager = run.preManager
    BY <2>1 DEF Goto, DepIInv, TypesOK, Runs, Phases
  <2>3. RunOK'
    BY <1>1, <1>4, <1>5, <2>2 DEF RunOK, Holds, Kept
  <2>4. ImplsOK' /\ CleanOK'
    BY <1>1, <2>2 DEF DepIInv, ImplsOK, CleanOK
  <2>5. CountsOK'
    BY <1>1, <1>4, <2>2 DEF DepIInv, CleanOK, CountsOK, GERLeft, ManagerLeft
  <2>6. CleanRunPasses'
    BY <2>1 DEF DepIInv, CleanRunPasses
  <2> QED BY <1>1, <1>4, <2>1, <2>2, <2>3, <2>4, <2>5, <2>6 DEF DepIInv, TypesOK
<1>6. CASE ~(code'[bridge].ger = run.preGER /\ code'[bridge].manager = run.preManager)
  <2>1. Stop("mismatch")
    BY <1>6 DEF BridgeProxy
  <2>2. bridge \in DOMAIN code
    BY <1>4, <1>6
  <2>3. ~run.clean
    BY <1>1, <2>2 DEF DepIInv, CleanOK
  <2> QED BY <1>1, <1>4, <2>1, <2>3, MismatchKeeps DEF DepIInv, TypesOK
<1> QED BY <1>5, <1>6

LEMMA ForceImportStep ==
    ASSUME DepIInv, ForceImport
    PROVE  DepIInv'
<1> USE DEF FromCheck, FromSaved, FromManager, FromVerifier, FromSaveGER, FromImport,
            FromBridge, FromOwnership, FromImpl, Deploying
<1>1. /\ run.pc = "import" /\ UNCHANGED <<nonce, code, outcome>> /\ nonce \in Nat
      /\ files' = [files EXCEPT !.manifest = TRUE] /\ run' = [run EXCEPT !.pc = "ger"]
  BY DEF ForceImport, At, Goto, DepIInv, TypesOK
<1>2. files' \in Files
  BY <1>1 DEF DepIInv, TypesOK, Files
<1>3. /\ run' \in Runs /\ run'.pc = "ger" /\ run'.salt = run.salt
      /\ run'.timelock = run.timelock
      /\ run'.impls = run.impls /\ run'.gateway = run.gateway /\ run'.clean = run.clean
      /\ run'.disturbed = run.disturbed
      /\ run'.preGER = run.preGER /\ run'.preManager = run.preManager
  BY <1>1 DEF DepIInv, TypesOK, Runs, Phases
<1>4. ChainOK'
  BY <1>1, SameChain DEF DepIInv
<1>5. RunOK' /\ ImplsOK' /\ CleanOK'
  BY <1>1, <1>3 DEF DepIInv, RunOK, Holds, ImplsOK, CleanOK
<1>6. CountsOK'
  BY <1>1, <1>3 DEF DepIInv, ImplsOK, CountsOK, GERLeft, ManagerLeft
<1>7. CleanRunPasses'
  BY <1>1 DEF DepIInv, CleanRunPasses
<1> QED BY <1>1, <1>2, <1>3, <1>4, <1>5, <1>6, <1>7 DEF DepIInv, TypesOK

-----------------------------------------------------------------------------
(* The proxies, deployed in attempts. *)

\* A run that stays where it is knows what it knew.
LEMMA RunKept ==
    ASSUME DepIInv, Kept, run.pc # "idle",
           /\ run'.pc = run.pc /\ run'.salt = run.salt /\ run'.timelock = run.timelock
           /\ run'.preGER = run.preGER /\ run'.preManager = run.preManager
           /\ run'.ger = run.ger /\ run'.gateway = run.gateway /\ run'.manager = run.manager
    PROVE  RunOK'
<1> USE DEF FromCheck, FromSaved, FromManager, FromVerifier, FromSaveGER, FromImport,
            FromBridge, FromOwnership, FromImpl, Deploying
<1> QED BY DEF DepIInv, RunOK, FinalTimelockAddress, Holds, Kept, AdminIs

\* A proxy is built under the run's proxy admin, which is the timelock's.
LEMMA BuiltIsGoverned ==
    ASSUME DepIInv, NEW what \in Proxied, run.pc = what
    PROVE  Built(what) \in Contracts /\ Governed(Built(what)) /\ Built(what).kind \in Proxies
<1> USE DEF FromCheck, FromSaved, FromManager, FromVerifier, FromSaveGER, FromImport,
            FromBridge, FromOwnership, FromImpl, Deploying
<1>1. what \in {"ger", "gateway", "manager"}
  BY DEF Proxied
<1>2. /\ run.salt \in Salts /\ ProxyAdminAt(run.salt) \in DOMAIN code
      /\ code[ProxyAdminAt(run.salt)].owner = run.timelock
      /\ run.timelock \in Created /\ run.timelock # NoAddress
  BY <1>1 DEF DepIInv, RunOK, TypesOK, Runs
<1>3. NotTheKey(ProxyAdminAt(run.salt))
  BY <1>2, AddressesDiffer DEF NotTheKey, Created
<1>4. ProxyAdminAt(run.salt) \in Placed /\ BridgeProxyAt(run.salt) \in Placed
  BY <1>2 DEF Placed
<1>5. /\ Built(what).admin = ProxyAdminAt(run.salt) /\ Built(what).kind \in Proxies
      /\ Built(what) \in Contracts
  BY <1>1, <1>4 DEF Built, FinalTimelockAddress, Contracts, DepIInv, TypesOK, Runs, Proxies
<1> QED BY <1>2, <1>3, <1>5 DEF Governed

LEMMA ImplementationIsGoverned ==
    ASSUME NEW kind \in {"implementation", "verifier"}
    PROVE  [kind |-> kind] \in Contracts /\ Governed([kind |-> kind])
  BY DEF Contracts, Governed, Proxies

LEMMA DeployImplementationStep ==
    ASSUME DepIInv, NEW what \in Proxied, DeployImplementation(what)
    PROVE  DepIInv'
<1> USE DEF FromCheck, FromSaved, FromManager, FromVerifier, FromSaveGER, FromImport,
            FromBridge, FromOwnership, FromImpl, Deploying
<1>1. /\ what \in {"ger", "gateway", "manager"} /\ run.pc = what /\ what \notin run.impls
      /\ Deploy([kind |-> "implementation"]) /\ nonce \in Nat
      /\ UNCHANGED <<files, outcome>>
      /\ run' = [run EXCEPT !.impls = @ \cup {what}]
  BY DEF DeployImplementation, At, Proxied, DepIInv, TypesOK
<1>2. /\ Kept /\ DOMAIN code' = DOMAIN code \cup {Create(nonce)} /\ nonce' = nonce + 1
      /\ code' \in [DOMAIN code' -> Contracts] /\ ChainOK'
  BY <1>1, ImplementationIsGoverned, CreationKeepsChain DEF DepIInv
<1>3. /\ run' \in Runs /\ run'.pc = run.pc /\ run'.salt = run.salt
      /\ run'.timelock = run.timelock /\ run'.clean = run.clean
      /\ run'.impls = run.impls \cup {what} /\ run'.disturbed = run.disturbed
      /\ run'.preGER = run.preGER /\ run'.preManager = run.preManager
      /\ run'.ger = run.ger /\ run'.gateway = run.gateway /\ run'.manager = run.manager
  BY <1>1 DEF DepIInv, TypesOK, Runs
<1>4. RunOK'
  BY <1>1, <1>2, <1>3, RunKept
<1>5. ImplsOK'
  BY <1>1, <1>3 DEF DepIInv, ImplsOK
<1>6. CleanOK'
  BY <1>1, <1>2, <1>3, AddressesDiffer DEF DepIInv, CleanOK, AdminIs, Kept
<1>7. CountsOK'
  BY <1>1, <1>2, <1>3 DEF DepIInv, CountsOK, GERLeft, ManagerLeft
<1>8. CleanRunPasses'
  BY <1>1 DEF DepIInv, CleanRunPasses
<1> QED BY <1>1, <1>2, <1>3, <1>4, <1>5, <1>6, <1>7, <1>8 DEF DepIInv, TypesOK

LEMMA DeployProxyStep ==
    ASSUME DepIInv, NEW what \in Proxied, DeployProxy(what)
    PROVE  DepIInv'
<1> USE DEF FromCheck, FromSaved, FromManager, FromVerifier, FromSaveGER, FromImport,
            FromBridge, FromOwnership, FromImpl, Deploying
<1>1. /\ what \in {"ger", "gateway", "manager"} /\ run.pc = what /\ what \in run.impls
      /\ Deploy(Built(what)) /\ nonce \in Nat /\ run.salt \in Salts
      /\ UNCHANGED <<files, outcome>>
      /\ run' = [run EXCEPT !.pc = Saving[what], ![what] = Create(nonce), !.tries = 0]
  BY DEF DeployProxy, At, Proxied, DepIInv, TypesOK, RunOK
<1>2. /\ Kept /\ DOMAIN code' = DOMAIN code \cup {Create(nonce)} /\ nonce' = nonce + 1
      /\ code'[Create(nonce)] = Built(what)
      /\ code' \in [DOMAIN code' -> Contracts] /\ ChainOK'
  BY <1>1, BuiltIsGoverned, CreationKeepsChain DEF DepIInv
<1>3. Create(nonce) \in Created
  BY <1>1 DEF Created
<1>4. /\ run' \in Runs /\ run'.pc = Saving[what] /\ run'.salt = run.salt
      /\ run'.timelock = run.timelock /\ run'.clean = run.clean
      /\ run'.impls = run.impls /\ run'.disturbed = run.disturbed
      /\ run'.preGER = run.preGER /\ run'.preManager = run.preManager
      /\ run'.ger = (IF what = "ger" THEN Create(nonce) ELSE run.ger)
      /\ run'.gateway = (IF what = "gateway" THEN Create(nonce) ELSE run.gateway)
      /\ run'.manager = (IF what = "manager" THEN Create(nonce) ELSE run.manager)
  <2>1. CASE what = "ger"
    <3>1. Saving[what] = "saveGER"
      BY <2>1 DEF Saving
    <3>2. run' = [run EXCEPT !.pc = "saveGER", !["ger"] = Create(nonce), !.tries = 0]
      BY <1>1, <2>1, <3>1
    <3> QED BY <1>3, <2>1, <3>1, <3>2 DEF DepIInv, TypesOK, Runs, Phases
  <2>2. CASE what = "gateway"
    <3>1. Saving[what] = "saveGateway"
      BY <2>2 DEF Saving
    <3>2. run' = [run EXCEPT !.pc = "saveGateway", !["gateway"] = Create(nonce), !.tries = 0]
      BY <1>1, <2>2, <3>1
    <3> QED BY <1>3, <2>2, <3>1, <3>2 DEF DepIInv, TypesOK, Runs, Phases
  <2>3. CASE what = "manager"
    <3>1. Saving[what] = "saveManager"
      BY <2>3 DEF Saving
    <3>2. run' = [run EXCEPT !.pc = "saveManager", !["manager"] = Create(nonce), !.tries = 0]
      BY <1>1, <2>3, <3>1
    <3> QED BY <1>3, <2>3, <3>1, <3>2 DEF DepIInv, TypesOK, Runs, Phases
  <2> QED BY <1>1, <2>1, <2>2, <2>3
<1>5. CleanRunPasses'
  BY <1>1 DEF DepIInv, CleanRunPasses
<1>6. CASE what = "ger"
  <2>1. run'.pc = "saveGER"
    BY <1>4, <1>6 DEF Saving
  <2>2. RunOK'
    BY <1>1, <1>2, <1>4, <1>6, <2>1 DEF DepIInv, RunOK, Holds, Kept, Built
  <2>3. ImplsOK' /\ CleanOK'
    BY <1>1, <1>4, <1>6, <2>1 DEF DepIInv, ImplsOK, CleanOK
  <2>4. CountsOK'
    BY <1>1, <1>2, <1>4, <1>6, <2>1 DEF DepIInv, CountsOK, GERLeft, ManagerLeft
  <2> QED BY <1>1, <1>2, <1>4, <1>5, <2>2, <2>3, <2>4 DEF DepIInv, TypesOK
<1>7. CASE what = "gateway"
  <2>1. run'.pc = "saveGateway"
    BY <1>4, <1>7 DEF Saving
  <2>2. RunOK'
    BY <1>1, <1>2, <1>4, <1>7, <2>1 DEF DepIInv, RunOK, Holds, Kept
  <2>3. ImplsOK'
    BY <1>1, <1>4, <1>7, <2>1 DEF DepIInv, ImplsOK
  <2>4. CleanOK'
    BY <1>1, <1>2, <1>4, <1>7, <2>1 DEF CleanOK, AdminIs, Built
  <2>5. CountsOK'
    BY <1>1, <1>2, <1>4, <1>7, <2>1 DEF DepIInv, CountsOK, GERLeft, ManagerLeft
  <2> QED BY <1>1, <1>2, <1>4, <1>5, <2>2, <2>3, <2>4, <2>5 DEF DepIInv, TypesOK
<1>8. CASE what = "manager"
  <2>1. run'.pc = "saveManager"
    BY <1>4, <1>8 DEF Saving
  <2>2. RunOK'
    BY <1>1, <1>2, <1>4, <1>8, <2>1 DEF DepIInv, RunOK, FinalTimelockAddress, Holds, Kept, Built
  <2>3. ImplsOK'
    BY <1>1, <1>4, <1>8, <2>1 DEF DepIInv, ImplsOK
  <2>4. CleanOK'
    BY <1>1, <1>2, <1>4, <1>8, <2>1 DEF DepIInv, CleanOK, AdminIs, Kept
  <2>5. CountsOK'
    BY <1>1, <1>2, <1>4, <1>8, <2>1 DEF DepIInv, CountsOK, GERLeft, ManagerLeft
  <2> QED BY <1>1, <1>2, <1>4, <1>5, <2>2, <2>3, <2>4, <2>5 DEF DepIInv, TypesOK
<1> QED BY <1>1, <1>6, <1>7, <1>8

LEMMA AttemptFailsStep ==
    ASSUME DepIInv, NEW what \in Proxied, AttemptFails(what)
    PROVE  DepIInv'
<1> USE DEF FromCheck, FromSaved, FromManager, FromVerifier, FromSaveGER, FromImport,
            FromBridge, FromOwnership, FromImpl, Deploying
<1>1. /\ what \in {"ger", "gateway", "manager"} /\ run.pc = what /\ nonce \in Nat
      /\ UNCHANGED files
  BY DEF AttemptFails, At, Proxied, DepIInv, TypesOK
<1>2. PICK lost \in BOOLEAN :
        /\ IF lost
           THEN Deploy(IF what \in run.impls THEN Built(what) ELSE [kind |-> "implementation"])
           ELSE UNCHANGED <<nonce, code>>
        /\ \/ Stop("exhausted")
           \/ /\ run' = [run EXCEPT !.tries = @ + 1, !.disturbed = @ \/ lost]
              /\ UNCHANGED outcome
  BY DEF AttemptFails
<1>3. /\ Kept /\ nonce' \in Nat /\ code' \in [DOMAIN code' -> Contracts] /\ ChainOK'
      /\ DOMAIN code' \subseteq DOMAIN code \cup {Create(nonce)}
      /\ lost \/ UNCHANGED <<nonce, code>>
  <2>1. CASE lost
    <3>1. PICK c \in Contracts : Governed(c) /\ Deploy(c)
      <4>1. Built(what) \in Contracts /\ Governed(Built(what))
        BY <1>1, BuiltIsGoverned
      <4>2. [kind |-> "implementation"] \in Contracts /\ Governed([kind |-> "implementation"])
        BY ImplementationIsGoverned
      <4>3. CASE what \in run.impls
        BY <1>2, <2>1, <4>1, <4>3
      <4>4. CASE what \notin run.impls
        BY <1>2, <2>1, <4>2, <4>4
      <4> QED BY <4>3, <4>4
    <3>2. /\ Kept /\ DOMAIN code' = DOMAIN code \cup {Create(nonce)} /\ nonce' = nonce + 1
          /\ code' \in [DOMAIN code' -> Contracts] /\ ChainOK'
      BY <3>1, CreationKeepsChain DEF DepIInv
    <3> QED BY <1>1, <2>1, <3>2
  <2>2. CASE ~lost
    <3>1. UNCHANGED <<nonce, code>>
      BY <1>2, <2>2
    <3> QED BY <1>1, <3>1, SameChain DEF DepIInv, TypesOK
  <2> QED BY <2>1, <2>2
<1>4. CASE Stop("exhausted")
  BY <1>1, <1>3, <1>4, StopKeeps DEF DepIInv, TypesOK
<1>5. CASE /\ run' = [run EXCEPT !.tries = @ + 1, !.disturbed = @ \/ lost]
           /\ UNCHANGED outcome
  <2>1. (run.disturbed \/ lost) \in BOOLEAN /\ run.tries + 1 \in Nat
    BY DEF DepIInv, TypesOK, Runs
  <2>2. /\ run' \in Runs /\ run'.pc = run.pc /\ run'.salt = run.salt
        /\ run'.timelock = run.timelock /\ run'.clean = run.clean
        /\ run'.impls = run.impls /\ run'.disturbed = (run.disturbed \/ lost)
        /\ run'.preGER = run.preGER /\ run'.preManager = run.preManager
        /\ run'.ger = run.ger /\ run'.gateway = run.gateway /\ run'.manager = run.manager
    BY <1>5, <2>1 DEF DepIInv, TypesOK, Runs
  <2>3. RunOK'
    BY <1>1, <1>3, <2>2, RunKept
  <2>4. ImplsOK'
    BY <2>2 DEF DepIInv, ImplsOK
  <2>5. CleanOK'
    BY <1>1, <1>3, <2>2 DEF DepIInv, CleanOK, AdminIs, Kept
  <2>6. CountsOK'
    BY <1>1, <1>3, <2>2 DEF DepIInv, CountsOK, GERLeft, ManagerLeft
  <2>7. CleanRunPasses'
    BY <1>5 DEF DepIInv, CleanRunPasses
  <2> QED BY <1>1, <1>3, <1>5, <2>2, <2>3, <2>4, <2>5, <2>6, <2>7 DEF DepIInv, TypesOK
<1> QED BY <1>2, <1>4, <1>5

-----------------------------------------------------------------------------
(* The rest of the script. *)

\* An action that only moves on, and may write a file.
LEMMA GotoKeeps ==
    ASSUME DepIInv, UNCHANGED <<nonce, code, outcome>>, NEW pc \in Phases, Goto(pc)
    PROVE  /\ ChainOK' /\ CleanRunPasses' /\ nonce' \in Nat /\ outcome' \in Outcomes
           /\ code' \in [DOMAIN code' -> Contracts]
           /\ run' \in Runs /\ run'.pc = pc /\ run'.salt = run.salt
           /\ run'.timelock = run.timelock /\ run'.clean = run.clean
           /\ run'.impls = run.impls /\ run'.disturbed = run.disturbed
           /\ run'.preGER = run.preGER /\ run'.preManager = run.preManager
           /\ run'.ger = run.ger /\ run'.gateway = run.gateway /\ run'.manager = run.manager
<1>1. ChainOK'
  BY SameChain DEF DepIInv, TypesOK
<1>2. CleanRunPasses'
  BY DEF DepIInv, CleanRunPasses
<1>3. run' = [run EXCEPT !.pc = pc]
  BY DEF Goto
<1> QED BY <1>1, <1>2, <1>3 DEF DepIInv, TypesOK, Runs

LEMMA SaveGERStep ==
    ASSUME DepIInv, SaveGER
    PROVE  DepIInv'
<1> USE DEF FromCheck, FromSaved, FromManager, FromVerifier, FromSaveGER, FromImport,
            FromBridge, FromOwnership, FromImpl, Deploying
<1>1. /\ run.pc = "saveGER" /\ UNCHANGED <<nonce, code>>
      /\ run.ger \in Created /\ ChainOK'
  BY SameChain DEF SaveGER, At, DepIInv, TypesOK, Runs
<1>2. CASE run.ger = run.preGER
  <2>1. /\ Goto("verifier") /\ UNCHANGED outcome
        /\ files' = [files EXCEPT !.ongoing.ger = run.ger]
    BY <1>2 DEF SaveGER
  <2>2. files' \in Files
    BY <1>1, <2>1 DEF DepIInv, TypesOK, Files
  <2>3. "verifier" \in Phases
    BY DEF Phases
  <2>4. /\ CleanRunPasses' /\ nonce' \in Nat /\ outcome' \in Outcomes
        /\ code' \in [DOMAIN code' -> Contracts]
        /\ run' \in Runs /\ run'.pc = "verifier" /\ run'.salt = run.salt
        /\ run'.timelock = run.timelock /\ run'.clean = run.clean
        /\ run'.impls = run.impls /\ run'.disturbed = run.disturbed
        /\ run'.preGER = run.preGER /\ run'.preManager = run.preManager
        /\ run'.ger = run.ger /\ run'.gateway = run.gateway /\ run'.manager = run.manager
    BY <1>1, <2>1, <2>3, GotoKeeps
  <2>5. RunOK' /\ ImplsOK' /\ CleanOK'
    BY <1>1, <1>2, <2>4 DEF DepIInv, RunOK, Holds, ImplsOK, CleanOK
  <2>6. CountsOK'
    BY <1>1, <2>4 DEF DepIInv, CountsOK, ManagerLeft
  <2> QED BY <1>1, <2>2, <2>4, <2>5, <2>6 DEF DepIInv, TypesOK
<1>3. CASE run.ger # run.preGER
  <2>1. Stop("mismatch") /\ UNCHANGED files
    BY <1>3 DEF SaveGER
  <2>2. run.clean => run.disturbed
    BY <1>1, <1>3 DEF DepIInv, CountsOK
  <2> QED BY <1>1, <2>1, <2>2, MismatchKeeps DEF DepIInv, TypesOK
<1> QED BY <1>2, <1>3

LEMMA VerifierStep ==
    ASSUME DepIInv, Verifier
    PROVE  DepIInv'
<1> USE DEF FromCheck, FromSaved, FromManager, FromVerifier, FromSaveGER, FromImport,
            FromBridge, FromOwnership, FromImpl, Deploying
<1>1. /\ run.pc = "verifier" /\ UNCHANGED <<files, outcome>>
      /\ Deploy([kind |-> "verifier"]) /\ nonce \in Nat
      /\ run' = [run EXCEPT !.pc = "gateway", !.verifier = Create(nonce)]
  BY DEF Verifier, At, DepIInv, TypesOK
<1>2. /\ Kept /\ DOMAIN code' = DOMAIN code \cup {Create(nonce)} /\ nonce' = nonce + 1
      /\ code' \in [DOMAIN code' -> Contracts] /\ ChainOK'
  BY <1>1, ImplementationIsGoverned, CreationKeepsChain DEF DepIInv
<1>3. Create(nonce) \in Created
  BY <1>1 DEF Created
<1>4. /\ run' \in Runs /\ run'.pc = "gateway" /\ run'.salt = run.salt
      /\ run'.timelock = run.timelock /\ run'.clean = run.clean
      /\ run'.impls = run.impls /\ run'.disturbed = run.disturbed
      /\ run'.preGER = run.preGER /\ run'.preManager = run.preManager
      /\ run'.ger = run.ger /\ run'.gateway = run.gateway /\ run'.manager = run.manager
  BY <1>1, <1>3 DEF DepIInv, TypesOK, Runs, Phases
<1>5. RunOK'
  BY <1>1, <1>2, <1>4 DEF DepIInv, RunOK, Holds, Kept
<1>6. ImplsOK' /\ CleanOK'
  BY <1>1, <1>4 DEF DepIInv, ImplsOK, CleanOK
<1>7. CountsOK'
  BY <1>1, <1>2, <1>4 DEF DepIInv, ImplsOK, CountsOK, ManagerLeft
<1>8. CleanRunPasses'
  BY <1>1 DEF DepIInv, CleanRunPasses
<1> QED BY <1>1, <1>2, <1>4, <1>5, <1>6, <1>7, <1>8 DEF DepIInv, TypesOK

\* A gateway of an earlier run is taken by a run that is not clean.
LEMMA GatewayStep ==
    ASSUME DepIInv, ReuseGateway \/ SaveGateway
    PROVE  DepIInv'
<1> USE DEF FromCheck, FromSaved, FromManager, FromVerifier, FromSaveGER, FromImport,
            FromBridge, FromOwnership, FromImpl, Deploying
<1>1. /\ run.pc \in {"gateway", "saveGateway"} /\ UNCHANGED <<nonce, code, outcome>>
      /\ Goto("manager") /\ run.gateway \in Created
      /\ run.pc = "gateway" => run.gateway # NoAddress
  BY DEF ReuseGateway, SaveGateway, Reused, At, DepIInv, TypesOK, Runs
<1>2. files' \in Files
  <2>1. CASE ReuseGateway
    BY <2>1 DEF ReuseGateway, DepIInv, TypesOK
  <2>2. CASE SaveGateway
    BY <1>1, <2>2 DEF SaveGateway, DepIInv, TypesOK, Files
  <2> QED BY <2>1, <2>2
<1>3. "manager" \in Phases
  BY DEF Phases
<1>4. /\ ChainOK' /\ CleanRunPasses' /\ nonce' \in Nat /\ outcome' \in Outcomes
      /\ code' \in [DOMAIN code' -> Contracts]
      /\ run' \in Runs /\ run'.pc = "manager" /\ run'.salt = run.salt
      /\ run'.timelock = run.timelock /\ run'.clean = run.clean
      /\ run'.impls = run.impls /\ run'.disturbed = run.disturbed
      /\ run'.preGER = run.preGER /\ run'.preManager = run.preManager
      /\ run'.ger = run.ger /\ run'.gateway = run.gateway /\ run'.manager = run.manager
  BY <1>1, <1>3, GotoKeeps
<1>5. RunOK' /\ ImplsOK'
  BY <1>1, <1>4 DEF DepIInv, RunOK, Holds, ImplsOK
<1>6. CleanOK'
  BY <1>1, <1>4 DEF DepIInv, CleanOK, AdminIs
<1>7. CountsOK'
  BY <1>1, <1>4 DEF DepIInv, ImplsOK, CleanOK, CountsOK, ManagerLeft
<1> QED BY <1>2, <1>4, <1>5, <1>6, <1>7 DEF DepIInv, TypesOK

LEMMA SaveManagerStep ==
    ASSUME DepIInv, SaveManager
    PROVE  DepIInv'
<1> USE DEF FromCheck, FromSaved, FromManager, FromVerifier, FromSaveGER, FromImport,
            FromBridge, FromOwnership, FromImpl, Deploying
<1>1. /\ run.pc = "saveManager" /\ UNCHANGED <<nonce, code>>
      /\ run.manager \in Created /\ ChainOK'
  BY SameChain DEF SaveManager, At, DepIInv, TypesOK, Runs
<1>2. CASE run.manager = run.preManager
  <2>1. /\ Goto("check") /\ UNCHANGED outcome
        /\ files' = [files EXCEPT !.ongoing.manager = run.manager]
    BY <1>2 DEF SaveManager
  <2>2. files' \in Files
    BY <1>1, <2>1 DEF DepIInv, TypesOK, Files
  <2>3. "check" \in Phases
    BY DEF Phases
  <2>4. /\ CleanRunPasses' /\ nonce' \in Nat /\ outcome' \in Outcomes
        /\ code' \in [DOMAIN code' -> Contracts]
        /\ run' \in Runs /\ run'.pc = "check" /\ run'.salt = run.salt
        /\ run'.timelock = run.timelock /\ run'.clean = run.clean
        /\ run'.impls = run.impls /\ run'.disturbed = run.disturbed
        /\ run'.preGER = run.preGER /\ run'.preManager = run.preManager
        /\ run'.ger = run.ger /\ run'.gateway = run.gateway /\ run'.manager = run.manager
    BY <1>1, <2>1, <2>3, GotoKeeps
  <2>5. RunOK' /\ ImplsOK' /\ CleanOK' /\ CountsOK'
    BY <1>1, <1>2, <2>4 DEF DepIInv, RunOK, FinalTimelockAddress, Holds, ImplsOK,
       CleanOK, AdminIs, CountsOK
  <2> QED BY <1>1, <2>2, <2>4, <2>5 DEF DepIInv, TypesOK
<1>3. CASE run.manager # run.preManager
  <2>1. Stop("mismatch") /\ UNCHANGED files
    BY <1>3 DEF SaveManager
  <2>2. run.clean => run.disturbed
    BY <1>1, <1>3 DEF DepIInv, CountsOK
  <2> QED BY <1>1, <2>1, <2>2, MismatchKeeps DEF DepIInv, TypesOK
<1> QED BY <1>2, <1>3

\* Only the gateway is not known to pass, and a clean run has made its own.
LEMMA CheckStep ==
    ASSUME DepIInv, Check
    PROVE  DepIInv'
<1> USE DEF FromCheck, FromSaved, FromManager, FromVerifier, FromSaveGER, FromImport,
            FromBridge, FromOwnership, FromImpl, Deploying
<1>1. /\ run.pc = "check" /\ UNCHANGED <<nonce, code, files>> /\ ChainOK' /\ run.salt \in Salts
  BY SameChain DEF Check, At, DepIInv, TypesOK, RunOK
<1>2. CASE FinalChecks
  <2>1. Goto("output") /\ UNCHANGED outcome
    BY <1>2 DEF Check
  <2>2. "output" \in Phases
    BY DEF Phases
  <2>3. /\ CleanRunPasses' /\ nonce' \in Nat /\ outcome' \in Outcomes
        /\ code' \in [DOMAIN code' -> Contracts]
        /\ run' \in Runs /\ run'.pc = "output" /\ run'.salt = run.salt
        /\ run'.timelock = run.timelock /\ run'.clean = run.clean
        /\ run'.impls = run.impls /\ run'.disturbed = run.disturbed
        /\ run'.preGER = run.preGER /\ run'.preManager = run.preManager
        /\ run'.ger = run.ger /\ run'.gateway = run.gateway /\ run'.manager = run.manager
    BY <1>1, <2>1, <2>2, GotoKeeps
  <2>4. AdminIs(run.gateway, ProxyAdminAt(run.salt))
    BY <1>2 DEF FinalChecks
  <2>5. RunOK'
    BY <1>1, <2>3, <2>4 DEF DepIInv, RunOK, FinalTimelockAddress, Holds, AdminIs
  <2>6. ImplsOK' /\ CleanOK' /\ CountsOK'
    BY <1>1, <2>3 DEF DepIInv, ImplsOK, CleanOK, AdminIs, CountsOK
  <2> QED BY <1>1, <2>3, <2>5, <2>6 DEF DepIInv, TypesOK
<1>3. CASE ~FinalChecks
  <2>1. Stop("mismatch")
    BY <1>3 DEF Check
  <2>2. /\ code[run.manager].defaultAdmin = FinalTimelockAddress
        /\ \A a \in {run.preManager, run.preGER} : AdminIs(a, ProxyAdminAt(run.salt))
    BY <1>1 DEF DepIInv, RunOK, Holds, AdminIs
  <2>3. AdminIs(BridgeProxyAt(run.salt), ProxyAdminAt(run.salt))
    BY <1>1 DEF DepIInv, RunOK, ChainOK, PlacedOK, AdminIs
  <2>4. ~run.clean
    BY <1>1, <1>3, <2>2, <2>3 DEF FinalChecks, DepIInv, CleanOK
  <2> QED BY <1>1, <2>1, <2>4, MismatchKeeps DEF DepIInv, TypesOK
<1> QED BY <1>2, <1>3

LEMMA OutputStep ==
    ASSUME DepIInv, WriteOutput \/ UnlinkOngoing
    PROVE  DepIInv'
<1> USE DEF FromCheck, FromSaved, FromManager, FromVerifier, FromSaveGER, FromImport,
            FromBridge, FromOwnership, FromImpl, Deploying
<1>1. CASE WriteOutput
  <2>1. /\ run.pc = "output" /\ UNCHANGED <<nonce, code, outcome>> /\ Goto("unlink")
        /\ files' = [files EXCEPT !.output =
             [salt |-> run.salt, admin |-> ProxyAdminAt(run.salt),
              bridge |-> BridgeProxyAt(run.salt), ger |-> run.ger, gateway |-> run.gateway,
              manager |-> run.manager, timelock |-> run.timelock]]
    BY <1>1 DEF WriteOutput, At
  <2>2. run.salt \in Salts
    BY <2>1 DEF DepIInv, RunOK
  <2>3. [salt |-> run.salt, admin |-> ProxyAdminAt(run.salt),
         bridge |-> BridgeProxyAt(run.salt), ger |-> run.ger, gateway |-> run.gateway,
         manager |-> run.manager, timelock |-> run.timelock] \in Outputs
    BY <2>2 DEF Outputs, Placed, DepIInv, TypesOK, Runs
  <2>4. files' \in Files
    BY <2>1, <2>3 DEF DepIInv, TypesOK, Files
  <2>5. "unlink" \in Phases
    BY DEF Phases
  <2>6. /\ ChainOK' /\ CleanRunPasses' /\ nonce' \in Nat /\ outcome' \in Outcomes
        /\ code' \in [DOMAIN code' -> Contracts]
        /\ run' \in Runs /\ run'.pc = "unlink" /\ run'.salt = run.salt
        /\ run'.timelock = run.timelock /\ run'.clean = run.clean
        /\ run'.impls = run.impls /\ run'.disturbed = run.disturbed
        /\ run'.preGER = run.preGER /\ run'.preManager = run.preManager
        /\ run'.ger = run.ger /\ run'.gateway = run.gateway /\ run'.manager = run.manager
    BY <2>1, <2>5, GotoKeeps
  <2>7. RunOK' /\ ImplsOK' /\ CleanOK' /\ CountsOK'
    BY <2>1, <2>6 DEF DepIInv, RunOK, FinalTimelockAddress, Holds, ImplsOK,
       CleanOK, AdminIs, CountsOK
  <2> QED BY <2>4, <2>6, <2>7 DEF DepIInv, TypesOK
<1>2. CASE UnlinkOngoing
  <2>1. /\ Stop("done") /\ UNCHANGED <<nonce, code>>
        /\ files' = [files EXCEPT !.ongoing = NoOngoing]
    BY <1>2 DEF UnlinkOngoing
  <2>2. NoOngoing \in [ger : Created, gateway : Created, manager : Created]
    BY DEF NoOngoing, Created
  <2>3. files' \in Files
    BY <2>1, <2>2 DEF DepIInv, TypesOK, Files
  <2>4. ChainOK'
    BY <2>1, SameChain DEF DepIInv, TypesOK
  <2> QED BY <2>1, <2>3, <2>4, StopKeeps DEF DepIInv, TypesOK
<1> QED BY <1>1, <1>2

-----------------------------------------------------------------------------
(* Around the script. *)

LEMMA CrashStep ==
    ASSUME DepIInv, Crash
    PROVE  DepIInv'
<1>1. Stop("crashed") /\ UNCHANGED <<nonce, code, files>>
  BY DEF Crash
<1>2. ChainOK'
  BY <1>1, SameChain DEF DepIInv, TypesOK
<1> QED BY <1>1, <1>2, StopKeeps DEF DepIInv, TypesOK

LEMMA ForeignTransactionStep ==
    ASSUME DepIInv, ForeignTransaction
    PROVE  DepIInv'
<1> USE DEF FromCheck, FromSaved, FromManager, FromVerifier, FromSaveGER, FromImport,
            FromBridge, FromOwnership, FromImpl, Deploying
<1>1. /\ run.pc # "idle" /\ nonce' = nonce + 1 /\ nonce \in Nat
      /\ UNCHANGED <<code, files, outcome>>
      /\ run' = [run EXCEPT !.disturbed = TRUE]
  BY DEF ForeignTransaction, At, DepIInv, TypesOK
<1>2. ChainOK' /\ Kept
  BY <1>1, SameChain DEF DepIInv
<1>3. /\ run' \in Runs /\ run'.pc = run.pc /\ run'.salt = run.salt
      /\ run'.timelock = run.timelock /\ run'.clean = run.clean
      /\ run'.impls = run.impls /\ run'.disturbed = TRUE
      /\ run'.preGER = run.preGER /\ run'.preManager = run.preManager
      /\ run'.ger = run.ger /\ run'.gateway = run.gateway /\ run'.manager = run.manager
  BY <1>1 DEF DepIInv, TypesOK, Runs
<1>4. RunOK'
  BY <1>1, <1>2, <1>3, RunKept
<1>5. ImplsOK' /\ CleanOK' /\ CountsOK'
  BY <1>1, <1>3 DEF DepIInv, ImplsOK, CleanOK, AdminIs, CountsOK
<1>6. CleanRunPasses'
  BY <1>1 DEF DepIInv, CleanRunPasses
<1> QED BY <1>1, <1>2, <1>3, <1>4, <1>5, <1>6 DEF DepIInv, TypesOK

LEMMA OperatorStep ==
    ASSUME DepIInv, NewSalt \/ EraseManifest \/ CreateGenesis \/ ReturnAdmin
    PROVE  DepIInv'
<1>1. run.pc = "idle" /\ run = Idle /\ UNCHANGED <<nonce, run, outcome>> /\ nonce \in Nat
  BY DEF NewSalt, EraseManifest, CreateGenesis, ReturnAdmin, At, DepIInv, RunOK, TypesOK
<1>2. RunOK' /\ ImplsOK' /\ CleanOK' /\ CountsOK' /\ CleanRunPasses'
  BY <1>1, IdleKnowsNothing DEF DepIInv, CleanRunPasses
<1>3. CASE NewSalt \/ EraseManifest \/ CreateGenesis
  <2>1. UNCHANGED code
    BY <1>3 DEF NewSalt, EraseManifest, CreateGenesis
  <2>2. ChainOK'
    BY <1>1, <2>1, SameChain DEF DepIInv
  <2>3. files' \in Files
    <3>1. CASE NewSalt
      <4>1. files.salt + 1 \in Salts /\ files' = [files EXCEPT !.salt = files.salt + 1]
        BY <3>1, DeploymentAssumption DEF NewSalt, DepIInv, TypesOK, Files, Salts
      <4> QED BY <4>1 DEF DepIInv, TypesOK, Files
    <3>2. CASE EraseManifest
      BY <3>2 DEF EraseManifest, DepIInv, TypesOK, Files
    <3>3. CASE CreateGenesis
      <4>1. PICK isMainnet \in BOOLEAN :
              files' = [files EXCEPT !.genesis = Genesis(files.salt, isMainnet)]
        BY <3>3 DEF CreateGenesis
      <4>2. Genesis(files.salt, isMainnet) \in Geneses
        BY DEF Geneses, DepIInv, TypesOK, Files
      <4> QED BY <4>1, <4>2 DEF DepIInv, TypesOK, Files
    <3> QED BY <1>3, <3>1, <3>2, <3>3
  <2> QED BY <1>1, <1>2, <2>1, <2>2, <2>3 DEF DepIInv, TypesOK
<1>4. CASE ReturnAdmin
  <2> DEFINE admin == ProxyAdminAt(files.salt)
             c     == [code[admin] EXCEPT !.owner = Key, !.returned = TRUE]
  <2>1. /\ files.salt \in Salts /\ admin \in DOMAIN code /\ UNCHANGED files
        /\ code' = [code EXCEPT ![admin] = c]
    BY <1>4 DEF ReturnAdmin, SaltUsed, DepIInv, TypesOK, Files
  <2>2. /\ c \in [kind : {"proxyAdmin"}, owner : Created \cup {Key}, returned : BOOLEAN]
        /\ c.returned
    BY <2>1, ProxyAdminType DEF DepIInv
  <2>3. code' \in [DOMAIN code' -> Contracts] /\ ChainOK'
    <3> HIDE DEF c
    <3> QED BY <1>1, <2>1, <2>2, OwnerChangeKeepsChain DEF DepIInv
  <2> QED BY <1>1, <1>2, <2>1, <2>3 DEF DepIInv, TypesOK
<1> QED BY <1>3, <1>4

LEMMA DepIInvInit == Init => DepIInv
<1> SUFFICES ASSUME Init PROVE DepIInv
  OBVIOUS
<1>1. RunOK /\ ImplsOK /\ CleanOK /\ CountsOK /\ run \in Runs
  <2> USE DEF FromCheck, FromSaved, FromManager, FromVerifier, FromSaveGER, FromImport,
              FromBridge, FromOwnership, FromImpl, Deploying
  <2>1. run = Idle /\ run.pc = "idle" /\ run.impls = {} /\ run.clean = FALSE
    BY DEF Init, Idle
  <2>2. run \in Runs
    BY <2>1, DeploymentAssumption DEF Idle, Runs, Created, Phases
  <2> QED BY <2>1, <2>2 DEF RunOK, ImplsOK, CleanOK, CountsOK
<1>2. code = [a \in {} |-> NoAddress] /\ nonce = 0
  BY DEF Init
<1>3. ChainOK /\ code \in [DOMAIN code -> Contracts]
  BY <1>2 DEF ChainOK, NoncesOK, PlacedOK, ProxiesOK
<1>4. files \in Files
  <2>1. NoOngoing \in [ger : Created, gateway : Created, manager : Created]
    BY DEF NoOngoing, Created
  <2> QED BY <2>1, DeploymentAssumption DEF Init, Files, Salts
<1>5. outcome \in Outcomes /\ CleanRunPasses
  BY DEF Init, Outcomes, CleanRunPasses
<1> QED BY <1>1, <1>2, <1>3, <1>4, <1>5 DEF DepIInv, TypesOK

LEMMA DepIInvStep == DepIInv /\ [Next]_vars => DepIInv'
<1> SUFFICES ASSUME DepIInv, [Next]_vars PROVE DepIInv'
  OBVIOUS
<1>1. CASE ScriptStep
  BY <1>1, DeployerStep, ProxyAdminStep, BridgeImplementationStep, PlanStep, TimelockStep,
     TransferOwnershipStep, BridgeProxyStep, ForceImportStep, SaveGERStep, VerifierStep,
     GatewayStep, SaveManagerStep, CheckStep, OutputStep, DeployImplementationStep,
     DeployProxyStep DEF ScriptStep
<1>2. CASE StartDeployer \/ Start \/ StartFromScratch
  BY <1>2, DeployerStep, StartStep
<1>3. CASE \E what \in Proxied : AttemptFails(what)
  BY <1>3, AttemptFailsStep
<1>4. CASE Crash \/ ForeignTransaction \/ NewSalt \/ EraseManifest \/ CreateGenesis \/ ReturnAdmin
  BY <1>4, CrashStep, ForeignTransactionStep, OperatorStep
<1>5. CASE UNCHANGED vars
  BY <1>5 DEF vars, DepIInv, TypesOK, ChainOK, NoncesOK, PlacedOK, ProxiesOK, NotTheKey, RunOK,
     FinalTimelockAddress, Holds, AdminIs, ImplsOK, CleanOK, CountsOK, GERLeft, ManagerLeft,
     CleanRunPasses
<1> QED BY <1>1, <1>2, <1>3, <1>4, <1>5 DEF Next

(***************************************************************************)
(* What the script knows at each of its steps is so, whatever stops,       *)
(* fails, gets lost or was on the chain before.                            *)
(***************************************************************************)
THEOREM DeploymentInvariant == Spec => []DepIInv
  BY DepIInvInit, DepIInvStep, PTL DEF Spec

(***************************************************************************)
(* The transactions the script counts are those it sends: a run with an    *)
(* unused salt that nothing disturbs passes its checks.                    *)
(***************************************************************************)
THEOREM CleanRunsPass == Spec => []CleanRunPasses
<1>1. DepIInv => CleanRunPasses
  BY DEF DepIInv
<1> QED BY <1>1, DeploymentInvariant, PTL

(***************************************************************************)
(* The key that deploys never controls a proxy, unless the timelock gave   *)
(* it the proxy admin back.                                                *)
(***************************************************************************)
THEOREM KeyIsNoAdmin == Spec => []KeyNeverAdministers
<1>1. DepIInv => KeyNeverAdministers
  BY DEF DepIInv, ChainOK, ProxiesOK, NotTheKey, Proxies, KeyNeverAdministers
<1> QED BY <1>1, DeploymentInvariant, PTL

(***************************************************************************)
(* Every contract that an output names knows the others by the addresses   *)
(* of that output, and the proxies are under the timelock of the output,   *)
(* and so is the manager unless it is a test deployment.                   *)
(***************************************************************************)
THEOREM OutputsAreWired == Spec => OutputIsWired
<1>1. ASSUME DepIInv, WriteOutput
      PROVE  Wired'
  <2> USE DEF FromCheck, FromSaved, FromManager, FromVerifier, FromSaveGER, FromImport,
              FromBridge, FromOwnership, FromImpl, Deploying
  <2>1. /\ run.pc = "output" /\ code' = code
        /\ files'.output =
             [salt |-> run.salt, admin |-> ProxyAdminAt(run.salt),
              bridge |-> BridgeProxyAt(run.salt), ger |-> run.ger, gateway |-> run.gateway,
              manager |-> run.manager, timelock |-> run.timelock]
    BY <1>1 DEF WriteOutput, At, DepIInv, TypesOK, Files
  <2>2. /\ run.salt \in Salts
        /\ code[ProxyAdminAt(run.salt)].owner = run.timelock
        /\ code[run.timelock].manager = run.manager
        /\ code[BridgeProxyAt(run.salt)].ger = run.ger
        /\ code[BridgeProxyAt(run.salt)].manager = run.manager
        /\ code[BridgeProxyAt(run.salt)].admin = ProxyAdminAt(run.salt)
        /\ code[run.ger] = [kind |-> "ger", admin |-> ProxyAdminAt(run.salt),
                            manager |-> run.manager, bridge |-> BridgeProxyAt(run.salt)]
        /\ code[run.manager] = [kind |-> "manager", admin |-> ProxyAdminAt(run.salt),
                                ger |-> run.ger, bridge |-> BridgeProxyAt(run.salt),
                                gateway |-> run.gateway,
                                defaultAdmin |-> FinalTimelockAddress]
        /\ code[run.gateway].admin = ProxyAdminAt(run.salt)
    BY <1>1, <2>1 DEF DepIInv, RunOK, Holds, AdminIs, ChainOK, PlacedOK
  <2> QED BY <2>1, <2>2 DEF Wired, FinalTimelockAddress
<1>2. ASSUME DepIInv, [Next]_vars, ~WriteOutput
      PROVE  files'.output = files.output
  <2>1. files \in Files
    BY <1>2 DEF DepIInv, TypesOK
  <2>2. CASE UNCHANGED files
    BY <2>2
  <2>3. CASE SaveDeployer \/ Plan \/ ForceImport \/ SaveGER \/ SaveGateway \/ SaveManager
    BY <2>1, <2>3 DEF SaveDeployer, Plan, ForceImport, SaveGER, SaveGateway, SaveManager, Files
  <2>4. CASE UnlinkOngoing \/ NewSalt \/ EraseManifest \/ CreateGenesis \/ StartFromScratch
    BY <2>1, <2>4 DEF UnlinkOngoing, NewSalt, EraseManifest, CreateGenesis, StartFromScratch, Files
  <2>5. \/ UNCHANGED files
        \/ SaveDeployer \/ Plan \/ ForceImport \/ SaveGER \/ SaveGateway \/ SaveManager
        \/ UnlinkOngoing \/ NewSalt \/ EraseManifest \/ CreateGenesis \/ StartFromScratch
    BY <1>2 DEF Next, ScriptStep, StartDeployer, Start, FundKeyless, BroadcastKeyless,
       ProxyAdmin, BridgeImplementation, Timelock, TransferOwnership, BridgeProxy, Verifier,
       ReuseGateway, Check, DeployImplementation, DeployProxy, AttemptFails, Crash,
       ForeignTransaction, ReturnAdmin, vars
  <2> QED BY <2>2, <2>3, <2>4, <2>5
<1>3. DepIInv /\ [Next]_vars => [files'.output # files.output => Wired']_vars
  BY <1>1, <1>2
<1> QED BY <1>3, DeploymentInvariant, PTL DEF Spec, OutputIsWired

-----------------------------------------------------------------------------
(* The genesis. *)

\* The places of the genesis are different addresses, here and on mainnet.
LEMMA PlacesDiffer ==
    ASSUME NEW s, NEW m \in BOOLEAN
    PROVE  LET final == FinalAddresses(s, m) IN
           /\ \A p \in {final.impl, final.bridge, final.gerImpl, GlobalExitRootL2,
                        final.timelock} : final.admin # p
           /\ \A p \in {final.bridge, final.gerImpl, GlobalExitRootL2, final.timelock} :
                  final.impl # p
           /\ \A p \in {final.gerImpl, GlobalExitRootL2, final.timelock} : final.bridge # p
           /\ \A p \in {GlobalExitRootL2, final.timelock} : final.gerImpl # p
           /\ GlobalExitRootL2 # final.timelock
<1>1. /\ Create(4) # Create(6) /\ \A n : GlobalExitRootL2 # Create(n)
      /\ GlobalExitRootL2 # ProxyAdminAt(s) /\ GlobalExitRootL2 # BridgeImplAt(s)
      /\ GlobalExitRootL2 # BridgeProxyAt(s)
  BY DEF Create, GlobalExitRootL2, ProxyAdminAt, BridgeImplAt, BridgeProxyAt, Create2
<1>2. CASE m
  <2>1. /\ OnMainnet("ProxyAdmin") # OnMainnet("bridgeImpl")
        /\ OnMainnet("ProxyAdmin") # OnMainnet("bridge")
        /\ OnMainnet("bridgeImpl") # OnMainnet("bridge")
        /\ \A name, n : OnMainnet(name) # Create(n) /\ OnMainnet(name) # GlobalExitRootL2
    BY DEF OnMainnet, Create, GlobalExitRootL2
  <2> QED BY <1>1, <1>2, <2>1 DEF FinalAddresses
<1>3. CASE ~m
  BY <1>1, <1>3, AddressesDiffer DEF FinalAddresses, GERImplNonce, TimelockNonce
<1> QED BY <1>2, <1>3

\* What the local chain has for the genesis.
LEMMA LocalContracts ==
    ASSUME NEW s, NEW final
    PROVE  LET local == LocalChain(s, final) IN
           /\ local[ProxyAdminAt(s)] = [kind |-> "proxyAdmin", owner |-> final.timelock]
           /\ local[BridgeProxyAt(s)] =
                [kind |-> "bridge", admin |-> ProxyAdminAt(s), impl |-> BridgeImplAt(s),
                 ger |-> NoAddress, manager |-> NoAddress]
           /\ local[Create(GERProxyNonce)] =
                [kind |-> "ger", admin |-> ProxyAdminAt(s), impl |-> Create(GERImplNonce),
                 bridge |-> final.bridge]
           /\ local[Create(TimelockNonce)] =
                [kind |-> "timelock", manager |-> NoAddress,
                 admins |-> {<<"timelockAdmin">>, Create(TimelockNonce)}]
<1>1. /\ Create(GERImplNonce) # Create(GERProxyNonce)
      /\ Create(GERImplNonce) # Create(TimelockNonce)
      /\ Create(GERProxyNonce) # Create(TimelockNonce)
  BY AddressesDiffer DEF GERImplNonce, GERProxyNonce, TimelockNonce
<1> QED BY <1>1, AddressesDiffer DEF LocalChain

\* What the genesis has at its places.
LEMMA GenesisContracts ==
    ASSUME NEW s, NEW m \in BOOLEAN
    PROVE  LET final   == FinalAddresses(s, m)
               entries == Genesis(s, m).entries IN
           /\ DOMAIN entries = FinalPlaces(final)
           /\ entries[final.admin].owner = final.timelock
           /\ entries[final.bridge].admin = final.admin
           /\ entries[final.bridge].impl = final.impl
           /\ entries[GlobalExitRootL2].admin = final.admin
           /\ entries[GlobalExitRootL2].impl = final.gerImpl
           /\ entries[GlobalExitRootL2].bridge = final.bridge
           /\ entries[final.timelock].admins = {<<"timelockAdmin">>, Create(TimelockNonce)}
<1> DEFINE final   == FinalAddresses(s, m)
           local   == LocalChain(s, final)
           placed  == LocalEntries(local, s, final)
           entries == GenesisEntries(local, s, final)
<1>1. /\ local[ProxyAdminAt(s)] = [kind |-> "proxyAdmin", owner |-> final.timelock]
      /\ local[BridgeProxyAt(s)] =
           [kind |-> "bridge", admin |-> ProxyAdminAt(s), impl |-> BridgeImplAt(s),
            ger |-> NoAddress, manager |-> NoAddress]
      /\ local[Create(GERProxyNonce)] =
           [kind |-> "ger", admin |-> ProxyAdminAt(s), impl |-> Create(GERImplNonce),
            bridge |-> final.bridge]
      /\ local[Create(TimelockNonce)] =
           [kind |-> "timelock", manager |-> NoAddress,
            admins |-> {<<"timelockAdmin">>, Create(TimelockNonce)}]
  BY LocalContracts
<1>2. /\ \A p \in {final.impl, final.bridge, final.gerImpl, GlobalExitRootL2, final.timelock} :
             final.admin # p
      /\ \A p \in {final.bridge, final.gerImpl, GlobalExitRootL2, final.timelock} :
             final.impl # p
      /\ \A p \in {final.gerImpl, GlobalExitRootL2, final.timelock} : final.bridge # p
      /\ \A p \in {GlobalExitRootL2, final.timelock} : final.gerImpl # p
      /\ GlobalExitRootL2 # final.timelock
  BY PlacesDiffer
<1> HIDE DEF final, local
<1>3. /\ DOMAIN placed = FinalPlaces(final)
      /\ {final.admin, final.bridge, GlobalExitRootL2, final.timelock} \subseteq DOMAIN placed
      /\ placed[final.admin] = local[ProxyAdminAt(s)]
      /\ placed[final.bridge] = local[BridgeProxyAt(s)]
      /\ placed[GlobalExitRootL2] = local[Create(GERProxyNonce)]
      /\ placed[final.timelock] = local[Create(TimelockNonce)]
  BY <1>2 DEF LocalEntries, LocalContract, FinalPlaces
<1> HIDE DEF placed
<1>4. entries = [placed EXCEPT
        ![final.bridge].admin = final.admin, ![final.bridge].impl = final.impl,
        ![GlobalExitRootL2].admin = final.admin, ![GlobalExitRootL2].impl = final.gerImpl]
  BY DEF GenesisEntries, placed
<1> HIDE DEF entries
<1>5. /\ DOMAIN entries = FinalPlaces(final)
      /\ entries[final.admin].owner = final.timelock
      /\ entries[final.bridge].admin = final.admin
      /\ entries[final.bridge].impl = final.impl
      /\ entries[GlobalExitRootL2].admin = final.admin
      /\ entries[GlobalExitRootL2].impl = final.gerImpl
      /\ entries[GlobalExitRootL2].bridge = final.bridge
      /\ entries[final.timelock].admins = {<<"timelockAdmin">>, Create(TimelockNonce)}
  <2>1. /\ DOMAIN entries = DOMAIN placed
        /\ entries[final.admin] = placed[final.admin]
        /\ entries[final.timelock] = placed[final.timelock]
    BY <1>2, <1>3, <1>4
  <2>2. entries[final.bridge] =
          [placed[final.bridge] EXCEPT !.admin = final.admin, !.impl = final.impl]
    BY <1>2, <1>3, <1>4
  <2>3. entries[GlobalExitRootL2] =
          [placed[GlobalExitRootL2] EXCEPT !.admin = final.admin, !.impl = final.gerImpl]
    BY <1>2, <1>3, <1>4
  <2>4. /\ entries[final.bridge].admin = final.admin
        /\ entries[final.bridge].impl = final.impl
    BY <2>2, <1>1, <1>3
  <2>5. /\ entries[GlobalExitRootL2].admin = final.admin
        /\ entries[GlobalExitRootL2].impl = final.gerImpl
        /\ entries[GlobalExitRootL2].bridge = final.bridge
    BY <2>3, <1>1, <1>3
  <2> QED BY <2>1, <2>4, <2>5, <1>1, <1>3
<1>6. Genesis(s, m).entries = entries
  BY DEF Genesis, entries, local, final
<1> QED BY <1>5, <1>6 DEF final

(***************************************************************************)
(* A genesis names only contracts that it contains, its proxies are under  *)
(* its timelock, and it puts bridge and proxy admin where L1 has them.     *)
(***************************************************************************)
THEOREM GenesesFit == Spec => []GenesisFits
<1>1. ASSUME DepIInv PROVE GenesisFits
  <2> SUFFICES ASSUME files.genesis # NoGenesis PROVE GenesisFits
    BY DEF GenesisFits
  <2>1. PICK s \in Salts, m \in BOOLEAN : files.genesis = Genesis(s, m)
    BY <1>1 DEF DepIInv, TypesOK, Files, Geneses
  <2> DEFINE g     == Genesis(s, m)
             final == FinalAddresses(s, m)
  <2>2. /\ g.salt = s /\ g.isMainnet = m /\ g.bridge = final.bridge /\ g.admin = final.admin
    BY DEF Genesis
  <2>3. /\ DOMAIN g.entries = FinalPlaces(final)
        /\ g.entries[final.admin].owner = final.timelock
        /\ g.entries[final.bridge].admin = final.admin
        /\ g.entries[final.bridge].impl = final.impl
        /\ g.entries[GlobalExitRootL2].admin = final.admin
        /\ g.entries[GlobalExitRootL2].impl = final.gerImpl
        /\ g.entries[GlobalExitRootL2].bridge = final.bridge
        /\ g.entries[final.timelock].admins = {<<"timelockAdmin">>, Create(TimelockNonce)}
    BY GenesisContracts
  <2>4. final.timelock = Create(TimelockNonce)
    BY DEF FinalAddresses, TimelockNonce
  <2>5. ~m => final.bridge = BridgeProxyAt(s) /\ final.admin = ProxyAdminAt(s)
    BY DEF FinalAddresses
  <2>6. /\ files.output.salt = s =>
             files.output.bridge = BridgeProxyAt(s) /\ files.output.admin = ProxyAdminAt(s)
    <3>1. files.output \in Outputs \/ files.output = NoOutput
      BY <1>1 DEF DepIInv, TypesOK, Files
    <3>2. s # 0
      BY DeploymentAssumption DEF Salts
    <3> QED BY <3>1, <3>2 DEF Outputs, NoOutput
  <2> HIDE DEF g, final
  <2>7. /\ {g.entries[p].admin : p \in {final.bridge, GlobalExitRootL2}} \subseteq DOMAIN g.entries
        /\ {g.entries[p].impl : p \in {final.bridge, GlobalExitRootL2}} \subseteq DOMAIN g.entries
        /\ final.timelock \in DOMAIN g.entries
    BY <2>3 DEF FinalPlaces
  <2>8. files.genesis = g
    BY <2>1 DEF g
  <2> QED BY <2>2, <2>3, <2>4, <2>5, <2>6, <2>7, <2>8 DEF GenesisFits
<1> QED BY <1>1, DeploymentInvariant, PTL
=============================================================================
