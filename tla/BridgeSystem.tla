---------------------------- MODULE BridgeSystem ----------------------------
(***************************************************************************)
(* The bridges of all networks (PolygonZkEVMBridgeV2): the one on mainnet, *)
(* whose exits and published roots are those of L1ExitRoots, and one on    *)
(* each rollup, whose exits reach mainnet when the rollup manager settles  *)
(* a local exit root. An exit on one network is a claim on another.        *)
(*                                                                         *)
(* A call that pays out or takes in a token may run code of its receiver   *)
(* or of the token before it returns; `calls' is the stack of such calls.  *)
(* A call that fails leaves no trace, so only calls that succeed are       *)
(* steps. Networks only see each other's committed state, so a nest of     *)
(* calls on one of them runs without steps of the others.                  *)
(***************************************************************************)
EXTENDS L1ExitRoots, FiniteSets, Functions

CONSTANTS
    Rollups,      \* network ids of the rollups: rollup ids of the manager
    Tokens,       \* pairs (origin network, origin token address)
    Ether,        \* the pair (mainnet, address 0)
    OriginNetwork,\* of each token
    GasToken,     \* the native coin of each network
    TransferFee,  \* what a token keeps of every transfer on its own network
    Amounts,      \* amounts a call can name
    InitialHeld,  \* what the users of each network hold at first
    Prefund,      \* coins a rollup's bridge holds at genesis, to pay out gas tokens
    MaxExits,     \* bound: exits of all networks
    MaxCalls      \* bound: depth of nested calls

MainnetNetworkID == 0
ZkEVMNetworkID == 1
Networks == {MainnetNetworkID} \cup Rollups

Leaves == [leafType : {"asset"}, token : Tokens,
           destinationNetwork : Networks, amount : Nat]
          \cup
          [leafType : {"message"}, originNetwork : Networks,
           destinationNetwork : Networks, amount : Nat]

ASSUME BridgeAssumption ==
    /\ Rollups \subseteq Nat \ {0}
    /\ Ether \in Tokens
    /\ OriginNetwork \in [Tokens -> Networks]
    /\ OriginNetwork[Ether] = MainnetNetworkID
    /\ GasToken \in [Networks -> Tokens]
    /\ GasToken[MainnetNetworkID] = Ether
    /\ \A r \in Rollups : OriginNetwork[GasToken[r]] # r
    /\ TransferFee \in [Tokens -> Nat]
    /\ \A n \in Networks : TransferFee[GasToken[n]] = 0 \* sent as a coin
    /\ Amounts \subseteq Nat
    /\ InitialHeld \in [Networks -> [Tokens -> Nat]]
    /\ Prefund \in Nat
    /\ MaxExits \in Nat /\ MaxCalls \in Nat
    /\ ZeroHash = <<>> \* an unset root covers no exit

(***************************************************************************)
(* Rollups are counted by a uint32. A token starts on its own network and  *)
(* nowhere else: the genesis of a rollup leaves wrapped tokens unminted    *)
(* and gives its coins to the bridge, never fewer than there can be of the *)
(* token.                                                                  *)
(***************************************************************************)
ASSUME SupplyAssumption ==
    /\ IsFiniteSet(Rollups)
    /\ \A n \in Networks, t \in Tokens : OriginNetwork[t] # n => InitialHeld[n][t] = 0
    /\ \A t \in Tokens : InitialHeld[OriginNetwork[t]][t] <= Prefund

VARIABLES
    localExitTree, \* leaves of the deposit tree of each rollup's bridge
    claimedBitMap, \* the bits set in each bridge's nullifier
    custody,       \* tokens each bridge holds
    held,          \* tokens the users of each network hold
    calls,         \* calls that have not returned yet, innermost last
    paid,          \* ghost: how often the exit of each network and index was paid
    given          \* ghost: what each bridge was sent and no exit stands for

bridgeSystemVars ==
    <<exitVars, localExitTree, claimedBitMap, custody, held, calls, paid, given>>

\* Leaf indexes are below 2^32 in the code; the tree holds one leaf less.
MaxLeafsPerNetwork == MaxDeposits + 1
LeafIndexes == 0..(MaxDeposits - 1)

Tree(n) == IF n = MainnetNetworkID THEN exitTree ELSE localExitTree[n]

\* The root in every rollup's slot of the rollup exit root.
SettledRoots ==
    IF lastRollupExitRoot = ZeroHash THEN [r \in Rollups |-> <<>>] ELSE lastRollupExitRoot

SystemInit ==
    /\ ExitInit
    /\ localExitTree = [r \in Rollups |-> <<>>]
    /\ claimedBitMap = [n \in Networks |-> {}]
    /\ custody = [n \in Networks |-> [t \in Tokens |->
                     IF n \in Rollups /\ GasToken[n] = t THEN Prefund ELSE 0]]
    /\ held = InitialHeld
    /\ calls = <<>>
    /\ paid = [e \in Networks \X LeafIndexes |-> 0]
    /\ given = [n \in Networks |-> [t \in Tokens |-> 0]]

-----------------------------------------------------------------------------
\* Only the network of the open calls runs, and the nest stays bounded.
Runs(n) == \A i \in 1..Len(calls) : calls[i].network = n

Open(call) ==
    /\ Len(calls) < MaxCalls
    /\ calls' = Append(calls, call)

Close == calls' = SubSeq(calls, 1, Len(calls) - 1)

\* nonReentrant: bridgeAsset and claimAsset share one lock, the others take none.
Entered == \E i \in 1..Len(calls) : calls[i].function \in {"bridgeAsset", "claimAsset"}

\* ifNotEmergencyState: a rollup's bridge has no rollup manager to declare it.
NotEmergency(n) == n = MainnetNetworkID => ~bridgeEmergencyState

\* How a network keeps a token: as its coin, as a token of its own, or wrapped.
IsCoin(n, t) == t = GasToken[n]
IsOwn(n, t) == ~IsCoin(n, t) /\ OriginNetwork[t] = n
IsWrapped(n, t) == ~IsCoin(n, t) /\ OriginNetwork[t] # n

-----------------------------------------------------------------------------
(***************************************************************************)
(* _addLeafBridge with the publication of the root. On a rollup the root   *)
(* is left for its prover, which reads it whether it was published or not. *)
(***************************************************************************)
AddLeafBridge(n, leaf, forceUpdateGlobalExitRoot) ==
    \/ /\ n = MainnetNetworkID
       /\ AddExit(leaf, forceUpdateGlobalExitRoot)
       /\ UNCHANGED localExitTree
    \/ /\ n # MainnetNetworkID
       /\ Len(localExitTree[n]) < MaxDeposits
       /\ localExitTree' = [localExitTree EXCEPT ![n] = Append(@, leaf)]
       /\ UNCHANGED exitVars

\* Bounds: an open bridgeAsset keeps its place in the tree and among all exits.
HasRoom(n) ==
    LET open == Cardinality({i \in 1..Len(calls) : calls[i].function = "bridgeAsset"})
    IN /\ Len(Tree(n)) + open < MaxDeposits
       /\ SumFunctionOnSet([m \in Networks |-> Len(Tree(m))], Networks) + open < MaxExits

Asset(t, destination, amount) ==
    [leafType |-> "asset", token |-> t, destinationNetwork |-> destination, amount |-> amount]
Message(n, destination, amount) ==
    [leafType |-> "message", originNetwork |-> n, destinationNetwork |-> destination,
     amount |-> amount]

\* DestinationNetworkInvalid.
ValidDestination(n, destination) == destination # n

\* The user's tokens: a coin moves to the bridge, a wrapped token is burnt.
TakeCoinOrWrapped(n, t, amount) ==
    /\ held[n][t] >= amount
    /\ held' = [held EXCEPT ![n][t] = @ - amount]
    /\ custody' = IF IsCoin(n, t) THEN [custody EXCEPT ![n][t] = @ + amount] ELSE custody

(***************************************************************************)
(* bridgeAsset with the coin of the network (token 0) or a wrapped token.  *)
(***************************************************************************)
BridgeAsset(n, t, amount, destination, force) ==
    /\ Runs(n) /\ ~Entered /\ NotEmergency(n) /\ HasRoom(n)
    /\ ValidDestination(n, destination)
    /\ IsCoin(n, t) \/ IsWrapped(n, t)
    /\ TakeCoinOrWrapped(n, t, amount)
    /\ AddLeafBridge(n, Asset(t, destination, amount), force)
    /\ UNCHANGED <<claimedBitMap, calls, paid, given>>

(***************************************************************************)
(* bridgeAsset with a token of the network itself: the balance is read,    *)
(* the token is called and may call others, and what the balance grew by   *)
(* becomes the amount of the leaf, whoever sent it.                        *)
(***************************************************************************)
BeginBridgeAsset(n, t, amount, destination) ==
    /\ Runs(n) /\ ~Entered /\ NotEmergency(n) /\ HasRoom(n)
    /\ ValidDestination(n, destination)
    /\ IsOwn(n, t)
    /\ amount >= TransferFee[t]
    /\ held[n][t] >= amount
    /\ Open([function |-> "bridgeAsset", network |-> n, token |-> t, amount |-> amount,
             destination |-> destination, balanceBefore |-> custody[n][t]])
    /\ UNCHANGED <<exitVars, localExitTree, claimedBitMap, custody, held, paid, given>>

(***************************************************************************)
(* A plain transfer of a token of the network to the bridge, which does    *)
(* not notice, also from within a call. An open bridgeAsset that could not *)
(* take its own amount any more would fail as a whole.                     *)
(***************************************************************************)
TransferToBridge(n, t, amount) ==
    /\ Runs(n) /\ IsOwn(n, t)
    /\ amount > TransferFee[t] \* the bridge gets some of it
    /\ held[n][t] >= amount
    /\ \A i \in 1..Len(calls) :
           calls[i].function = "bridgeAsset" /\ calls[i].token = t
               => held[n][t] - amount >= calls[i].amount
    /\ held' = [held EXCEPT ![n][t] = @ - amount]
    /\ custody' = [custody EXCEPT ![n][t] = @ + (amount - TransferFee[t])]
    /\ given' = [given EXCEPT ![n][t] = @ + (amount - TransferFee[t])]
    /\ UNCHANGED <<exitVars, localExitTree, claimedBitMap, calls, paid>>

\* Seeded bug: the leaf carries the amount sent.
AmountSent(call) == call.amount

\* balanceAfter - balanceBefore.
AmountReceived(call) == custody'[call.network][call.token] - call.balanceBefore

EndBridgeAsset(force) ==
    /\ calls # <<>>
    /\ LET call == calls[Len(calls)]
           n == call.network
           t == call.token
       IN /\ call.function = "bridgeAsset"
          /\ held[n][t] >= call.amount
          /\ held' = [held EXCEPT ![n][t] = @ - call.amount]
          /\ custody' = [custody EXCEPT ![n][t] = @ + (call.amount - TransferFee[t])]
          /\ custody'[n][t] >= call.balanceBefore \* checked subtraction
          /\ AddLeafBridge(n, Asset(t, call.destination, AmountReceived(call)), force)
          /\ given' = [given EXCEPT ![n][t] = @ - (custody[n][t] - call.balanceBefore)]
    /\ Close
    /\ UNCHANGED <<claimedBitMap, paid>>

\* Seeded bug: a message may carry a custom coin.
AnyValue(n, value) == value \in Nat

\* NoValueInMessagesOnGasTokenNetworks.
ValueIsEther(n, value) == value = 0 \/ GasToken[n] = Ether

(***************************************************************************)
(* bridgeMessage sends coins along, on a network whose coin is ether, and  *)
(* bridgeMessageWETH burns wrapped ether on one whose coin is not.         *)
(***************************************************************************)
BridgeMessage(n, amount, destination, force) ==
    /\ Runs(n) /\ NotEmergency(n) /\ HasRoom(n)
    /\ ValueIsEther(n, amount)
    /\ ValidDestination(n, destination)
    /\ TakeCoinOrWrapped(n, GasToken[n], amount)
    /\ AddLeafBridge(n, Message(n, destination, amount), force)
    /\ UNCHANGED <<claimedBitMap, calls, paid, given>>

BridgeMessageWETH(n, amount, destination, force) ==
    /\ Runs(n) /\ NotEmergency(n) /\ HasRoom(n)
    /\ GasToken[n] # Ether
    /\ ValidDestination(n, destination)
    /\ TakeCoinOrWrapped(n, Ether, amount)
    /\ AddLeafBridge(n, Message(n, destination, amount), force)
    /\ UNCHANGED <<claimedBitMap, calls, paid, given>>

-----------------------------------------------------------------------------
(***************************************************************************)
(* A global index names a leaf: the mainnet flag, or the slot of a rollup, *)
(* and the index in that network's tree. All other bits have to be 0.      *)
(***************************************************************************)
GlobalIndexes ==
    [mainnetFlag : {TRUE}, indexRollup : {0}, leafIndex : LeafIndexes]
    \cup
    [mainnetFlag : {FALSE}, indexRollup : {r - 1 : r \in Rollups}, leafIndex : LeafIndexes]

SourceBridgeNetwork(globalIndex) ==
    IF globalIndex.mainnetFlag THEN MainnetNetworkID ELSE globalIndex.indexRollup + 1

\* The leaves under the root that the proofs of a claim lead to.
ProvenTree(ger, globalIndex) ==
    IF globalIndex.mainnetFlag THEN ger.mainnet
    ELSE IF ger.rollup = ZeroHash THEN <<>> ELSE ger.rollup[globalIndex.indexRollup + 1]

\* GlobalExitRootInvalid.
IsKnownRoot(ger) == ger \in globalExitRootMap

\* Seeded bug: every network treats rollup 1 the way mainnet does.
BitOnEveryNetwork(n, leafIndex, source) ==
    IF source = ZkEVMNetworkID THEN leafIndex
    ELSE leafIndex + source * MaxLeafsPerNetwork

\* The nullifier of a leaf. Mainnet keeps rollup 1 at the start of the map.
ClaimBit(n, leafIndex, source) ==
    IF n = MainnetNetworkID /\ source = ZkEVMNetworkID THEN leafIndex
    ELSE leafIndex + source * MaxLeafsPerNetwork

\* Seeded bug: the bit is flipped and the result is not looked at.
FlipOnly(n, bit) ==
    claimedBitMap' = [claimedBitMap EXCEPT ![n] = IF bit \in @ THEN @ \ {bit} ELSE @ \cup {bit}]

\* _setAndCheckClaimed flips the bit and fails when that cleared it.
SetAndCheckClaimed(n, bit) ==
    /\ bit \notin claimedBitMap[n]
    /\ claimedBitMap' = [claimedBitMap EXCEPT ![n] = @ \cup {bit}]

(***************************************************************************)
(* _verifyLeaf: the global exit root is known, the leaf is under it, and   *)
(* its nullifier is set before anything is paid.                           *)
(***************************************************************************)
VerifyLeaf(n, ger, globalIndex, leaf) ==
    LET source == SourceBridgeNetwork(globalIndex)
        tree == ProvenTree(ger, globalIndex)
    IN /\ IsKnownRoot(ger)
       /\ globalIndex.leafIndex < Len(tree)
       /\ leaf = tree[globalIndex.leafIndex + 1]
       /\ SetAndCheckClaimed(n, ClaimBit(n, globalIndex.leafIndex, source))
       /\ paid' = [paid EXCEPT ![<<source, globalIndex.leafIndex>>] = @ + 1]

\* Coins and own tokens come out of the bridge's custody, others are minted.
PayOut(n, t, amount) ==
    /\ IsWrapped(n, t) \/ (custody[n][t] >= amount /\ amount >= TransferFee[t])
    /\ custody' = IF IsWrapped(n, t) THEN custody ELSE [custody EXCEPT ![n][t] = @ - amount]
    /\ held' = [held EXCEPT ![n][t] = @ + amount - (IF IsOwn(n, t) THEN TransferFee[t] ELSE 0)]

(***************************************************************************)
(* claimAsset: a coin or a token of the network calls its receiver while   *)
(* the lock is held; a wrapped token is minted without a call.             *)
(***************************************************************************)
ClaimAsset(n, ger, globalIndex, leaf) ==
    /\ Runs(n) /\ ~Entered /\ NotEmergency(n)
    /\ leaf.leafType = "asset"
    /\ leaf.destinationNetwork = n
    /\ VerifyLeaf(n, ger, globalIndex, leaf)
    /\ PayOut(n, leaf.token, leaf.amount)
    /\ IF IsWrapped(n, leaf.token) THEN UNCHANGED calls
       ELSE Open([function |-> "claimAsset", network |-> n])
    /\ UNCHANGED <<exitVars, localExitTree, given>>

(***************************************************************************)
(* claimMessage pays ether, or mints wrapped ether, and calls the receiver *)
(* without any lock: the receiver may claim and bridge as it likes.        *)
(***************************************************************************)
ClaimMessage(n, ger, globalIndex, leaf) ==
    /\ Runs(n) /\ NotEmergency(n)
    /\ leaf.leafType = "message"
    /\ leaf.destinationNetwork = n
    /\ VerifyLeaf(n, ger, globalIndex, leaf)
    /\ PayOut(n, Ether, leaf.amount)
    /\ Open([function |-> "claimMessage", network |-> n])
    /\ UNCHANGED <<exitVars, localExitTree, given>>

\* The receiver of a claim returns.
ReturnFromReceiver ==
    /\ calls # <<>>
    /\ calls[Len(calls)].function \in {"claimAsset", "claimMessage"}
    /\ Close
    /\ UNCHANGED <<exitVars, localExitTree, claimedBitMap, custody, held, paid, given>>

-----------------------------------------------------------------------------
\* The rollup manager settles a longer local exit root of a rollup.
SettleLocalExitRoot(r, length) ==
    /\ calls = <<>>
    /\ Len(SettledRoots[r]) < length /\ length <= Len(localExitTree[r])
    /\ ReportRollupExitRoot([SettledRoots EXCEPT ![r] = SubSeq(localExitTree[r], 1, length)])
    /\ UNCHANGED <<localExitTree, claimedBitMap, custody, held, calls, paid, given>>

\* Anyone on mainnet may publish, also from within a call.
PublishExits ==
    /\ Runs(MainnetNetworkID)
    /\ UpdateGlobalExitRoot
    /\ UNCHANGED <<localExitTree, claimedBitMap, custody, held, calls, paid, given>>

MainnetEmergency ==
    /\ Runs(MainnetNetworkID)
    /\ SetBridgeEmergency
    /\ UNCHANGED <<localExitTree, claimedBitMap, custody, held, calls, paid, given>>

Bridge(n) ==
    \/ \E t \in Tokens, amount \in Amounts, destination \in Networks :
           \/ \E force \in BOOLEAN : BridgeAsset(n, t, amount, destination, force)
           \/ BeginBridgeAsset(n, t, amount, destination)
    \/ \E amount \in Amounts, destination \in Networks, force \in BOOLEAN :
           \/ BridgeMessage(n, amount, destination, force)
           \/ BridgeMessageWETH(n, amount, destination, force)

\* Roots a caller can name: the recorded ones, and those of the trees as they stand.
NamedRoots == globalExitRootMap \cup {GlobalExitRoot(exitTree, localExitTree)}

Claim(n) ==
    \E ger \in NamedRoots, globalIndex \in GlobalIndexes :
        \E leaf \in {ProvenTree(ger, globalIndex)[i] :
                        i \in 1..Len(ProvenTree(ger, globalIndex))} :
            \/ ClaimAsset(n, ger, globalIndex, leaf)
            \/ ClaimMessage(n, ger, globalIndex, leaf)

SystemNext ==
    \/ \E n \in Networks : Bridge(n) \/ Claim(n)
    \/ \E n \in Networks, t \in Tokens, amount \in Amounts : TransferToBridge(n, t, amount)
    \/ \E force \in BOOLEAN : EndBridgeAsset(force)
    \/ ReturnFromReceiver
    \/ \E r \in Rollups, length \in 1..MaxDeposits : SettleLocalExitRoot(r, length)
    \/ PublishExits
    \/ MainnetEmergency

SystemSpec == SystemInit /\ [][SystemNext]_bridgeSystemVars

-----------------------------------------------------------------------------
Exits == UNION {{<<n, i>> : i \in 0..(Len(Tree(n)) - 1)} : n \in Networks}
Leaf(e) == Tree(e[1])[e[2] + 1]
LeafToken(leaf) == IF leaf.leafType = "asset" THEN leaf.token ELSE Ether

UnpaidExits(t) == {e \in Exits : paid[e] = 0 /\ LeafToken(Leaf(e)) = t}
AmountDue(exits) == SumFunctionOnSet([e \in exits |-> Leaf(e).amount], exits)

\* The exit of network e[1] with index e[2] is under the global exit root.
Covers(ger, e) ==
    IF e[1] = MainnetNetworkID THEN e[2] < Len(ger.mainnet)
    ELSE ger.rollup # ZeroHash /\ e[2] < Len(ger.rollup[e[1]])

CoveredExits == {e \in Exits : \E ger \in globalExitRootMap : Covers(ger, e)}

(***************************************************************************)
(* An exit is paid at most once, on the network it names, and only after a *)
(* recorded global exit root covered it: whatever the order of claims,     *)
(* settlements and claims made by the receivers of claims (_verifyLeaf,    *)
(* _setAndCheckClaimed; claimMessage takes no lock).                       *)
(***************************************************************************)
PaidOnce ==
    \A e \in DOMAIN paid : paid[e] > 0 => paid[e] = 1 /\ e \in CoveredExits

(***************************************************************************)
(* An exit that was not paid can still be claimed: no claim of another     *)
(* exit took its nullifier, although rollup 1 and mainnet share indexes on *)
(* mainnet (_setAndCheckClaimed, isClaimed).                               *)
(***************************************************************************)
UnpaidIsUnclaimed ==
    \A e \in Exits :
        LET n == Leaf(e).destinationNetwork
        IN paid[e] = 0 => ClaimBit(n, e[2], e[1]) \notin claimedBitMap[n]

(***************************************************************************)
(* Nullifiers and payments agree exactly: no exit is paid twice, and none  *)
(* is lost to the claim of another (_setAndCheckClaimed).                  *)
(***************************************************************************)
ExitsPaidExactly == PaidOnce /\ UnpaidIsUnclaimed

(***************************************************************************)
(* The network an unpaid exit goes to holds enough to pay it, where it     *)
(* pays out of its custody, whoever was paid before (claimAsset,           *)
(* claimMessage): no order of claims leaves one without funds.             *)
(***************************************************************************)
CoveredExitPayable ==
    \A e \in CoveredExits :
        LET n == Leaf(e).destinationNetwork
            t == LeafToken(Leaf(e))
        IN (paid[e] = 0 /\ ~IsWrapped(n, t)) => custody[n][t] >= Leaf(e).amount

(***************************************************************************)
(* A token's own network holds exactly what the users of other networks    *)
(* hold of it, what is on its way and what the bridge was given for        *)
(* nothing; a rollup's coins are in its bridge or with its users. So it is *)
(* also in the middle of nested calls and for tokens that keep a fee, and  *)
(* no reentrant token makes the bridge owe more, or keep more, than it was *)
(* sent (bridgeAsset, claimAsset, claimMessage): claimAsset shares the     *)
(* lock of bridgeAsset, which the warning above bridgeAsset,               *)
(* PolygonZkEVMBridgeV2.sol:297-298, does not take into account.           *)
(***************************************************************************)
CustodyBacksSupply ==
    \A t \in Tokens :
        LET home == OriginNetwork[t]
            abroad == Networks \ {home}
        IN /\ custody[home][t] = SumFunctionOnSet([n \in abroad |-> held[n][t]], abroad)
                                    + AmountDue(UnpaidExits(t)) + given[home][t]
           /\ \A n \in abroad : IsCoin(n, t) => custody[n][t] + held[n][t] = Prefund

(***************************************************************************)
(* All bridges together implement TokenFlow: every step sends an amount    *)
(* once, with what the bridge was given meanwhile, or pays an amount that  *)
(* is due, less the fee a token keeps on its own network, or moves no      *)
(* token between networks.                                                 *)
(***************************************************************************)
Flow == INSTANCE TokenFlow WITH
    Keeps <- [n \in Networks |-> [t \in Tokens |-> IF IsOwn(n, t) THEN TransferFee[t] ELSE 0]],
    due <- [n \in Networks |-> [t \in Tokens |->
               AmountDue({e \in UnpaidExits(t) : Leaf(e).destinationNetwork = n})]]

ImplementsTokenFlow == Flow!FlowSpec
=============================================================================
