-------------------------- MODULE SovereignBridge --------------------------
(***************************************************************************)
(* The bridge of one sovereign chain, BridgeL2SovereignChain, with its     *)
(* GlobalExitRootManagerL2SovereignChain. It adds to PolygonZkEVMBridgeV2  *)
(* a local balance per foreign token, hash chains that record what was     *)
(* inserted, removed, claimed and unset, wrapped tokens that a bridge      *)
(* manager replaces, and its own emergency state.                          *)
(*                                                                         *)
(* Global exit roots are inserted by an updater and may be wrong; a        *)
(* remover takes them out and unsets the claims made against them. A root  *)
(* is here the list of exits to this chain that it holds of each source.   *)
(* Tokens are ERC20 contracts without callbacks. A hash chain is the list  *)
(* of its entries.                                                         *)
(***************************************************************************)
EXTENDS Integers, Sequences, FiniteSets, Functions

CONSTANTS
    Foreign,       \* tokens of other networks: pairs (origin network, address)
    Ether,         \* the pair (mainnet, address 0), one of them
    GasTokens,     \* those this chain may use as its coin
    ProxyOf,       \* address a wrapped token gets from create2, for each foreign token
    SovereignTokens, \* other contracts a bridge manager can map to a foreign token
    WETHTokens,    \* contracts it can use as wrapped ether, where ether is not the coin
    InitialWETH,   \* the one it starts with in that case
    NotMintable,   \* those among them the bridge cannot mint
    InitialHeld,   \* what users hold of each of these before the bridge knows them
    Sources,       \* the other networks
    GlobalExitRoots, \* roots that can be inserted: source |-> exits to this chain
    Amounts,
    MaxExits,      \* bound: exits of this chain
    MaxInserted,   \* bound: insertions of roots
    MaxClaims,     \* bound: claims, counting repeated ones
    MaxLeafs,      \* 2^32 in the code: leaf indexes per network
    NoAddress, NoToken

Addresses == {ProxyOf[t] : t \in Foreign} \cup SovereignTokens
InboundLeaves == [leafType : {"asset"}, token : Foreign \cup Addresses, amount : Nat]
                 \cup [leafType : {"message"}, token : {Ether}, amount : Nat]

\* A token pair with the address of a contract of this chain is not foreign.
ASSUME SovereignAssumption ==
    /\ IsFiniteSet(Foreign) /\ IsFiniteSet(SovereignTokens)
    /\ Foreign \cap (Addresses \cup {NoAddress}) = {}
    /\ Ether \in Foreign /\ GasTokens \subseteq Foreign
    /\ \A t, u \in Foreign : ProxyOf[t] = ProxyOf[u] => t = u
    /\ SovereignTokens \cap {ProxyOf[t] : t \in Foreign} = {}
    /\ WETHTokens \subseteq SovereignTokens \cup {ProxyOf[Ether]}
    /\ InitialWETH \in WETHTokens
    /\ NotMintable \subseteq SovereignTokens
    /\ InitialHeld \in [SovereignTokens -> Nat]
    /\ 0 \in Sources /\ Sources \subseteq Nat \* mainnet is one of them
    /\ GlobalExitRoots \subseteq [Sources -> Seq(InboundLeaves)]
    /\ \A ger \in GlobalExitRoots, s \in Sources : Len(ger[s]) <= MaxLeafs
    /\ Amounts \subseteq Nat \ {0}
    /\ {MaxExits, MaxInserted, MaxClaims, MaxLeafs} \subseteq Nat
    /\ NoAddress \notin Addresses /\ NoToken \notin Foreign

VARIABLES
    gasToken,                      \* the coin of the chain, set by initialize
    globalExitRootMap,             \* the exit root manager
    insertedGERHashChain,
    removedGERHashChain,
    claimedBitMap,                 \* the bridge: nullifiers
    claimedGlobalIndexHashChain,
    unsetGlobalIndexHashChain,
    localBalanceTree,
    exitTree,                      \* leaves of the deposit tree
    isEmergencyState,
    tokenInfoToWrappedToken,       \* the bridge: wrapped tokens
    wrappedTokenToTokenInfo,
    wrappedAddressIsNotMintable,
    WETHToken,
    deployed,                      \* proxies that create2 made
    servedToken,                   \* ghost: the foreign token a contract was mapped to
    held,                          \* what users hold of each token contract
    custody                        \* what the bridge holds of it

gerVars == <<globalExitRootMap, insertedGERHashChain, removedGERHashChain>>
claimVars == <<claimedBitMap, claimedGlobalIndexHashChain, unsetGlobalIndexHashChain>>
mapVars == <<tokenInfoToWrappedToken, wrappedTokenToTokenInfo,
             wrappedAddressIsNotMintable, WETHToken, deployed, servedToken>>
moneyVars == <<held, custody>>
exitTreeVars == <<localBalanceTree, exitTree>>
sovereignVars == <<gasToken, gerVars, claimVars, mapVars, moneyVars, exitTreeVars, isEmergencyState>>

HasWETH == gasToken # Ether

\* What users hold of a contract before the bridge knows it.
Initially(a) == IF a \in SovereignTokens THEN InitialHeld[a] ELSE 0

SovereignInit ==
    /\ gasToken \in GasTokens
    /\ globalExitRootMap = {}
    /\ insertedGERHashChain = <<>> /\ removedGERHashChain = <<>>
    /\ claimedBitMap = {}
    /\ claimedGlobalIndexHashChain = <<>> /\ unsetGlobalIndexHashChain = <<>>
    /\ localBalanceTree = [t \in Foreign |-> 0]
    /\ exitTree = <<>>
    /\ isEmergencyState = FALSE
    /\ tokenInfoToWrappedToken = [t \in Foreign |-> NoAddress]
    /\ wrappedTokenToTokenInfo = [a \in Addresses |-> NoToken]
    /\ WETHToken = IF HasWETH THEN InitialWETH ELSE NoAddress
    /\ wrappedAddressIsNotMintable = [a \in Addresses |-> a = WETHToken /\ a \in NotMintable]
    /\ deployed = {ProxyOf[Ether]} \cap {WETHToken}
    /\ servedToken = [a \in Addresses |-> NoToken]
    /\ held = [a \in Addresses \cup {NoAddress} |-> Initially(a)]
    /\ custody = [a \in Addresses |-> 0]

-----------------------------------------------------------------------------
InsertGlobalExitRoot(ger) ==
    /\ Len(insertedGERHashChain) < MaxInserted
    /\ ger \notin globalExitRootMap
    /\ globalExitRootMap' = globalExitRootMap \cup {ger}
    /\ insertedGERHashChain' = Append(insertedGERHashChain, ger)
    /\ UNCHANGED <<removedGERHashChain, claimVars, mapVars, moneyVars, exitTreeVars,
                   isEmergencyState>>

Entries(list) == {list[i] : i \in 1..Len(list)}
IsDuplicateFree(list) == \A i, j \in 1..Len(list) : list[i] = list[j] => i = j

\* Seeded bug: a root named twice is only looked up once.
KnownRoots(gers) == Entries(gers) \subseteq globalExitRootMap

\* Each root is looked up after the ones before it are gone.
EachIsKnown(gers) == Entries(gers) \subseteq globalExitRootMap /\ IsDuplicateFree(gers)

\* removeGlobalExitRoots: all of them or none.
RemoveGlobalExitRoots(gers) ==
    /\ EachIsKnown(gers)
    /\ globalExitRootMap' = globalExitRootMap \ Entries(gers)
    /\ removedGERHashChain' = removedGERHashChain \o gers
    /\ UNCHANGED <<insertedGERHashChain, claimVars, mapVars, moneyVars, exitTreeVars,
                   isEmergencyState>>

-----------------------------------------------------------------------------
IsForeign(token) == token \in Foreign

\* Seeded bug: messages do not touch the balance of ether.
AssetsOnly(leaf) == IF leaf.leafType = "asset" THEN leaf.token ELSE NoToken

\* The balance a leaf touches; a message counts as ether of mainnet.
BalanceToken(leaf) == IF leaf.leafType = "asset" THEN leaf.token ELSE Ether

\* _decreaseLocalBalanceTree and _increaseLocalBalanceTree skip the chain's own tokens.
DecreaseLocalBalanceTree(leaf) ==
    LET t == BalanceToken(leaf)
    IN IF IsForeign(t)
       THEN /\ leaf.amount <= localBalanceTree[t] \* LocalBalanceTreeUnderflow
            /\ localBalanceTree' = [localBalanceTree EXCEPT ![t] = @ - leaf.amount]
       ELSE UNCHANGED localBalanceTree

IncreaseLocalBalanceTree(leaf) ==
    LET t == BalanceToken(leaf)
    IN IF IsForeign(t)
       THEN localBalanceTree' = [localBalanceTree EXCEPT ![t] = @ + leaf.amount]
       ELSE UNCHANGED localBalanceTree

AddLeafBridge(leaf) ==
    /\ Len(exitTree) < MaxExits
    /\ exitTree' = Append(exitTree, leaf)
    /\ DecreaseLocalBalanceTree(leaf)

\* _bridgeWrappedAsset: tokens the bridge cannot mint are kept instead of burnt.
TakeWrapped(a, amount) ==
    /\ held[a] >= amount
    /\ IF wrappedAddressIsNotMintable[a]
       THEN custody' = [custody EXCEPT ![a] = @ + amount]
       ELSE UNCHANGED custody

\* _claimWrappedAsset: and paid from what was kept.
CanGiveWrapped(a, amount) == wrappedAddressIsNotMintable[a] => custody[a] >= amount

\* The token pair that bridgeAsset writes for an address, in the order of its tests.
TokenOf(a) ==
    IF a = NoAddress THEN gasToken
    ELSE IF a = WETHToken THEN Ether
    ELSE IF wrappedTokenToTokenInfo[a] # NoToken THEN wrappedTokenToTokenInfo[a]
    ELSE a

(***************************************************************************)
(* bridgeAsset: NoAddress stands for the coin, of which the bridge has     *)
(* enough. A contract that is not mapped is a token of this chain.         *)
(***************************************************************************)
BridgeAsset(a, amount) ==
    /\ ~isEmergencyState
    /\ held[a] >= amount
    /\ held' = [held EXCEPT ![a] = @ - amount]
    /\ CASE a = NoAddress -> UNCHANGED custody
         [] TokenOf(a) = a -> custody' = [custody EXCEPT ![a] = @ + amount]
         [] OTHER -> TakeWrapped(a, amount)
    /\ AddLeafBridge([leafType |-> "asset", token |-> TokenOf(a), amount |-> amount])
    /\ UNCHANGED <<gerVars, claimVars, mapVars, isEmergencyState>>

(***************************************************************************)
(* bridgeMessage with ether as the coin, bridgeMessageWETH otherwise.      *)
(***************************************************************************)
BridgeMessage(amount) ==
    /\ ~isEmergencyState
    /\ \/ /\ WETHToken = NoAddress
          /\ held[NoAddress] >= amount
          /\ held' = [held EXCEPT ![NoAddress] = @ - amount]
          /\ UNCHANGED custody
       \/ /\ WETHToken # NoAddress
          /\ TakeWrapped(WETHToken, amount)
          /\ held' = [held EXCEPT ![WETHToken] = @ - amount]
    /\ AddLeafBridge([leafType |-> "message", token |-> Ether, amount |-> amount])
    /\ UNCHANGED <<gerVars, claimVars, mapVars, isEmergencyState>>

-----------------------------------------------------------------------------
LeafIndexes == 0..(MaxLeafs - 1)
RollupIndexes == {s - 1 : s \in Sources \ {0}}
SourceOf(globalIndex) == IF globalIndex.mainnetFlag THEN 0 ELSE globalIndex.indexRollup + 1
ClaimBit(globalIndex) == globalIndex.leafIndex + SourceOf(globalIndex) * MaxLeafs

\* InvalidGlobalIndex: a claim has no other bits set next to the mainnet flag.
ClaimIndexes == [mainnetFlag : {TRUE}, indexRollup : {0}, leafIndex : LeafIndexes]
                \cup [mainnetFlag : {FALSE}, indexRollup : RollupIndexes, leafIndex : LeafIndexes]

\* unsetMultipleClaims does not check them.
UnsetIndexes == [mainnetFlag : BOOLEAN, indexRollup : RollupIndexes \cup {0}, leafIndex : LeafIndexes]

\* The nullifier is set, and the claim recorded.
RecordClaim(globalIndex, leaf) ==
    /\ ClaimBit(globalIndex) \notin claimedBitMap
    /\ claimedBitMap' = claimedBitMap \cup {ClaimBit(globalIndex)}
    /\ claimedGlobalIndexHashChain' =
           Append(claimedGlobalIndexHashChain, [globalIndex |-> globalIndex, leaf |-> leaf])

VerifyLeafBridge(ger, globalIndex, leaf) ==
    LET source == SourceOf(globalIndex)
    IN /\ Len(claimedGlobalIndexHashChain) < MaxClaims
       /\ ger \in globalExitRootMap
       /\ globalIndex.leafIndex < Len(ger[source])
       /\ leaf = ger[source][globalIndex.leafIndex + 1]
       /\ RecordClaim(globalIndex, leaf)
       /\ IncreaseLocalBalanceTree(leaf)
       /\ UNCHANGED <<unsetGlobalIndexHashChain, exitTree>>

\* The users receive amount of the contract at a, minted or from custody.
GiveWrapped(a, amount) ==
    /\ CanGiveWrapped(a, amount)
    /\ held' = [held EXCEPT ![a] = @ + amount]
    /\ custody' = IF wrappedAddressIsNotMintable[a]
                  THEN [custody EXCEPT ![a] = @ - amount] ELSE custody

GiveCoin(amount) ==
    held' = [held EXCEPT ![NoAddress] = @ + amount] /\ UNCHANGED custody

GiveOwn(a, amount) ==
    /\ custody[a] >= amount
    /\ custody' = [custody EXCEPT ![a] = @ - amount]
    /\ held' = [held EXCEPT ![a] = @ + amount]

\* The first claim of a token deploys its proxy and maps it both ways.
DeployAndMap(t) ==
    LET a == ProxyOf[t]
    IN /\ a \notin deployed
       /\ deployed' = deployed \cup {a}
       /\ tokenInfoToWrappedToken' = [tokenInfoToWrappedToken EXCEPT ![t] = a]
       /\ wrappedTokenToTokenInfo' = [wrappedTokenToTokenInfo EXCEPT ![a] = t]
       /\ servedToken' = [servedToken EXCEPT ![a] = t]
       /\ UNCHANGED <<wrappedAddressIsNotMintable, WETHToken>>

\* What claimAsset pays, in the order of its tests.
PayAsset(t, amount) ==
    \/ t = Ether /\ HasWETH /\ GiveWrapped(WETHToken, amount) /\ UNCHANGED mapVars
    \/ t = gasToken /\ GiveCoin(amount) /\ UNCHANGED mapVars
    \/ ~IsForeign(t) /\ GiveOwn(t, amount) /\ UNCHANGED mapVars
    \/ /\ IsForeign(t) /\ t \notin {Ether, gasToken}
       /\ LET a == tokenInfoToWrappedToken[t]
          IN \/ a = NoAddress /\ GiveWrapped(ProxyOf[t], amount) /\ DeployAndMap(t)
             \/ a # NoAddress /\ GiveWrapped(a, amount) /\ UNCHANGED mapVars

ClaimAsset(ger, globalIndex, leaf) ==
    /\ ~isEmergencyState
    /\ leaf.leafType = "asset"
    /\ VerifyLeafBridge(ger, globalIndex, leaf)
    /\ PayAsset(leaf.token, leaf.amount)
    /\ UNCHANGED <<gerVars, isEmergencyState>>

ClaimMessage(ger, globalIndex, leaf) ==
    /\ ~isEmergencyState
    /\ leaf.leafType = "message"
    /\ VerifyLeafBridge(ger, globalIndex, leaf)
    /\ \/ ~HasWETH /\ GiveCoin(leaf.amount)
       \/ HasWETH /\ GiveWrapped(WETHToken, leaf.amount)
    /\ UNCHANGED <<gerVars, mapVars, isEmergencyState>>

(***************************************************************************)
(* unsetMultipleClaims clears the bits one by one, or none. It leaves the  *)
(* local balance and the tokens that were paid as they are.                *)
(***************************************************************************)
UnsetMultipleClaims(globalIndexes) ==
    LET bits == [i \in 1..Len(globalIndexes) |-> ClaimBit(globalIndexes[i])]
    IN /\ Entries(bits) \subseteq claimedBitMap /\ IsDuplicateFree(bits) \* ClaimNotSet
       /\ claimedBitMap' = claimedBitMap \ Entries(bits)
       /\ unsetGlobalIndexHashChain' = unsetGlobalIndexHashChain \o globalIndexes
       /\ UNCHANGED <<claimedGlobalIndexHashChain, gerVars, mapVars, moneyVars,
                      exitTreeVars, isEmergencyState>>

-----------------------------------------------------------------------------
\* _setSovereignTokenAddress: the address before stays mapped to its token.
MapToken(t, a) ==
    /\ t # Ether \* InvalidZeroAddress
    /\ wrappedTokenToTokenInfo[a] = NoToken
    /\ tokenInfoToWrappedToken' = [tokenInfoToWrappedToken EXCEPT ![t] = a]
    /\ wrappedTokenToTokenInfo' = [wrappedTokenToTokenInfo EXCEPT ![a] = t]
    /\ wrappedAddressIsNotMintable' = [wrappedAddressIsNotMintable EXCEPT ![a] = a \in NotMintable]

(***************************************************************************)
(* setMultipleSovereignTokenAddress, one entry of it. The manager tells    *)
(* the truth about what is mintable, and gives no contract to two tokens.  *)
(***************************************************************************)
SetSovereignTokenAddress(t, a) ==
    /\ ~(HasWETH /\ a \in WETHTokens)
    /\ servedToken[a] \in {NoToken, t}
    /\ MapToken(t, a)
    /\ servedToken' = [servedToken EXCEPT ![a] = t]
    /\ UNCHANGED <<WETHToken, deployed, gerVars, claimVars, moneyVars, exitTreeVars,
                   isEmergencyState>>

ForgetToken(a) ==
    /\ wrappedTokenToTokenInfo' = [wrappedTokenToTokenInfo EXCEPT ![a] = NoToken]
    /\ wrappedAddressIsNotMintable' = [wrappedAddressIsNotMintable EXCEPT ![a] = FALSE]

\* Only an address that was replaced can be removed (TokenNotRemapped).
RemoveLegacySovereignTokenAddress(a) ==
    LET t == wrappedTokenToTokenInfo[a]
    IN /\ t # NoToken
       /\ tokenInfoToWrappedToken[t] \notin {NoAddress, a}
       /\ ForgetToken(a)
       /\ UNCHANGED <<tokenInfoToWrappedToken, WETHToken, deployed, servedToken, gerVars,
                      claimVars, moneyVars, exitTreeVars, isEmergencyState>>

\* _setSovereignWETHAddress; the address before is not kept.
SetWETHToken(a) ==
    /\ HasWETH
    /\ WETHToken' = a
    /\ wrappedAddressIsNotMintable' = [wrappedAddressIsNotMintable EXCEPT ![a] = a \in NotMintable]
    /\ UNCHANGED <<tokenInfoToWrappedToken, wrappedTokenToTokenInfo>>

SetSovereignWETHAddress(a) ==
    /\ SetWETHToken(a)
    /\ UNCHANGED <<deployed, servedToken, gerVars, claimVars, moneyVars, exitTreeVars,
                   isEmergencyState>>

\* A legacy wrapped token is replaced by its upgradeable proxy.
DeployWrappedTokenAndRemap(t) ==
    LET a == ProxyOf[t]
    IN /\ a \notin deployed
       /\ deployed' = deployed \cup {a}
       /\ \/ t = Ether /\ SetWETHToken(a) /\ UNCHANGED servedToken
          \/ /\ tokenInfoToWrappedToken[t] # NoAddress \* TokenNotMapped
             /\ MapToken(t, a)
             /\ servedToken' = [servedToken EXCEPT ![a] = t]
             /\ UNCHANGED WETHToken
       /\ UNCHANGED <<gerVars, claimVars, moneyVars, exitTreeVars, isEmergencyState>>

\* Seeded bug: the legacy token is not taken.
MintedOnly(a, current, amount) == [held EXCEPT ![current] = @ + amount]

Migrated(a, current, amount) == [held EXCEPT ![a] = @ - amount, ![current] = @ + amount]

(***************************************************************************)
(* migrateLegacyToken: burn or keep the legacy token, mint or pay the one  *)
(* in force. It does not look at the emergency state.                      *)
(***************************************************************************)
MigrateLegacyToken(a, amount) ==
    LET t == wrappedTokenToTokenInfo[a]
        current == tokenInfoToWrappedToken[t]
    IN /\ t # NoToken
       /\ current # a
       /\ held[a] >= amount
       /\ CanGiveWrapped(current, amount)
       /\ held' = Migrated(a, current, amount)
       /\ custody' = [custody EXCEPT
              ![a] = IF wrappedAddressIsNotMintable[a] THEN @ + amount ELSE @,
              ![current] = IF wrappedAddressIsNotMintable[current] THEN @ - amount ELSE @]
       /\ UNCHANGED <<gerVars, claimVars, mapVars, exitTreeVars, isEmergencyState>>

\* The pauser and the unpauser of this bridge.
SetEmergencyState ==
    /\ isEmergencyState' = ~isEmergencyState
    /\ UNCHANGED <<gerVars, claimVars, mapVars, moneyVars, exitTreeVars>>

-----------------------------------------------------------------------------
ListsUpToTwo(S) == {<<x>> : x \in S} \cup {<<x, y>> : x, y \in S}

ExitRootStep ==
    \/ \E ger \in GlobalExitRoots : InsertGlobalExitRoot(ger)
    \/ \E gers \in ListsUpToTwo(globalExitRootMap) : RemoveGlobalExitRoots(gers)

ClaimStep ==
    \/ \E ger \in globalExitRootMap, globalIndex \in ClaimIndexes :
           \E leaf \in Entries(ger[SourceOf(globalIndex)]) :
               ClaimAsset(ger, globalIndex, leaf) \/ ClaimMessage(ger, globalIndex, leaf)
    \/ \E globalIndexes \in ListsUpToTwo(UnsetIndexes) : UnsetMultipleClaims(globalIndexes)

ExitStep ==
    \E amount \in Amounts :
        \/ \E a \in Addresses \cup {NoAddress} : BridgeAsset(a, amount)
        \/ BridgeMessage(amount)
        \/ \E a \in Addresses : MigrateLegacyToken(a, amount)

ManagerStep ==
    \/ \E t \in Foreign : DeployWrappedTokenAndRemap(t)
    \/ \E t \in Foreign, a \in SovereignTokens : SetSovereignTokenAddress(t, a)
    \/ \E a \in Addresses : RemoveLegacySovereignTokenAddress(a)
    \/ \E a \in WETHTokens : SetSovereignWETHAddress(a)

SovereignNext ==
    /\ ExitRootStep \/ ClaimStep \/ ExitStep \/ ManagerStep \/ SetEmergencyState
    /\ UNCHANGED gasToken

SovereignSpec == SovereignInit /\ [][SovereignNext]_sovereignVars

-----------------------------------------------------------------------------
Count(list, x) == Cardinality({i \in 1..Len(list) : list[i] = x})

\* What a list of leaves is worth in a token.
Worth(leaves, t) ==
    SumFunctionOnSet([i \in 1..Len(leaves) |-> leaves[i].amount],
                     {i \in 1..Len(leaves) : leaves[i].token = t})

ClaimedLeaves == [i \in 1..Len(claimedGlobalIndexHashChain) |-> claimedGlobalIndexHashChain[i].leaf]
ClaimedIndexes ==
    [i \in 1..Len(claimedGlobalIndexHashChain) |-> claimedGlobalIndexHashChain[i].globalIndex]
UnsetBits ==
    [i \in 1..Len(unsetGlobalIndexHashChain) |-> ClaimBit(unsetGlobalIndexHashChain[i])]

(***************************************************************************)
(* The four hash chains tell the whole state: a root is known when it was  *)
(* inserted once more often than removed, and a nullifier is set when its  *)
(* exit was claimed once more often than unset. A verifier who replays the *)
(* chains ends up with the maps (insertGlobalExitRoot,                     *)
(* removeGlobalExitRoots, _verifyLeafBridge, unsetMultipleClaims).         *)
(***************************************************************************)
HashChainsAccount ==
    /\ \A ger \in GlobalExitRoots :
           Count(insertedGERHashChain, ger)
             = Count(removedGERHashChain, ger) + (IF ger \in globalExitRootMap THEN 1 ELSE 0)
    /\ \A globalIndex \in ClaimIndexes :
           LET bit == ClaimBit(globalIndex)
           IN Count(ClaimedIndexes, globalIndex)
                = Count(UnsetBits, bit) + (IF bit \in claimedBitMap THEN 1 ELSE 0)

(***************************************************************************)
(* The local balance of a foreign token is what was claimed of it, counted *)
(* again for every repeated claim, less what left, which is never more:    *)
(* messages count as ether, unsetting a claim changes nothing              *)
(* (_increaseLocalBalanceTree, _decreaseLocalBalanceTree).                 *)
(***************************************************************************)
BalanceTreeIsNet ==
    \A t \in Foreign :
        /\ localBalanceTree[t] >= 0
        /\ localBalanceTree[t] + Worth(exitTree, t) = Worth(ClaimedLeaves, t)

\* The contracts that stand for a foreign token or once did; NoAddress is the coin.
EverStoodFor(t) ==
    {a \in Addresses \cup {NoAddress} :
        \/ a = NoAddress /\ t = gasToken
        \/ a # NoAddress /\ servedToken[a] = t
        \/ t = Ether /\ HasWETH /\ a \in WETHTokens \cup {ProxyOf[Ether]}}

\* What users hold of a contract, beyond what they did before the bridge knew it and
\* what came and left as a token of this chain.
Represented ==
    [a \in Addresses \cup {NoAddress} |->
        held[a] + Worth(exitTree, a) - Initially(a) - Worth(ClaimedLeaves, a)]

(***************************************************************************)
(* Whoever holds a contract that stands for a foreign token can take it    *)
(* out: over all the contracts that stand for the token, current and       *)
(* replaced, users hold exactly the local balance, beside what existed     *)
(* before the bridge knew them and what was bridged of them as tokens of   *)
(* this chain (_bridgeWrappedAsset, migrateLegacyToken,                    *)
(* LocalBalanceTreeUnderflow).                                             *)
(***************************************************************************)
HoldersCanExit ==
    \A t \in Foreign :
        /\ \A a \in Addresses \cup {NoAddress} : TokenOf(a) = t => a \in EverStoodFor(t)
        /\ SumFunctionOnSet(Represented, EverStoodFor(t)) = localBalanceTree[t]

(***************************************************************************)
(* A contract the bridge cannot mint is never burnt or created: users and  *)
(* bridge together hold what there was, through mapping, migration and     *)
(* removal (wrappedAddressIsNotMintable).                                  *)
(***************************************************************************)
NotMintableConserved ==
    \A a \in NotMintable : held[a] + custody[a] = InitialHeld[a]

(***************************************************************************)
(* Local balance and custody cover what users hold of every contract that  *)
(* stands for a token, mintable or not, through mapping, migration and     *)
(* removal (_bridgeWrappedAsset, migrateLegacyToken).                      *)
(***************************************************************************)
HoldingsCovered == HoldersCanExit /\ NotMintableConserved

(***************************************************************************)
(* The comment of removeLegacySovereignTokenAddress: whoever holds a token *)
(* that was removed can still withdraw it. Bridging and migration both     *)
(* look up the mapping that was deleted.                                   *)
(***************************************************************************)
RemovedTokenStillWithdrawable ==
    \A a \in Addresses :
        (servedToken[a] # NoToken /\ held[a] > 0) =>
            TokenOf(a) = servedToken[a]
=============================================================================
