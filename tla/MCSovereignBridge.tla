------------------------- MODULE MCSovereignBridge -------------------------
(***************************************************************************)
(* Small instances of SovereignBridge.                                     *)
(***************************************************************************)
EXTENDS SovereignBridge

CONSTANTS Token, pEther, pToken, s1, s2

Asset(t, n) == [leafType |-> "asset", token |-> t, amount |-> n]
EtherMessage(n) == [leafType |-> "message", token |-> Ether, amount |-> n]

Proxies == [t \in Foreign |-> IF t = Ether THEN pEther ELSE pToken]

\* Mainnet and rollup 2; the chain itself is rollup 1.
TwoSources == {0, 2}
FromMainnet(leaves) == [s \in TwoSources |-> IF s = 0 THEN leaves ELSE <<>>]

\* A root with exits of both sources, one with a false exit in the first place,
\* and two to leave room for the token maps.
GoodRoot == [s \in TwoSources |-> IF s = 0 THEN <<Asset(Token, 1), EtherMessage(1)>>
                                  ELSE <<Asset(Ether, 1)>>]
FalseRoot == FromMainnet(<<Asset(Token, 2)>>)
TokenRoot == [s \in TwoSources |-> IF s = 0 THEN <<Asset(Token, 1), Asset(Token, 1)>>
                                   ELSE <<Asset(s2, 1)>>]
WETHRoot == FromMainnet(<<Asset(Ether, 1), EtherMessage(1)>>)
AllRoots == {GoodRoot, FalseRoot, TokenRoot, WETHRoot}

SomeHeld == [a \in SovereignTokens |-> IF a \in NotMintable THEN 2 ELSE 0]

(***************************************************************************)
(* The part of the instance that is explored: claims against good and      *)
(* false roots, claims that are unset and made again; or the contracts of  *)
(* one token, which replace each other, one of them also bridged as a      *)
(* token of this chain; or those of wrapped ether on a chain with another  *)
(* coin.                                                                   *)
(***************************************************************************)
ClaimsAndRoots ==
    /\ gasToken = Ether
    /\ Entries(insertedGERHashChain) \subseteq {GoodRoot, FalseRoot}
    /\ Len(exitTree) <= 1
    /\ \A a \in SovereignTokens :
           servedToken[a] = NoToken /\ custody[a] = 0 /\ held[a] = InitialHeld[a]

ReplacedContracts ==
    /\ Len(insertedGERHashChain) <= 1
    /\ Entries(insertedGERHashChain) \subseteq
           {IF gasToken = Ether THEN TokenRoot ELSE WETHRoot}
    /\ Len(claimedGlobalIndexHashChain) <= 2
    /\ unsetGlobalIndexHashChain = <<>>

ClaimsOrContracts == ClaimsAndRoots \/ ReplacedContracts
=============================================================================
