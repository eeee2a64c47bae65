--------------------------- MODULE MCBridgeSystem ---------------------------
(***************************************************************************)
(* Small instances of BridgeSystem: mainnet, rollup 1 with ether as its    *)
(* coin and, with two rollups, rollup 2 with a token of mainnet as its.    *)
(***************************************************************************)
EXTENDS BridgeSystem

CONSTANTS Coin, Erc20

TwoRollups == {1, 2}
EmptyList == <<>>

\* Coin comes from mainnet, Erc20 from rollup 1.
OriginOf == [t \in Tokens |-> IF t = Erc20 THEN 1 ELSE 0]
CoinOf == [n \in Networks |-> IF n = 2 THEN Coin ELSE Ether]
Erc20KeepsOne == [t \in Tokens |-> IF t = Erc20 THEN 1 ELSE 0]

\* Every token starts on its own network.
AtHome(n) == [n0 \in Networks |-> [t \in Tokens |-> IF OriginOf[t] = n0 THEN n ELSE 0]]
TwoAtHome == AtHome(2)

RootsOfRollups == [Rollups -> Seq(ExitLeaves)]

(***************************************************************************)
(* The part of the instance that is explored: unit amounts between three   *)
(* networks one call at a time; calls nested within each other and the     *)
(* token with a fee, between two; and mainnet's bridge sent a Coin before  *)
(* or during a call that takes another, also by the receiver of a claim.   *)
(***************************************************************************)
Sent == {Leaf(e) : e \in Exits}
OpenTransfers == {i \in 1..Len(calls) : calls[i].function = "bridgeAsset"}
NothingGiven == \A n \in Networks, t \in Tokens : given[n][t] = 0

ThreeNetworks ==
    /\ NothingGiven
    /\ Len(calls) <= 1
    /\ \A leaf \in Sent : leaf.amount = 1 /\ LeafToken(leaf) # Erc20
    /\ \A i \in OpenTransfers : calls[i].amount = 1 /\ calls[i].token # Erc20

NestedCalls ==
    /\ NothingGiven
    /\ Len(l1InfoTree) <= 3
    /\ localExitTree[2] = <<>>
    /\ \A leaf \in Sent : leaf.destinationNetwork # 2 /\ LeafToken(leaf) # Coin
    /\ \A i \in OpenTransfers : calls[i].destination # 2 /\ calls[i].token # Coin

CoinsGiven ==
    /\ ~bridgeEmergencyState /\ Len(l1InfoTree) <= 3
    /\ localExitTree[1] = <<>> /\ Cardinality(Exits) <= 2
    /\ \A leaf \in Sent : /\ leaf.destinationNetwork # 1
                          /\ LeafToken(leaf) = Coin \/ leaf.amount = 0
    /\ \A i \in OpenTransfers : calls[i].destination # 1 /\ calls[i].token = Coin

PartExplored == ThreeNetworks \/ NestedCalls \/ CoinsGiven
=============================================================================
