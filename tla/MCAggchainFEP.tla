--------------------------- MODULE MCAggchainFEP ---------------------------
(***************************************************************************)
(* Small instances of AggchainFEP. A selector is a version and a type, in  *)
(* the order of its bytes.                                                 *)
(***************************************************************************)
EXTENDS AggchainFEP

CONSTANTS o0, pk1, pk2, pp1, pp2

FEP == "fep"
FEPSelector == <<"v1", FEP>>
FEPAndOther == {FEPSelector, <<"v1", "ecdsa">>}

(***************************************************************************)
(* The part of the instance that is explored: intervals, block numbers and *)
(* times with one key and one route; or keys, routes and selectors of two  *)
(* types with one output to be proved, where a second route comes after    *)
(* the first is frozen.                                                    *)
(***************************************************************************)
FirstRoute == pessimisticVKeyRoutes[pp1]
SecondRoute == pessimisticVKeyRoutes[pp2]

OutputsInTime ==
    /\ \A selector \in Selectors \ {FEPSelector} :
           /\ ownedAggchainVKeys[selector] = NoKey
           /\ defaultAggchainVKeys[selector] = NoKey
    /\ SecondRoute = NoRoute
    /\ initializedVersion = 2 => ZeroHash \notin {params.aggregationVkey, params.rangeVkeyCommitment}
    /\ \A proof \in proofs : proof.vkey = pk1 /\ proof.about.to # ZeroHash

KeysAndRoutes ==
    /\ submissionInterval <= 1 /\ now <= 12 /\ Len(l2Outputs) <= 2
    /\ SecondRoute.verifier => FirstRoute.frozen /\ SecondRoute.pessimisticVKey = pk2
    /\ \A proof \in proofs : proof.about.block <= 6 /\ proof.about.to # o0

OutputsOrKeys ==
    /\ FirstRoute.pessimisticVKey = pk1
    /\ OutputsInTime \/ KeysAndRoutes
=============================================================================
