----------------------------- MODULE BatchChain -----------------------------
(***************************************************************************)
(* What a state transition rollup promises its users: one growing list of  *)
(* batches whose verified part is final.  New batches go to the end, only  *)
(* unverified batches can be taken off the end, and verification advances  *)
(* over the batches that are there.                                        *)
(***************************************************************************)
EXTENDS Naturals, Sequences

CONSTANTS Chains, Batch

VARIABLES chain, verified

vars == <<chain, verified>>

Init ==
    /\ chain = [c \in Chains |-> <<>>]
    /\ verified = [c \in Chains |-> 0]

Extend(c) ==
    /\ chain'[c] \in Seq(Batch)
    /\ Len(chain'[c]) > Len(chain[c])
    /\ SubSeq(chain'[c], 1, Len(chain[c])) = chain[c]
    /\ chain' = [chain EXCEPT ![c] = chain'[c]]
    /\ UNCHANGED verified

Truncate(c) ==
    /\ \E n \in verified[c] .. Len(chain[c]) - 1 :
          chain' = [chain EXCEPT ![c] = SubSeq(chain[c], 1, n)]
    /\ UNCHANGED verified

Verify(c) ==
    /\ \E n \in verified[c] + 1 .. Len(chain[c]) :
          verified' = [verified EXCEPT ![c] = n]
    /\ UNCHANGED chain

Next == \E c \in Chains : Extend(c) \/ Truncate(c) \/ Verify(c)

Spec == Init /\ [][Next]_vars
=============================================================================
