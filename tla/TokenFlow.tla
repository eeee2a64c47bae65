----------------------------- MODULE TokenFlow -----------------------------
(***************************************************************************)
(* What the bridges of all networks promise together: tokens leave one     *)
(* network and are paid out on another. Nothing is created, nothing is     *)
(* lost, and every payment settles an amount that is due. What is given to *)
(* a network is owed to nobody, until somebody sends it on.                *)
(***************************************************************************)
EXTENDS Naturals

CONSTANTS
    Networks,
    Tokens,
    Keeps,      \* what a network keeps of every transfer of a token it takes or pays
    InitialHeld \* what the users of each network hold of each token at first

VARIABLES
    held, \* what the users of each network hold
    due,  \* what has left another network for this one and is not paid yet
    given \* what a network was given

flowVars == <<held, due, given>>

FlowInit ==
    /\ held = InitialHeld
    /\ due = [n \in Networks |-> [t \in Tokens |-> 0]]
    /\ given = [n \in Networks |-> [t \in Tokens |-> 0]]

\* Users part with an amount, less what is kept of it.
Part(from, t, amount) ==
    /\ held[from][t] >= amount /\ amount >= Keeps[from][t]
    /\ held' = [held EXCEPT ![from][t] = @ - amount]

Send(from, to, t, amount, extra) ==
    /\ from # to
    /\ Part(from, t, amount)
    /\ given[from][t] >= extra
    /\ given' = [given EXCEPT ![from][t] = @ - extra]
    /\ due' = [due EXCEPT ![to][t] = @ + (amount - Keeps[from][t] + extra)]

Give(from, t, amount) ==
    /\ Part(from, t, amount)
    /\ given' = [given EXCEPT ![from][t] = @ + (amount - Keeps[from][t])]
    /\ UNCHANGED due

Receive(to, t, amount) ==
    /\ amount >= Keeps[to][t]
    /\ held' = [held EXCEPT ![to][t] = @ + amount - Keeps[to][t]]
    /\ due[to][t] >= amount
    /\ due' = [due EXCEPT ![to][t] = @ - amount]
    /\ UNCHANGED given

FlowNext ==
    \E n \in Networks, t \in Tokens :
        \/ \E amount \in 0..held[n][t] :
               \/ \E to \in Networks, extra \in 0..given[n][t] : Send(n, to, t, amount, extra)
               \/ Give(n, t, amount)
        \/ \E amount \in 0..due[n][t] : Receive(n, t, amount)

FlowSpec == FlowInit /\ [][FlowNext]_flowVars
=============================================================================
