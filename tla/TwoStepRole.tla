---------------------------- MODULE TwoStepRole ----------------------------
(***************************************************************************)
(* The roles of the contracts that are handed over in two steps: the       *)
(* holder names a successor, who has to accept. The contracts repeat the   *)
(* two functions for every role; the copies differ in whether a successor  *)
(* may be zero (to withdraw a nomination), in whether the nomination is    *)
(* cleared when it is accepted, and in the event they emit.                *)
(***************************************************************************)
EXTENDS Naturals

CONSTANTS
    Roles,    \* the roles in use, among those below
    Accounts,
    NoAccount \* address zero

Role(name, refusesZero, clears, event) ==
    [name |-> name, refusesZero |-> refusesZero, clears |-> clears, event |-> event]

Admin == Role("admin", FALSE, FALSE, "admin")
VKeyManager == Role("vKeyManager", FALSE, TRUE, "vKeyManager")
AggchainManager == Role("aggchainManager", TRUE, TRUE, "aggchainManager")
OptimisticModeManager == Role("optimisticModeManager", TRUE, TRUE, "optimisticModeManager")
ProxiedTokensManager == Role("proxiedTokensManager", FALSE, TRUE, "proxiedTokensManager")
GlobalExitRootUpdater == Role("globalExitRootUpdater", TRUE, TRUE, "globalExitRootUpdater")
GlobalExitRootRemover == Role("globalExitRootRemover", FALSE, TRUE, "globalExitRootRemover")
EmergencyBridgePauser ==
    Role("emergencyBridgePauser", FALSE, TRUE, "emergencyBridgePauser")
EmergencyBridgeUnpauser ==
    Role("emergencyBridgeUnpauser", FALSE, TRUE, "emergencyBridgePauser")

ASSUME RoleAssumption == NoAccount \notin Accounts

VARIABLES
    holder,
    pending,
    announced, \* ghost: the holder by the last event about the role
    namedUnder \* ghost: who held the role when its last successor was named

roleVars == <<holder, pending, announced, namedUnder>>

\* A role that is left zero at the initialization stays so; the others have a holder.
RoleInit ==
    /\ holder \in [Roles -> Accounts \cup {NoAccount}]
    /\ \A r \in Roles : r.refusesZero => holder[r] # NoAccount
    /\ pending = [r \in Roles |-> NoAccount]
    /\ announced = holder
    /\ namedUnder = [r \in Roles |-> NoAccount]

TransferRole(r, caller, successor) ==
    /\ caller = holder[r]
    /\ r.refusesZero => successor # NoAccount
    /\ pending' = [pending EXCEPT ![r] = successor]
    /\ namedUnder' = [namedUnder EXCEPT ![r] = holder[r]]
    /\ UNCHANGED <<holder, announced>>

\* Seeded bug: the old holder is left as the successor of the new one.
Swapped(r) == [pending EXCEPT ![r] = holder[r]]

ClearPending(r) == IF r.clears THEN [pending EXCEPT ![r] = NoAccount] ELSE pending

\* An event about a role that is not in the model is not seen.
Announce(r) ==
    announced' = [q \in Roles |-> IF q.name = r.event THEN pending[r] ELSE announced[q]]

AcceptRole(r, caller) ==
    /\ caller = pending[r]
    /\ holder' = [holder EXCEPT ![r] = caller]
    /\ Announce(r)
    /\ pending' = ClearPending(r)
    /\ UNCHANGED namedUnder

RoleNext ==
    \E r \in Roles, caller \in Accounts :
        \/ \E successor \in Accounts \cup {NoAccount} : TransferRole(r, caller, successor)
        \/ AcceptRole(r, caller)

RoleSpec == RoleInit /\ [][RoleNext]_roleVars

-----------------------------------------------------------------------------
(***************************************************************************)
(* A role only passes to whom its present holder named: no nomination      *)
(* outlives the holder who made it, also where the accepted nomination is  *)
(* left in place (PolygonConsensusBase.acceptAdminRole), and no role is    *)
(* lost to address zero.                                                   *)
(***************************************************************************)
HandedOverByHolder ==
    [][\A r \in Roles : holder'[r] # holder[r] =>
          /\ namedUnder[r] = holder[r]
          /\ holder'[r] = pending[r]
          /\ holder'[r] # NoAccount]_roleVars

(***************************************************************************)
(* Who reads the events knows the holders ("Emitted when the pending       *)
(* emergencyBridgePauser accepts the emergencyBridgePauser role",          *)
(* BridgeL2SovereignChain.sol, and the like for the other roles).          *)
(***************************************************************************)
AnnouncedIsHolder == announced = holder
=============================================================================
