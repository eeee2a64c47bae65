-------------------------- MODULE GovernanceProofs --------------------------
(***************************************************************************)
(* The handover of roles, for any roles and accounts, and the timelock,    *)
(* for any jobs, any batches and any delays.                               *)
(***************************************************************************)
EXTENDS Governance, SumProofs, SequenceTheorems

-----------------------------------------------------------------------------
(* The roles. *)

(***************************************************************************)
(* A nomination that stands was made by the holder, or has been accepted   *)
(* and left in place: the strengthening of HandedOverByHolder.             *)
(***************************************************************************)
RoleIInv ==
    /\ holder = [r \in Roles |-> holder[r]]
    /\ pending = [r \in Roles |-> pending[r]]
    /\ namedUnder = [r \in Roles |-> namedUnder[r]]
    /\ \A r \in Roles : pending[r] # NoAccount =>
           namedUnder[r] = holder[r] \/ pending[r] = holder[r]

\* What HandedOverByHolder asks of a step.
HandedOver ==
    \A r \in Roles : holder'[r] # holder[r] =>
        namedUnder[r] = holder[r] /\ holder'[r] = pending[r] /\ holder'[r] # NoAccount

LEMMA RoleIInvInit == RoleInit => RoleIInv
  BY DEF RoleInit, RoleIInv

LEMMA TransferStep ==
    ASSUME RoleIInv, NEW r, NEW caller, NEW successor, TransferRole(r, caller, successor)
    PROVE  RoleIInv' /\ HandedOver
<1>1. /\ pending' = [pending EXCEPT ![r] = successor]
      /\ namedUnder' = [namedUnder EXCEPT ![r] = holder[r]] /\ holder' = holder
  BY DEF TransferRole
<1>2. CASE r \in Roles
  BY <1>1, <1>2 DEF RoleIInv, HandedOver
<1>3. CASE r \notin Roles
  <2>1. pending' = pending /\ namedUnder' = namedUnder
    BY <1>1, <1>3 DEF RoleIInv
  <2> QED BY <1>1, <2>1 DEF RoleIInv, HandedOver
<1> QED BY <1>2, <1>3

LEMMA AcceptStep ==
    ASSUME RoleIInv, NEW r, NEW caller, caller # NoAccount, AcceptRole(r, caller)
    PROVE  RoleIInv' /\ HandedOver
<1>1. /\ holder' = [holder EXCEPT ![r] = caller] /\ caller = pending[r]
      /\ pending' = ClearPending(r) /\ namedUnder' = namedUnder
  BY DEF AcceptRole
<1>2. CASE r \notin Roles
  <2>1. holder' = holder /\ pending' = pending
    BY <1>1, <1>2 DEF RoleIInv, ClearPending
  <2> QED BY <1>1, <2>1 DEF RoleIInv, HandedOver
<1>3. CASE r \in Roles
  <2>1. HandedOver
    BY <1>1, <1>3 DEF RoleIInv, HandedOver
  <2>2. CASE r.clears
    BY <1>1, <1>3, <2>1, <2>2 DEF RoleIInv, ClearPending
  <2>3. CASE ~r.clears
    BY <1>1, <1>3, <2>1, <2>3 DEF RoleIInv, ClearPending
  <2> QED BY <2>2, <2>3
<1> QED BY <1>2, <1>3

LEMMA NoRoleStep ==
    ASSUME RoleIInv, UNCHANGED roleVars
    PROVE  RoleIInv' /\ HandedOver
  BY DEF RoleIInv, HandedOver, roleVars

LEMMA RoleIInvStep == RoleIInv /\ [RoleNext]_roleVars => RoleIInv' /\ HandedOver
<1> SUFFICES ASSUME RoleIInv, [RoleNext]_roleVars PROVE RoleIInv' /\ HandedOver
  OBVIOUS
<1>1. CASE RoleNext
  <2>1. PICK r \in Roles, caller \in Accounts :
            \/ \E successor \in Accounts \cup {NoAccount} : TransferRole(r, caller, successor)
            \/ AcceptRole(r, caller)
    BY <1>1 DEF RoleNext
  <2>2. caller # NoAccount
    BY RoleAssumption
  <2> QED BY <2>1, <2>2, TransferStep, AcceptStep
<1>2. CASE UNCHANGED roleVars
  BY <1>2, NoRoleStep
<1> QED BY <1>1, <1>2

(***************************************************************************)
(* For any roles and accounts, a role only passes to an account its        *)
(* present holder named, also where acceptAdminRole leaves the accepted    *)
(* nomination in place (PolygonConsensusBase, AggchainBase, AggchainFEP,   *)
(* the bridges and the sovereign exit root manager).                       *)
(***************************************************************************)
THEOREM RolesHandedOver == RoleSpec => HandedOverByHolder
<1>1. RoleIInv /\ [RoleNext]_roleVars =>
          [\A r \in Roles : holder'[r] # holder[r] =>
              /\ namedUnder[r] = holder[r]
              /\ holder'[r] = pending[r]
              /\ holder'[r] # NoAccount]_roleVars
  BY RoleIInvStep DEF HandedOver
<1>2. RoleSpec => []RoleIInv
  BY RoleIInvInit, RoleIInvStep, PTL DEF RoleSpec
<1> QED BY <1>1, <1>2, PTL DEF RoleSpec, HandedOverByHolder

-----------------------------------------------------------------------------
(* The calls of one transaction, one after the other. *)

\* What a transaction has done after one more call.
AfterOne(d, call, by) ==
    IF d = Reverted \/ ~Allows(d, call, by) THEN Reverted ELSE After(d, call)

\* The call that a fold from the left takes last.
Latest(T) == CHOOSE i \in T : \A j \in T : i >= j

LEMMA LatestIsLast ==
    ASSUME NEW n \in Nat, NEW T \in SUBSET (1..n), T # {}
    PROVE  Latest(T) \in T /\ \A j \in T : Latest(T) >= j
<1> DEFINE Gaps == {n - i : i \in T}
<1>1. Gaps \in SUBSET Nat /\ Gaps # {}
  OBVIOUS
<1>2. PICK m \in Gaps : \A k \in Gaps : m <= k
  <2> HIDE DEF Gaps
  <2> QED BY <1>1, LeastElement
<1>3. PICK i \in T : m = n - i
  BY <1>2
<1>4. ASSUME NEW j \in T PROVE i >= j
  <2>1. n - i <= n - j
    BY <1>2, <1>3
  <2> QED BY <2>1
<1> QED BY <1>3, <1>4 DEF Latest

\* s holds the outcome of every set of up to m of the calls.
Outcomes(s, c, calls, by, m) ==
    s = [T \in {U \in SUBSET (DOMAIN calls) : Cardinality(U) <= m} |->
            IF T = {} THEN c
            ELSE AfterOne(s[T \ {Latest(T)}], calls[Latest(T)], by)]

\* The recursive function in FoldLeft exists.
LEMMA OutcomesExist ==
    ASSUME NEW c, NEW calls, NEW by, NEW n \in Nat, DOMAIN calls = 1..n, NEW k \in Nat
    PROVE  \E s : Outcomes(s, c, calls, by, k)
<1> DEFINE Missing == {m \in Nat : ~ \E s : Outcomes(s, c, calls, by, m)}
<1>1. ASSUME NEW T \in SUBSET (DOMAIN calls) PROVE IsFiniteSet(T) /\ Cardinality(T) \in Nat
  <2>1. IsFiniteSet(DOMAIN calls)
    <3>1. IsFiniteSet(1..n)
      BY FS_Interval
    <3> QED BY <3>1
  <2> QED BY <2>1, FS_Subset, FS_CardinalityType
<1>2. ASSUME Missing # {} PROVE FALSE
  <2>1. PICK m \in Missing : \A j \in Missing : m <= j
    BY <1>2, LeastElement
  <2> DEFINE D(j) == {U \in SUBSET (DOMAIN calls) : Cardinality(U) <= j}
  <2>2. CASE m = 0
    <3> DEFINE z == [T \in D(0) |-> c]
    <3>1. \A T \in D(0) : T = {}
      BY <1>1, FS_EmptySet
    <3>2. z = [T \in D(0) |-> IF T = {} THEN c
                              ELSE AfterOne(z[T \ {Latest(T)}], calls[Latest(T)], by)]
      BY <3>1
    <3> QED BY <3>2, <2>1, <2>2 DEF Outcomes
  <2>3. CASE m # 0
    <3>1. m - 1 \in Nat /\ m - 1 \notin Missing
      BY <2>1, <2>3
    <3>2. PICK s : Outcomes(s, c, calls, by, m - 1)
      BY <3>1
    <3> DEFINE t == [T \in D(m) |-> IF T = {} THEN c
                                    ELSE AfterOne(s[T \ {Latest(T)}], calls[Latest(T)], by)]
    <3>3. ASSUME NEW U \in D(m - 1) PROVE t[U] = s[U]
      <4>1. U \in D(m)
        BY <1>1, <3>1
      <4>2. s[U] = IF U = {} THEN c
                   ELSE AfterOne(s[U \ {Latest(U)}], calls[Latest(U)], by)
        BY <3>2 DEF Outcomes
      <4> QED BY <4>1, <4>2
    <3>4. ASSUME NEW T \in D(m), T # {} PROVE T \ {Latest(T)} \in D(m - 1)
      <4>1. Latest(T) \in T
        BY <3>4, LatestIsLast
      <4>2. Cardinality(T \ {Latest(T)}) = Cardinality(T) - 1
        BY <1>1, <4>1, FS_RemoveElement
      <4>3. Cardinality(T) \in Nat /\ Cardinality(T) <= m
        BY <1>1
      <4>4. Cardinality(T \ {Latest(T)}) <= m - 1
        BY <4>2, <4>3, <3>1
      <4> QED BY <4>4
    <3>5. t = [T \in D(m) |-> IF T = {} THEN c
                              ELSE AfterOne(t[T \ {Latest(T)}], calls[Latest(T)], by)]
      <4> HIDE DEF D
      <4> QED BY <3>3, <3>4
    <3> QED BY <3>5, <2>1 DEF Outcomes
  <2> QED BY <2>2, <2>3
<1> QED BY <1>2

\* A transaction goes through its calls in order.
LEMMA TransactInOrder ==
    ASSUME NEW c, NEW calls, NEW by, NEW n \in Nat, DOMAIN calls = 1..n
    PROVE  \E state : /\ Transact(c, calls, by) = state[n]
                      /\ state[0] = c
                      /\ \A i \in 1..n : state[i] = AfterOne(state[i - 1], calls[i], by)
<1> DEFINE iter == CHOOSE s : s = [T \in SUBSET (DOMAIN calls) |->
                       IF T = {} THEN c
                       ELSE AfterOne(s[T \ {Latest(T)}], calls[Latest(T)], by)]
<1>1. Transact(c, calls, by) = iter[DOMAIN calls]
  BY DEF Transact, FoldLeft, MapThenFoldSet, Max, Latest, AfterOne
<1>2. {U \in SUBSET (DOMAIN calls) : Cardinality(U) <= n} = SUBSET (DOMAIN calls)
  <2>1. Cardinality(DOMAIN calls) = n
    BY FS_Interval
  <2> QED BY <2>1, FS_Interval, FS_Subset
<1>3. \E s : s = [T \in SUBSET (DOMAIN calls) |->
                     IF T = {} THEN c
                     ELSE AfterOne(s[T \ {Latest(T)}], calls[Latest(T)], by)]
  <2>1. PICK s : Outcomes(s, c, calls, by, n)
    BY OutcomesExist
  <2>2. s = [T \in SUBSET (DOMAIN calls) |->
                IF T = {} THEN c ELSE AfterOne(s[T \ {Latest(T)}], calls[Latest(T)], by)]
    BY <1>2, <2>1 DEF Outcomes
  <2> QED BY <2>2
<1>4. iter = [T \in SUBSET (DOMAIN calls) |->
                 IF T = {} THEN c ELSE AfterOne(iter[T \ {Latest(T)}], calls[Latest(T)], by)]
  BY <1>3
<1> HIDE DEF iter
<1> DEFINE state == [i \in 0..n |-> iter[1..i]]
<1>5. state[n] = iter[DOMAIN calls] /\ state[0] = c
  <2>1. 1..0 = {} /\ {} \in SUBSET (DOMAIN calls)
    OBVIOUS
  <2>2. iter[{}] = c
    BY <1>4, <2>1
  <2> QED BY <2>1, <2>2
<1>6. ASSUME NEW i \in 1..n PROVE state[i] = AfterOne(state[i - 1], calls[i], by)
  <2>1. 1..i \in SUBSET (DOMAIN calls) /\ i \in 1..i /\ i \in 0..n /\ i - 1 \in 0..n
    <3>1. i \in 1..i /\ i \in 0..n /\ i - 1 \in 0..n
      OBVIOUS
    <3>2. \A j \in 1..i : j \in 1..n
      OBVIOUS
    <3> QED BY <3>1, <3>2
  <2>2. Latest(1..i) = i
    <3>1. Latest(1..i) \in 1..i /\ \A j \in 1..i : Latest(1..i) >= j
      BY <2>1, LatestIsLast
    <3> QED BY <2>1, <3>1
  <2>3. (1..i) \ {i} = 1 .. i - 1
    OBVIOUS
  <2>4. iter[1..i] = AfterOne(iter[(1..i) \ {i}], calls[i], by)
    BY <1>4, <2>1, <2>2
  <2> QED BY <2>1, <2>3, <2>4
<1> QED BY <1>1, <1>5, <1>6

-----------------------------------------------------------------------------
(* The governed contracts. *)

ChainOK(c) ==
    /\ c = [vkey |-> c.vkey, route |-> c.route, setting |-> c.setting,
            optimistic |-> c.optimistic, type |-> c.type, pending |-> c.pending,
            granted |-> c.granted, delay |-> c.delay, impl |-> c.impl,
            initialized |-> c.initialized]
    /\ c.delay \in [Timelocks -> Nat]
    /\ c.type = [r \in Rollups |-> c.type[r]]
    /\ c.impl = [p \in Proxies |-> c.impl[p]]
    /\ c.initialized = [p \in Proxies |-> c.initialized[p]]

IsUpgrade(call) == Fn(call) \in {"upgrade", "upgradeAndCall"}

\* A new minimum delay is a number.
CallOK(call) == Fn(call) = "updateDelay" => Value(call) \in Nat

\* Every call a contract accepts is one that After knows.
LEMMA AllowedCalls ==
    ASSUME NEW c, NEW call, NEW by, Allows(c, call, by)
    PROVE  /\ Fn(call) \in {"addDefaultAggchainVKey", "updateDefaultAggchainVKey",
                            "unsetDefaultAggchainVKey", "addPessimisticVKeyRoute",
                            "freezePessimisticVKeyRoute", "update", "optimisticMode",
                            "updateRollup", "initMigration", "grantRole", "upgrade",
                            "upgradeAndCall", "updateDelay"}
           /\ Fn(call) = "updateDelay" => by = Timelock
           /\ IsUpgrade(call) => by = Timelock
           /\ Fn(call) = "updateRollup" => c.type[At(call)] # Value(call)
  BY DEF Allows, GatewayAllows, FEPAllows, ManagerAllows, ProxyAllows, TimelockAllows, IsUpgrade

\* What one call does to the contracts.
ChainStep(c, call, d) ==
    /\ ChainOK(d)
    /\ Fn(call) = "updateRollup" => d.type = [c.type EXCEPT ![At(call)] = Value(call)]
    /\ ~IsUpgrade(call) =>
           d.impl = c.impl /\ d.initialized = c.initialized
    /\ IsUpgrade(call) =>
           d.impl = [c.impl EXCEPT ![At(call)] = Value(call)]
    /\ Fn(call) = "upgrade" => d.initialized = c.initialized
    /\ Fn(call) = "upgradeAndCall" =>
           d.initialized = [c.initialized EXCEPT ![At(call)] = Value(call).version]

LEMMA AfterKeepsChain ==
    ASSUME NEW c, ChainOK(c), NEW call, NEW by, Allows(c, call, by),
           by = Timelock => CallOK(call)
    PROVE  ChainStep(c, call, After(c, call))
<1> DEFINE d == After(c, call)
<1>0. SUFFICES ChainStep(c, call, d)
  OBVIOUS
<1>1. CASE Fn(call) \in {"addDefaultAggchainVKey", "updateDefaultAggchainVKey",
                         "unsetDefaultAggchainVKey"}
  <2>1. d = [c EXCEPT !.vkey[At(call)] = Value(call)]
    BY <1>1 DEF After
  <2> HIDE DEF d
  <2> QED BY <1>1, <2>1 DEF ChainOK, ChainStep, IsUpgrade
<1>2. CASE Fn(call) \in {"addPessimisticVKeyRoute", "freezePessimisticVKeyRoute"}
  <2>1. d = [c EXCEPT !.route[At(call)] = Value(call)]
    BY <1>2 DEF After
  <2> HIDE DEF d
  <2> QED BY <1>2, <2>1 DEF ChainOK, ChainStep, IsUpgrade
<1>3. CASE Fn(call) = "update"
  <2>1. d = [c EXCEPT !.setting[At(call)] = Value(call)]
    BY <1>3 DEF After
  <2> HIDE DEF d
  <2> QED BY <1>3, <2>1 DEF ChainOK, ChainStep, IsUpgrade
<1>4. CASE Fn(call) = "optimisticMode"
  <2>1. d = [c EXCEPT !.optimistic = Value(call)]
    BY <1>4 DEF After
  <2> HIDE DEF d
  <2> QED BY <1>4, <2>1 DEF ChainOK, ChainStep, IsUpgrade
<1>5. CASE Fn(call) \in {"updateRollup", "initMigration"}
  <2>1. d = [c EXCEPT !.type[At(call)] = Value(call)]
    BY <1>5 DEF After
  <2> HIDE DEF d
  <2> QED BY <1>5, <2>1 DEF ChainOK, ChainStep, IsUpgrade
<1>6. CASE Fn(call) = "grantRole"
  <2>1. d = [c EXCEPT !.granted = @ \cup {<<At(call), Value(call)>>}]
    BY <1>6 DEF After
  <2> HIDE DEF d
  <2> QED BY <1>6, <2>1 DEF ChainOK, ChainStep, IsUpgrade
<1>7. CASE Fn(call) = "upgrade"
  <2>1. d = [c EXCEPT !.impl[At(call)] = Value(call)]
    BY <1>7 DEF After
  <2> HIDE DEF d
  <2> QED BY <1>7, <2>1 DEF ChainOK, ChainStep, IsUpgrade
<1>8. CASE Fn(call) = "upgradeAndCall"
  <2>1. d = [c EXCEPT !.impl[At(call)] = Value(call), !.initialized[At(call)] = Value(call).version]
    BY <1>8 DEF After
  <2> HIDE DEF d
  <2> QED BY <1>8, <2>1 DEF ChainOK, ChainStep, IsUpgrade
<1>9. CASE Fn(call) = "updateDelay"
  <2>1. d = [c EXCEPT !.delay[At(call)] = Value(call)]
    BY <1>9 DEF After
  <2>2. Value(call) \in Nat
    BY <1>9, AllowedCalls DEF CallOK
  <2> HIDE DEF d
  <2> QED BY <1>9, <2>1, <2>2 DEF ChainOK, ChainStep, IsUpgrade
<1> QED BY <1>1, <1>2, <1>3, <1>4, <1>5, <1>6, <1>7, <1>8, <1>9, AllowedCalls

\* A transaction that is not reverted accepted each of its calls.
LEMMA TransactAccepted ==
    ASSUME NEW c, ChainOK(c), NEW calls, NEW by, NEW n \in Nat, DOMAIN calls = 1..n,
           by = Timelock => \A i \in 1..n : CallOK(calls[i]),
           Transact(c, calls, by) # Reverted
    PROVE  \E state : /\ Transact(c, calls, by) = state[n] /\ state[0] = c
                      /\ \A i \in 0..n : ChainOK(state[i])
                      /\ \A i \in 1..n : /\ Allows(state[i - 1], calls[i], by)
                                         /\ ChainStep(state[i - 1], calls[i], state[i])
<1>1. PICK state : /\ Transact(c, calls, by) = state[n] /\ state[0] = c
                   /\ \A i \in 1..n : state[i] = AfterOne(state[i - 1], calls[i], by)
  BY TransactInOrder
<1>2. \A i \in 0..n : state[i] # Reverted
  <2> DEFINE Bad == {k \in Nat : k <= n /\ state[n - k] = Reverted}
  <2>1. ASSUME Bad # {} PROVE FALSE
    <3>1. PICK k \in Bad : \A j \in Bad : k <= j
      BY <2>1, LeastElement
    <3>2. k # 0
      BY <1>1, <3>1
    <3>3. n - k + 1 \in 1..n /\ (n - k + 1) - 1 = n - k /\ n - (k - 1) = n - k + 1
          /\ k - 1 \in Nat /\ k - 1 <= n
      BY <3>1, <3>2
    <3>4. state[n - k + 1] = Reverted
      BY <1>1, <3>1, <3>3 DEF AfterOne
    <3>5. k - 1 \in Bad /\ ~(k <= k - 1)
      BY <3>3, <3>4
    <3> QED BY <3>1, <3>5
  <2>2. ASSUME NEW i \in 0..n PROVE state[i] # Reverted
    <3>1. n - i \in Nat /\ n - i <= n /\ n - (n - i) = i
      OBVIOUS
    <3> QED BY <2>1, <3>1
  <2> QED BY <2>2
<1>3. ASSUME NEW i \in 1..n
      PROVE  /\ Allows(state[i - 1], calls[i], by)
             /\ state[i] = After(state[i - 1], calls[i])
  <2>1. i \in 0..n /\ state[i] = AfterOne(state[i - 1], calls[i], by)
    BY <1>1
  <2> QED BY <1>2, <2>1 DEF AfterOne
<1>4. \A i \in 0..n : ChainOK(state[i])
  <2> DEFINE Bad == {i \in Nat : i <= n /\ ~ChainOK(state[i])}
  <2>1. ASSUME Bad # {} PROVE FALSE
    <3>1. PICK i \in Bad : \A j \in Bad : i <= j
      BY <2>1, LeastElement
    <3>2. i # 0
      BY <1>1, <3>1
    <3>3. i \in 1..n /\ i - 1 \in Nat /\ i - 1 <= n /\ ~(i <= i - 1)
      BY <3>1, <3>2
    <3>4. ChainOK(state[i - 1])
      BY <3>1, <3>3
    <3>5. Allows(state[i - 1], calls[i], by) /\ state[i] = After(state[i - 1], calls[i])
      BY <1>3, <3>3
    <3>6. by = Timelock => CallOK(calls[i])
      BY <3>3
    <3>7. ChainStep(state[i - 1], calls[i], After(state[i - 1], calls[i]))
      BY <3>4, <3>5, <3>6, AfterKeepsChain
    <3>8. ChainOK(state[i])
      BY <3>5, <3>7 DEF ChainStep
    <3> QED BY <3>1, <3>8
  <2> QED BY <2>1
<1>5. ASSUME NEW i \in 1..n PROVE ChainStep(state[i - 1], calls[i], state[i])
  <2>1. i - 1 \in 0..n /\ Allows(state[i - 1], calls[i], by)
    BY <1>3
  <2>2. ChainOK(state[i - 1]) /\ (by = Timelock => CallOK(calls[i]))
    BY <1>4, <2>1
  <2> QED BY <1>3, <2>1, <2>2, AfterKeepsChain
<1> QED BY <1>1, <1>3, <1>4, <1>5

-----------------------------------------------------------------------------
(* The batch of updateRollup. *)

\* A batch of updateRollup takes its rollups to one type.
OneTarget(calls) ==
    \A i, j \in DOMAIN calls : Fn(calls[i]) = "updateRollup" =>
        /\ Fn(calls[j]) = "updateRollup" /\ Value(calls[j]) = Value(calls[i])
        /\ At(calls[j]) \in Rollups

\* A rollup that a batch has taken to its target stays there, so that each
\* rollup of the batch was elsewhere at its start and is there at its end.
LEMMA BatchTakesAll ==
    ASSUME NEW calls, NEW n \in Nat, DOMAIN calls = 1..n, OneTarget(calls),
           NEW state, \A i \in 0..n : ChainOK(state[i]),
           \A i \in 1..n : /\ Allows(state[i - 1], calls[i], Timelock)
                           /\ ChainStep(state[i - 1], calls[i], state[i]),
           NEW k \in 1..n, Fn(calls[k]) = "updateRollup"
    PROVE  /\ state[n].type[At(calls[k])] = Value(calls[k])
           /\ state[0].type[At(calls[k])] # Value(calls[k])
<1> DEFINE v == Value(calls[k])
           r == At(calls[k])
           There(i) == state[i].type[r] = v
<1>1. r \in Rollups
  BY DEF OneTarget
<1>2. ASSUME NEW i \in 1..n
      PROVE  /\ There(i - 1) => There(i)
             /\ r = At(calls[i]) => There(i) /\ ~There(i - 1)
  <2>1. /\ Fn(calls[i]) = "updateRollup" /\ Value(calls[i]) = v /\ At(calls[i]) \in Rollups
        /\ i - 1 \in 0..n
    <3>1. k \in DOMAIN calls /\ i \in DOMAIN calls
      OBVIOUS
    <3>2. i - 1 \in 0..n
      OBVIOUS
    <3> QED BY <3>1, <3>2 DEF OneTarget
  <2>2. ChainOK(state[i - 1])
    BY <2>1
  <2>3. state[i].type = [state[i - 1].type EXCEPT ![At(calls[i])] = v]
    BY <2>1 DEF ChainStep
  <2>4. state[i - 1].type[At(calls[i])] # v
    BY <2>1, AllowedCalls
  <2>5. state[i - 1].type = [q \in Rollups |-> state[i - 1].type[q]]
    BY <2>2 DEF ChainOK
  <2> HIDE DEF v, r
  <2> QED BY <1>1, <2>1, <2>3, <2>4, <2>5
<1> HIDE DEF There
<1>3. ASSUME NEW i \in 0..n, There(i), NEW j \in 0..n, i <= j PROVE There(j)
  <2> DEFINE Gone == {m \in Nat : m \in 0..n /\ i <= m /\ ~There(m)}
  <2>1. ASSUME Gone # {} PROVE FALSE
    <3>1. PICK m \in Gone : \A l \in Gone : m <= l
      BY <2>1, LeastElement
    <3>2. m # i
      BY <1>3, <3>1
    <3>3. m - 1 \in Nat /\ m - 1 \in 0..n /\ i <= m - 1 /\ ~(m <= m - 1) /\ m \in 1..n
      BY <3>1, <3>2
    <3>4. There(m - 1)
      BY <3>1, <3>3
    <3>5. There(m)
      BY <1>2, <3>3, <3>4
    <3> QED BY <3>1, <3>5
  <2> QED BY <1>3, <2>1
<1>4. There(k) /\ ~There(k - 1)
  BY <1>2
<1>5. There(n)
  <2>1. k \in 0..n /\ n \in 0..n /\ k <= n
    OBVIOUS
  <2> QED BY <1>3, <1>4, <2>1
<1>6. ~There(0)
  <2>1. 0 \in 0..n /\ k - 1 \in 0..n /\ 0 <= k - 1
    OBVIOUS
  <2> QED BY <1>3, <1>4, <2>1
<1> QED BY <1>5, <1>6 DEF There

-----------------------------------------------------------------------------
(* The upgrades. *)

\* The calls of the three upgrade scripts.
ReleaseBatch(gateway) ==
    << Call("upgradeAndCall", "manager", Release("v3", 5, gateway)),
       Call("upgradeAndCall", "bridge", Release("v3", 2, "none")),
       Call("upgrade", "exitRoots", Release("v3", 0, "none")) >>
ManagerBatch(gateway) ==
    << Call("upgradeAndCall", "manager", Release("v3", 5, gateway)) >>
SovereignBatch(run) ==
    << Call("upgrade", "sovereignBridge", Release(run, 0, "none")) >>

\* The manager was upgraded alone, for a test.
Tested(c) == c.impl["manager"].gateway = ExitRootManager

\* What upgrades the manager alone is for a test, or it has the gateway that
\* the manager had when it was written. The manager has it still, or cannot
\* be upgraded again.
GatewayFits(g, c) ==
    \/ g = ExitRootManager
    \/ /\ g # "none" /\ c.initialized["bridge"] = 2
       /\ c.impl["manager"].gateway = g \/ c.initialized["manager"] = 5

\* A batch of another tool upgrades nothing.
UpgradeFits(calls, c) ==
    \/ \A i \in DOMAIN calls : ~IsUpgrade(calls[i])
    \/ calls = ReleaseBatch(Value(calls[1]).gateway)
    \/ calls = SovereignBatch(Value(calls[1]).name)
    \/ \E g : calls = ManagerBatch(g) /\ GatewayFits(g, c)

\* The strengthening of UpgradesAgree: a manager with a gateway has a
\* bridge that cannot be initialized for the release again, or was upgraded
\* for a test and cannot be upgraded again itself.
ReleasesFit(c) ==
    /\ c.impl["bridge"].name = "v3" /\ c.impl["exitRoots"].name = "v3"
         <=> c.initialized["bridge"] = 2
    /\ c.impl["manager"].name = "v3" <=> c.initialized["manager"] = 5
    /\ c.impl["manager"].name = "v3" => c.impl["bridge"].name = "v3" \/ Tested(c)
    /\ c.impl["manager"].gateway # "none" =>
           c.initialized["bridge"] = 2 \/ (Tested(c) /\ c.initialized["manager"] = 5)

\* What becomes of the gateway, and what never changes back.
GatewayKept(c, d) ==
    /\ c.impl["manager"].gateway # "none" =>
           d.impl["manager"].gateway \in {c.impl["manager"].gateway, ExitRootManager}
    /\ d.impl["manager"].gateway # c.impl["manager"].gateway => d.initialized["manager"] = 5
    /\ c.initialized["manager"] = 5 => d.initialized["manager"] = 5
    /\ c.initialized["bridge"] = 2 => d.initialized["bridge"] = 2

LEMMA SameLength ==
    ASSUME NEW n \in Nat, NEW m \in Nat, 1..n = 1..m
    PROVE  n = m
<1>1. CASE n = 0
  <2>1. m \notin 1..m
    BY <1>1
  <2> QED BY <1>1, <2>1
<1>2. CASE m = 0
  <2>1. n \notin 1..n
    BY <1>2
  <2> QED BY <1>2, <2>1
<1>3. CASE n # 0 /\ m # 0
  <2>1. n \in 1..m /\ m \in 1..n
    BY <1>3
  <2> QED BY <2>1
<1> QED BY <1>1, <1>2, <1>3

LEMMA UpgradesFit ==
    ASSUME NEW c, ReleasesFit(c), NEW calls, UpgradeFits(calls, c),
           NEW n \in Nat, DOMAIN calls = 1..n,
           NEW state, state[0] = c, \A i \in 0..n : ChainOK(state[i]),
           \A i \in 1..n : /\ Allows(state[i - 1], calls[i], Timelock)
                           /\ ChainStep(state[i - 1], calls[i], state[i])
    PROVE  ReleasesFit(state[n]) /\ GatewayKept(c, state[n])
<1>1. CASE \A i \in DOMAIN calls : ~IsUpgrade(calls[i])
  <2> DEFINE Same(i) == state[i].impl = c.impl /\ state[i].initialized = c.initialized
             Moved == {m \in Nat : m <= n /\ ~Same(m)}
  <2>1. ASSUME Moved # {} PROVE FALSE
    <3>1. PICK m \in Moved : \A l \in Moved : m <= l
      BY <2>1, LeastElement
    <3>2. m # 0
      BY <3>1
    <3>3. m - 1 \in Nat /\ m - 1 <= n /\ ~(m <= m - 1) /\ m \in 1..n
      BY <3>1, <3>2
    <3>4. Same(m - 1)
      BY <3>1, <3>3
    <3>5. ChainStep(state[m - 1], calls[m], state[m]) /\ ~IsUpgrade(calls[m])
      BY <1>1, <3>3
    <3>6. Same(m)
      BY <3>4, <3>5 DEF ChainStep
    <3> QED BY <3>1, <3>6
  <2>2. Same(n)
    BY <2>1
  <2> QED BY <2>2 DEF ReleasesFit, GatewayKept, Tested
<1>2. CASE calls = ReleaseBatch(Value(calls[1]).gateway)
  <2> DEFINE g == Value(calls[1]).gateway
  <2>1. /\ n = 3 /\ calls[1] = Call("upgradeAndCall", "manager", Release("v3", 5, g))
        /\ calls[2] = Call("upgradeAndCall", "bridge", Release("v3", 2, "none"))
        /\ calls[3] = Call("upgrade", "exitRoots", Release("v3", 0, "none"))
    <3> HIDE DEF g
    <3>1. calls = ReleaseBatch(g)
      BY <1>2 DEF g
    <3>2. DOMAIN calls = 1..3
      BY <3>1 DEF ReleaseBatch
    <3>3. n = 3
      BY <3>2, SameLength
    <3> QED BY <3>1, <3>3 DEF ReleaseBatch
  <2> HIDE DEF g
  <2> DEFINE c1 == state[1]
             c2 == state[2]
             c3 == state[3]
  <2>2. /\ ChainStep(c, calls[1], c1) /\ ChainStep(c1, calls[2], c2)
        /\ ChainStep(c2, calls[3], c3) /\ Allows(c1, calls[2], Timelock)
        /\ Allows(c, calls[1], Timelock)
    <3>1. 1 \in 1..n /\ 2 \in 1..n /\ 3 \in 1..n /\ 1 - 1 = 0 /\ 2 - 1 = 1 /\ 3 - 1 = 2
      BY <2>1
    <3> QED BY <3>1
  <2>3. ChainOK(c) /\ state[n] = c3
    BY <2>1
  <2> HIDE DEF c1, c2, c3
  <2>4. /\ c1.impl = [c.impl EXCEPT !["manager"] = Release("v3", 5, g)]
        /\ c1.initialized = [c.initialized EXCEPT !["manager"] = 5]
    BY <2>1, <2>2 DEF ChainStep, Call, Fn, At, Value, Release, IsUpgrade
  <2>5. /\ c2.impl = [c1.impl EXCEPT !["bridge"] = Release("v3", 2, "none")]
        /\ c2.initialized = [c1.initialized EXCEPT !["bridge"] = 2]
    BY <2>1, <2>2 DEF ChainStep, Call, Fn, At, Value, Release, IsUpgrade
  <2>6. /\ c3.impl = [c2.impl EXCEPT !["exitRoots"] = Release("v3", 0, "none")]
        /\ c3.initialized = c2.initialized
    BY <2>1, <2>2 DEF ChainStep, Call, Fn, At, Value, Release, IsUpgrade
  <2>7. c1.initialized["bridge"] < 2
    <3>1. ProxyAllows(c1, calls[2], Timelock)
      BY <2>1, <2>2 DEF Allows, GatewayAllows, FEPAllows, ManagerAllows, TimelockAllows,
         Call, Fn
    <3> QED BY <2>1, <3>1 DEF ProxyAllows, Call, Fn, At, Value, Release
  <2>8. /\ c.impl = [p \in Proxies |-> c.impl[p]]
        /\ c.initialized = [p \in Proxies |-> c.initialized[p]]
    BY <2>3 DEF ChainOK
  <2>9. /\ c.initialized["bridge"] # 2 /\ c.initialized["manager"] # 5
        /\ c.impl["manager"].gateway = "none"
    <3>1. c1.initialized["bridge"] = c.initialized["bridge"]
      BY <2>4, <2>8 DEF Proxies
    <3>2. c.initialized["bridge"] # 2
      BY <2>7, <3>1
    <3>3. c.initialized["manager"] < 5
      <4>1. ProxyAllows(c, calls[1], Timelock)
        BY <2>1, <2>2 DEF Allows, GatewayAllows, FEPAllows, ManagerAllows, TimelockAllows,
           Call, Fn
      <4> QED BY <2>1, <4>1 DEF ProxyAllows, Call, Fn, At, Value, Release
    <3> QED BY <3>2, <3>3 DEF ReleasesFit
  <2>10. /\ c3.impl["manager"].name = "v3" /\ c3.impl["bridge"].name = "v3"
         /\ c3.impl["exitRoots"].name = "v3"
    BY <2>4, <2>5, <2>6, <2>8 DEF Proxies, Release
  <2>11. c3.initialized["manager"] = 5 /\ c3.initialized["bridge"] = 2
    BY <2>4, <2>5, <2>6, <2>8 DEF Proxies
  <2> QED BY <2>3, <2>9, <2>10, <2>11 DEF ReleasesFit, GatewayKept
<1>3. CASE calls = SovereignBatch(Value(calls[1]).name)
  <2> DEFINE run == Value(calls[1]).name
  <2>1. n = 1 /\ calls[1] = Call("upgrade", "sovereignBridge", Release(run, 0, "none"))
    <3> HIDE DEF run
    <3>1. calls = SovereignBatch(run)
      BY <1>3 DEF run
    <3>2. DOMAIN calls = 1..1
      BY <3>1 DEF SovereignBatch
    <3>3. n = 1
      BY <3>2, SameLength
    <3> QED BY <3>1, <3>3 DEF SovereignBatch
  <2> HIDE DEF run
  <2> DEFINE d == state[1]
  <2>2. ChainStep(c, calls[1], d) /\ ChainOK(c) /\ state[n] = d
    BY <2>1
  <2> HIDE DEF d
  <2>3. /\ d.impl = [c.impl EXCEPT !["sovereignBridge"] = Release(run, 0, "none")]
        /\ d.initialized = c.initialized
    BY <2>1, <2>2 DEF ChainStep, Call, Fn, At, Value, Release, IsUpgrade
  <2>4. c.impl = [p \in Proxies |-> c.impl[p]]
    BY <2>2 DEF ChainOK
  <2>5. \A p \in {"manager", "bridge", "exitRoots"} : d.impl[p] = c.impl[p]
    BY <2>3, <2>4 DEF Proxies
  <2> QED BY <2>2, <2>3, <2>5 DEF ReleasesFit, GatewayKept, Tested
<1>4. ASSUME NEW g, calls = ManagerBatch(g), GatewayFits(g, c)
      PROVE  ReleasesFit(state[n]) /\ GatewayKept(c, state[n])
  <2>1. n = 1 /\ calls[1] = Call("upgradeAndCall", "manager", Release("v3", 5, g))
    <3>1. DOMAIN calls = 1..1
      BY <1>4 DEF ManagerBatch
    <3>2. n = 1
      BY <3>1, SameLength
    <3> QED BY <1>4, <3>2 DEF ManagerBatch
  <2> DEFINE d == state[1]
  <2>2. /\ ChainStep(c, calls[1], d) /\ Allows(c, calls[1], Timelock)
        /\ ChainOK(c) /\ state[n] = d
    BY <2>1
  <2> HIDE DEF d
  <2>3. c.initialized["manager"] # 5
    <3>1. ProxyAllows(c, calls[1], Timelock)
      BY <2>1, <2>2 DEF Allows, GatewayAllows, FEPAllows, ManagerAllows, TimelockAllows,
         Call, Fn
    <3> QED BY <2>1, <3>1 DEF ProxyAllows, Call, Fn, At, Value, Release
  <2>4. /\ d.impl = [c.impl EXCEPT !["manager"] = Release("v3", 5, g)]
        /\ d.initialized = [c.initialized EXCEPT !["manager"] = 5]
    BY <2>1, <2>2 DEF ChainStep, Call, Fn, At, Value, Release, IsUpgrade
  <2>5. /\ c.impl = [p \in Proxies |-> c.impl[p]]
        /\ c.initialized = [p \in Proxies |-> c.initialized[p]]
    BY <2>2 DEF ChainOK
  <2>6. /\ d.impl["bridge"] = c.impl["bridge"] /\ d.impl["exitRoots"] = c.impl["exitRoots"]
        /\ d.impl["manager"].name = "v3" /\ d.impl["manager"].gateway = g
        /\ d.initialized["manager"] = 5 /\ d.initialized["bridge"] = c.initialized["bridge"]
    BY <2>4, <2>5 DEF Proxies, Release
  <2>7. \/ g = ExitRootManager
        \/ /\ g = c.impl["manager"].gateway /\ g # "none"
           /\ c.initialized["bridge"] = 2
    BY <1>4, <2>3 DEF GatewayFits
  <2> QED BY <2>2, <2>3, <2>6, <2>7 DEF ReleasesFit, GatewayKept, Tested
<1> QED BY <1>1, <1>2, <1>3, <1>4 DEF UpgradeFits

-----------------------------------------------------------------------------
(* The tools. *)

\* What each tool puts into an operation of the timelock.
BatchFits(calls, c) ==
    /\ \E n \in Nat : DOMAIN calls = 1..n
    /\ \A i \in DOMAIN calls : CallOK(calls[i])
    /\ OneTarget(calls)
    /\ UpgradeFits(calls, c)

ToolFits(tool, c) ==
    /\ tool.net \in Timelocks
    /\ \A i \in DOMAIN tool.parts : BatchFits(tool.parts[i], c)

\* A key is never the timelock.
Senders == {Key, NextManager}

SendsFit(left) ==
    /\ left \in Seq({left[i] : i \in DOMAIN left})
    /\ \A i \in DOMAIN left : left[i].by \in Senders

PlainCall(call) == Fn(call) \notin {"updateDelay", "updateRollup"} /\ ~IsUpgrade(call)

LEMMA PlainBatchFits ==
    ASSUME NEW calls, NEW n \in Nat, DOMAIN calls = 1..n,
           \A i \in DOMAIN calls : PlainCall(calls[i]), NEW c
    PROVE  BatchFits(calls, c)
  BY DEF PlainCall, BatchFits, CallOK, OneTarget, UpgradeFits

LEMMA FlattenOne ==
    ASSUME NEW s PROVE FlattenSeq(<<s>>) = s
<1> DEFINE parts == <<s>>
           flatten == CHOOSE f : f = [i \in 1..Len(parts) |->
                          IF i = 1 THEN parts[i] ELSE f[i - 1] \o parts[i]]
<1>1. Len(parts) = 1 /\ parts[1] = s /\ 1..1 = {1}
  OBVIOUS
<1>2. FlattenSeq(parts) = flatten[1]
  BY <1>1 DEF FlattenSeq
<1>3. \E f : f = [i \in 1..Len(parts) |-> IF i = 1 THEN parts[i] ELSE f[i - 1] \o parts[i]]
  <2> DEFINE f == [i \in {1} |-> s]
  <2>1. f = [i \in 1..Len(parts) |-> IF i = 1 THEN parts[i] ELSE f[i - 1] \o parts[i]]
    BY <1>1
  <2> QED BY <2>1
<1>4. flatten = [i \in 1..Len(parts) |-> IF i = 1 THEN parts[i] ELSE flatten[i - 1] \o parts[i]]
  BY <1>3
<1> HIDE DEF flatten
<1>5. flatten[1] = s
  BY <1>1, <1>4
<1> QED BY <1>2, <1>5

LEMMA FlattenTwo ==
    ASSUME NEW a, NEW b PROVE FlattenSeq(<<<<a>>, <<b>>>>) = <<a, b>>
<1> DEFINE parts == <<<<a>>, <<b>>>>
           flatten == CHOOSE f : f = [i \in 1..Len(parts) |->
                          IF i = 1 THEN parts[i] ELSE f[i - 1] \o parts[i]]
<1>1. Len(parts) = 2 /\ parts[1] = <<a>> /\ parts[2] = <<b>> /\ 1..2 = {1, 2}
  OBVIOUS
<1>2. FlattenSeq(parts) = flatten[2]
  BY <1>1 DEF FlattenSeq
<1>3. <<a>> \o <<b>> = <<a, b>>
  <2> DEFINE both == <<a>> \o <<b>>
  <2>1. /\ <<a>> \in Seq({a, b}) /\ <<b>> \in Seq({a, b})
        /\ Len(<<a>>) = 1 /\ Len(<<b>>) = 1 /\ <<a>>[1] = a /\ <<b>>[1] = b
    OBVIOUS
  <2>2. /\ both \in Seq({a, b}) /\ Len(both) = 2 /\ both[1] = a /\ both[2] = b
    BY <2>1
  <2>3. <<a, b>> \in Seq({a, b}) /\ Len(<<a, b>>) = 2 /\ <<a, b>>[1] = a /\ <<a, b>>[2] = b
    OBVIOUS
  <2> HIDE DEF both
  <2>4. \A i \in 1..2 : both[i] = <<a, b>>[i]
    BY <2>2, <2>3
  <2>5. both = <<a, b>>
    BY <2>2, <2>3, <2>4
  <2> QED BY <2>5 DEF both
<1>4. \E f : f = [i \in 1..Len(parts) |-> IF i = 1 THEN parts[i] ELSE f[i - 1] \o parts[i]]
  <2> DEFINE f == [i \in {1, 2} |-> IF i = 1 THEN <<a>> ELSE <<a, b>>]
  <2>1. f[1] = <<a>> /\ f[2] = <<a, b>>
    OBVIOUS
  <2>2. f = [i \in {1, 2} |-> IF i = 1 THEN parts[i] ELSE f[i - 1] \o parts[i]]
    <3>1. f[2 - 1] \o parts[2] = <<a, b>>
      BY <1>1, <1>3, <2>1
    <3> QED BY <1>1, <2>1, <3>1
  <2> QED BY <1>1, <2>2
<1>5. flatten = [i \in 1..Len(parts) |-> IF i = 1 THEN parts[i] ELSE flatten[i - 1] \o parts[i]]
  BY <1>4
<1> HIDE DEF flatten
<1> HIDE DEF parts
<1>6. flatten[1] = <<a>> /\ flatten[2] = flatten[1] \o <<b>>
  <2>1. 1 \in 1..Len(parts) /\ 2 \in 1..Len(parts) /\ 2 - 1 = 1
    BY <1>1
  <2>2. flatten[1] = parts[1]
    BY <1>5, <2>1
  <2>3. flatten[2] = flatten[1] \o parts[2]
    <3>1. flatten[2] = IF 2 = 1 THEN parts[2] ELSE flatten[2 - 1] \o parts[2]
      BY <1>5, <2>1, Zenon
    <3>2. 2 # 1
      OBVIOUS
    <3> QED BY <2>1, <3>1, <3>2, Zenon
  <2> QED BY <1>1, <2>2, <2>3
<1> QED BY <1>2, <1>3, <1>6 DEF parts

LEMMA OneCallFits ==
    ASSUME NEW tool, NEW call, PlainCall(call), NEW c,
           tool.net = "L1", tool.by = <<Key>>, tool.parts = <<<<call>>>>
    PROVE  /\ ToolFits(tool, c)
           /\ SendsFit(Sends(tool)) /\ Sends(tool) # << >>
<1>1. DOMAIN <<call>> = 1..1 /\ \A i \in DOMAIN <<call>> : <<call>>[i] = call
  OBVIOUS
<1>2. BatchFits(<<call>>, c)
  BY <1>1, PlainBatchFits
<1>3. ToolFits(tool, c)
  BY <1>2 DEF ToolFits, Timelocks
<1>4. FlattenSeq(tool.parts) = <<call>>
  BY FlattenOne
<1>5. Sends(tool) = <<[call |-> call, by |-> Key]>>
  BY <1>4 DEF Sends
<1>6. SendsFit(Sends(tool)) /\ Sends(tool) # << >>
  <2> DEFINE left == <<[call |-> call, by |-> Key]>>
  <2>1. DOMAIN left = {1} /\ left[1] = [call |-> call, by |-> Key]
    OBVIOUS
  <2>2. left \in Seq({left[i] : i \in DOMAIN left})
    OBVIOUS
  <2> QED BY <1>5, <2>1, <2>2 DEF SendsFit, Senders
<1> QED BY <1>3, <1>6

LEMMA TransferToolFits ==
    ASSUME NEW r, NEW c
    PROVE  /\ ToolFits(TransferTool(r), c)
           /\ SendsFit(Sends(TransferTool(r))) /\ Sends(TransferTool(r)) # << >>
<1> DEFINE a == Call("transfer", r, NextManager)
           b == Call("accept", r, 0)
           tool == TransferTool(r)
<1>1. tool.net = "L1" /\ tool.by = <<Key, NextManager>> /\ tool.parts = <<<<a>>, <<b>>>>
  BY DEF TransferTool
<1>2. PlainCall(a) /\ PlainCall(b)
  BY DEF PlainCall, IsUpgrade, Call, Fn
<1> HIDE DEF a, b, tool
<1>3. BatchFits(<<a>>, c) /\ BatchFits(<<b>>, c)
  <2>1. ASSUME NEW call, PlainCall(call) PROVE BatchFits(<<call>>, c)
    <3>1. DOMAIN <<call>> = 1..1 /\ \A i \in DOMAIN <<call>> : <<call>>[i] = call
      OBVIOUS
    <3> QED BY <2>1, <3>1, PlainBatchFits
  <2> QED BY <1>2, <2>1
<1>4. ToolFits(tool, c)
  <2>1. \A i \in DOMAIN tool.parts : tool.parts[i] = <<a>> \/ tool.parts[i] = <<b>>
    BY <1>1
  <2> QED BY <1>1, <1>3, <2>1 DEF ToolFits, Timelocks
<1>5. Sends(tool) = <<[call |-> a, by |-> Key], [call |-> b, by |-> NextManager]>>
  <2>1. FlattenSeq(tool.parts) = <<a, b>>
    BY <1>1, FlattenTwo
  <2> QED BY <1>1, <2>1 DEF Sends
<1>6. SendsFit(Sends(tool)) /\ Sends(tool) # << >>
  <2> DEFINE left == <<[call |-> a, by |-> Key], [call |-> b, by |-> NextManager]>>
  <2>1. DOMAIN left = {1, 2} /\ left[1].by = Key /\ left[2].by = NextManager
    OBVIOUS
  <2>2. left \in Seq({left[i] : i \in DOMAIN left})
    OBVIOUS
  <2> QED BY <1>5, <2>1, <2>2 DEF SendsFit, Senders
<1> QED BY <1>4, <1>6 DEF tool

LEMMA UpdateRollupsFits ==
    ASSUME NEW rollups \in Seq(Rollups), rollups # << >>, NEW type, NEW c
    PROVE  /\ ToolFits(UpdateRollups(rollups, type), c)
           /\ SendsFit(Sends(UpdateRollups(rollups, type)))
           /\ Sends(UpdateRollups(rollups, type)) # << >>
<1> DEFINE n == Len(rollups)
           calls == [i \in 1..n |-> Call("updateRollup", rollups[i], type)]
           tool == UpdateRollups(rollups, type)
<1>1. n \in Nat /\ n # 0 /\ DOMAIN rollups = 1..n /\ \A i \in 1..n : rollups[i] \in Rollups
  OBVIOUS
<1>2. tool.net = "L1" /\ tool.by = [i \in 1..n |-> Key] /\ tool.parts = <<calls>>
  BY <1>1 DEF UpdateRollups
<1>3. \A i \in 1..n : /\ Fn(calls[i]) = "updateRollup" /\ At(calls[i]) \in Rollups
                       /\ Value(calls[i]) = type
  BY <1>1 DEF Fn, At, Value, Call
<1>4. DOMAIN calls = 1..n
  OBVIOUS
<1> HIDE DEF n, calls, tool
<1>5. BatchFits(calls, c)
  BY <1>1, <1>3, <1>4 DEF BatchFits, CallOK, OneTarget, UpgradeFits, IsUpgrade
<1>6. ToolFits(tool, c)
  BY <1>2, <1>5 DEF ToolFits, Timelocks
<1>7. Sends(tool) = [i \in 1..n |-> [call |-> calls[i], by |-> Key]]
  <2>1. FlattenSeq(tool.parts) = calls
    BY <1>2, FlattenOne
  <2> QED BY <1>2, <1>4, <2>1 DEF Sends
<1>8. SendsFit(Sends(tool)) /\ Sends(tool) # << >>
  <2> DEFINE left == [i \in 1..n |-> [call |-> calls[i], by |-> Key]]
  <2>1. DOMAIN left = 1..n /\ \A i \in 1..n : left[i].by = Key
    OBVIOUS
  <2>2. left \in Seq({left[i] : i \in DOMAIN left})
    BY <1>1
  <2>3. left # << >>
    BY <1>1, <2>1
  <2> QED BY <1>7, <2>1, <2>2, <2>3 DEF SendsFit, Senders
<1> QED BY <1>6, <1>8 DEF tool

LEMMA TimelockToolFits ==
    ASSUME NEW net \in Timelocks, NEW calls, NEW c, BatchFits(calls, c)
    PROVE  ToolFits(TimelockTool(net, calls), c)
  BY DEF TimelockTool, ToolFits

LEMMA OneCallBatch ==
    ASSUME NEW call, CallOK(call), Fn(call) # "updateRollup", NEW c, UpgradeFits(<<call>>, c)
    PROVE  BatchFits(<<call>>, c)
<1>1. DOMAIN <<call>> = 1..1 /\ \A i \in DOMAIN <<call>> : <<call>>[i] = call
  OBVIOUS
<1> DEFINE calls == <<call>>
<1> HIDE DEF calls
<1>2. DOMAIN calls = 1..1 /\ \A i \in DOMAIN calls : calls[i] = call
  BY <1>1 DEF calls
<1>3. BatchFits(calls, c)
  BY <1>2 DEF BatchFits, OneTarget, calls
<1> QED BY <1>3 DEF calls

LEMMA ReleaseBatchFits ==
    ASSUME NEW gateway, NEW c PROVE BatchFits(ReleaseBatch(gateway), c)
<1> DEFINE calls == ReleaseBatch(gateway)
<1>1. DOMAIN calls = 1..3
  BY DEF ReleaseBatch
<1>2. \A i \in 1..3 : Fn(calls[i]) \in {"upgrade", "upgradeAndCall"}
  <2>1. \A i \in 1..3 : i = 1 \/ i = 2 \/ i = 3
    OBVIOUS
  <2> QED BY <2>1 DEF ReleaseBatch, Call, Fn
<1>3. Value(calls[1]).gateway = gateway
  BY DEF ReleaseBatch, Call, Value, Release
<1> HIDE DEF calls
<1>4. UpgradeFits(calls, c)
  BY <1>3 DEF UpgradeFits, calls
<1>5. BatchFits(calls, c)
  BY <1>1, <1>2, <1>4 DEF BatchFits, CallOK, OneTarget
<1> QED BY <1>5 DEF calls

\* Whatever a tool writes or sends fits, in the state it runs in.
LEMMA ToolsFit ==
    ASSUME NEW job \in Jobs, Runnable(job), ReleasesFit(chain)
    PROVE  /\ ToolFits(ToolOf(job), chain)
           /\ job.type = "EOA" =>
                  SendsFit(Sends(ToolOf(job))) /\ Sends(ToolOf(job)) # << >>
<1>0. job.tool \in ToolNames
  BY GovernanceAssumption
<1> DEFINE OneCall(tool) ==
               \E call : /\ PlainCall(call)
                         /\ tool.net = "L1" /\ tool.by = <<Key>> /\ tool.parts = <<<<call>>>>
<1> DEFINE Goal == /\ ToolFits(ToolOf(job), chain)
                   /\ job.type = "EOA" =>
                          SendsFit(Sends(ToolOf(job))) /\ Sends(ToolOf(job)) # << >>
<1>1. ASSUME OneCall(ToolOf(job)) PROVE Goal
  BY <1>1, OneCallFits
<1>2. ASSUME NEW right, NEW call, PlainCall(call),
             ToolOf(job) = GatewayTool(right, call) \/ ToolOf(job) = FEPTool(right, call)
      PROVE  Goal
  <2>1. OneCall(ToolOf(job))
    BY <1>2 DEF GatewayTool, FEPTool
  <2> QED BY <1>1, <2>1
<1> SUFFICES Goal
  OBVIOUS
<1> HIDE DEF Goal
<1>3. CASE job.tool = "addDefaultAggchainVKey"
  <2>1. ToolOf(job) = AddDefaultAggchainVKey(job.at, job.value)
    BY <1>3 DEF ToolOf
  <2> DEFINE call == Call("addDefaultAggchainVKey", job.at, job.value)
  <2>2. PlainCall(call)
    BY DEF PlainCall, IsUpgrade, Call, Fn
  <2> QED BY <1>2, <2>1, <2>2 DEF AddDefaultAggchainVKey
<1>4. CASE job.tool = "updateDefaultAggchainVKey"
  <2>1. ToolOf(job) = UpdateDefaultAggchainVKey(job.at, job.value)
    BY <1>4 DEF ToolOf
  <2> DEFINE call == Call("updateDefaultAggchainVKey", job.at, job.value)
  <2>2. PlainCall(call)
    BY DEF PlainCall, IsUpgrade, Call, Fn
  <2> QED BY <1>2, <2>1, <2>2 DEF UpdateDefaultAggchainVKey
<1>5. CASE job.tool = "unsetDefaultAggchainVKey"
  <2>1. ToolOf(job) = UnsetDefaultAggchainVKey(job.at)
    BY <1>5 DEF ToolOf
  <2> DEFINE call == Call("unsetDefaultAggchainVKey", job.at, 0)
  <2>2. PlainCall(call)
    BY DEF PlainCall, IsUpgrade, Call, Fn
  <2> QED BY <1>2, <2>1, <2>2 DEF UnsetDefaultAggchainVKey
<1>6. CASE job.tool = "addPessimisticVKeyRoute"
  <2>1. ToolOf(job) = AddPessimisticVKeyRoute(job.at)
    BY <1>6 DEF ToolOf
  <2> DEFINE call == Call("addPessimisticVKeyRoute", job.at, "live")
  <2>2. PlainCall(call)
    BY DEF PlainCall, IsUpgrade, Call, Fn
  <2> QED BY <1>2, <2>1, <2>2 DEF AddPessimisticVKeyRoute
<1>7. CASE job.tool = "freezePessimisticVKeyRoute"
  <2>1. ToolOf(job) = FreezePessimisticVKeyRoute(job.at)
    BY <1>7 DEF ToolOf
  <2> DEFINE call == Call("freezePessimisticVKeyRoute", job.at, "frozen")
  <2>2. PlainCall(call)
    BY DEF PlainCall, IsUpgrade, Call, Fn
  <2> QED BY <1>2, <2>1, <2>2 DEF FreezePessimisticVKeyRoute
<1>8. CASE job.tool = "updateSubmissionInterval"
  <2>1. ToolOf(job) = UpdateSubmissionInterval(job.value)
    BY <1>8 DEF ToolOf
  <2> DEFINE call == Call("update", "submissionInterval", job.value)
  <2>2. PlainCall(call)
    BY DEF PlainCall, IsUpgrade, Call, Fn
  <2> QED BY <1>2, <2>1, <2>2 DEF UpdateSubmissionInterval
<1>9. CASE job.tool = "updateAggregationVkey"
  <2>1. ToolOf(job) = UpdateAggregationVkey(job.value)
    BY <1>9 DEF ToolOf
  <2> DEFINE call == Call("update", "aggregationVkey", job.value)
  <2>2. PlainCall(call)
    BY DEF PlainCall, IsUpgrade, Call, Fn
  <2> QED BY <1>2, <2>1, <2>2 DEF UpdateAggregationVkey
<1>10. CASE job.tool = "updateRangeVkeyCommitment"
  <2>1. ToolOf(job) = UpdateRangeVkeyCommitment(job.value)
    BY <1>10 DEF ToolOf
  <2> DEFINE call == Call("update", "rangeVkeyCommitment", job.value)
  <2>2. PlainCall(call)
    BY DEF PlainCall, IsUpgrade, Call, Fn
  <2> QED BY <1>2, <2>1, <2>2 DEF UpdateRangeVkeyCommitment
<1>11. CASE job.tool = "updateRollupConfigHash"
  <2>1. ToolOf(job) = UpdateRollupConfigHash(job.value)
    BY <1>11 DEF ToolOf
  <2> DEFINE call == Call("update", "rollupConfigHash", job.value)
  <2>2. PlainCall(call)
    BY DEF PlainCall, IsUpgrade, Call, Fn
  <2> QED BY <1>2, <2>1, <2>2 DEF UpdateRollupConfigHash
<1>12. CASE job.tool = "changeOptimisticMode"
  <2>1. ToolOf(job) = ChangeOptimisticMode(job.value)
    BY <1>12 DEF ToolOf
  <2> DEFINE call == Call("optimisticMode", "fep", job.value)
  <2>2. PlainCall(call)
    BY DEF PlainCall, IsUpgrade, Call, Fn
  <2> QED BY <1>2, <2>1, <2>2 DEF ChangeOptimisticMode
<1>13. CASE job.tool = "transferAggchainManager"
  <2>1. ToolOf(job) = TransferTool(AggchainManager)
    BY <1>13 DEF ToolOf, TransferAggchainManager
  <2> QED BY <2>1, TransferToolFits DEF Goal
<1>14. CASE job.tool = "transferOptimisticManager"
  <2>1. ToolOf(job) = TransferTool(OptimisticModeManager)
    BY <1>14 DEF ToolOf, TransferOptimisticManager
  <2> QED BY <2>1, TransferToolFits DEF Goal
<1>15. CASE job.tool = "updateRollup"
  <2>1. ToolOf(job) = UpdateRollups(job.at, job.value)
    BY <1>15 DEF ToolOf
  <2>2. job.at \in Seq(Rollups) /\ job.at # << >>
    BY <1>15, GovernanceAssumption
  <2> QED BY <2>1, <2>2, UpdateRollupsFits DEF Goal
<1>16. CASE job.tool = "initMigration"
  <2>1. ToolOf(job) = InitMigration(job.at, job.value)
    BY <1>16 DEF ToolOf
  <2> DEFINE call == Call("initMigration", job.at, job.value)
  <2>2. PlainCall(call)
    BY DEF PlainCall, IsUpgrade, Call, Fn
  <2>3. OneCall(ToolOf(job))
    BY <2>1, <2>2 DEF InitMigration
  <2> QED BY <1>1, <2>3
<1>17. ASSUME job.tool \in {"grantRole", "changeDelayTimelock", "upgradeV3",
                           "upgradeRollupManager", "upgradeSovereignBridge"},
             NEW net \in Timelocks, NEW calls, BatchFits(calls, chain),
             ToolOf(job) = TimelockTool(net, calls)
      PROVE  Goal
  <2>1. job.type # "EOA"
    BY <1>17 DEF Runnable
  <2> QED BY <1>17, <2>1, TimelockToolFits DEF Goal
<1>18. CASE job.tool = "grantRole"
  <2> DEFINE call == Call("grantRole", job.at, job.value)
  <2>1. ToolOf(job) = TimelockTool("L1", <<call>>)
    BY <1>18 DEF ToolOf, GrantRole
  <2>2. Fn(call) = "grantRole"
    BY DEF Call, Fn
  <2> HIDE DEF call
  <2>3. UpgradeFits(<<call>>, chain)
    BY <2>2 DEF UpgradeFits, IsUpgrade
  <2>4. BatchFits(<<call>>, chain)
    BY <2>2, <2>3, OneCallBatch DEF CallOK
  <2> QED BY <1>17, <1>18, <2>1, <2>4 DEF Timelocks
<1>19. CASE job.tool = "changeDelayTimelock"
  <2> DEFINE call == Call("updateDelay", job.at, job.value)
  <2>1. ToolOf(job) = TimelockTool(job.at, <<call>>)
    BY <1>19 DEF ToolOf, ChangeDelay
  <2>2. Fn(call) = "updateDelay" /\ Value(call) \in Nat /\ job.at \in Timelocks
    BY <1>19, GovernanceAssumption DEF Call, Fn, Value
  <2> HIDE DEF call
  <2>3. UpgradeFits(<<call>>, chain)
    BY <2>2 DEF UpgradeFits, IsUpgrade
  <2>4. BatchFits(<<call>>, chain)
    BY <2>2, <2>3, OneCallBatch DEF CallOK
  <2> QED BY <1>17, <1>19, <2>1, <2>2, <2>4
<1>20. CASE job.tool = "upgradeV3"
  <2>1. ToolOf(job) = TimelockTool("L1", ReleaseBatch(job.value))
    BY <1>20 DEF ToolOf, UpgradeV3, ReleaseBatch
  <2>2. BatchFits(ReleaseBatch(job.value), chain)
    BY ReleaseBatchFits
  <2> QED BY <1>17, <1>20, <2>1, <2>2 DEF Timelocks
<1>21. CASE job.tool = "upgradeRollupManager"
  <2> DEFINE g == IF job.value THEN ExitRootManager ELSE chain.impl["manager"].gateway
             call == Call("upgradeAndCall", "manager", Release("v3", 5, g))
  <2>1. ToolOf(job) = TimelockTool("L1", <<call>>)
    BY <1>21 DEF ToolOf, UpgradeRollupManager
  <2>2. UpgradeFits(<<call>>, chain)
    <3>1. job.value \in BOOLEAN
      BY <1>21, GovernanceAssumption
    <3>2. GatewayFits(g, chain)
      BY <1>21, <3>1 DEF GatewayFits, Runnable, ReleasesFit, Tested
    <3> HIDE DEF g
    <3> QED BY <3>2 DEF UpgradeFits, ManagerBatch
  <2>3. Fn(call) = "upgradeAndCall"
    BY DEF Call, Fn
  <2> HIDE DEF call
  <2>4. BatchFits(<<call>>, chain)
    BY <2>2, <2>3, OneCallBatch DEF CallOK
  <2> QED BY <1>17, <1>21, <2>1, <2>4 DEF Timelocks
<1>22. CASE job.tool = "upgradeSovereignBridge"
  <2> DEFINE call == Call("upgrade", "sovereignBridge", Release(job.value, 0, "none"))
  <2>1. ToolOf(job) = TimelockTool("L2", <<call>>)
    BY <1>22 DEF ToolOf, UpgradeSovereignBridge
  <2>2. Fn(call) = "upgrade" /\ Value(call).name = job.value
    BY DEF Call, Fn, Value, Release
  <2>3. UpgradeFits(<<call>>, chain)
    <3>1. <<call>> = SovereignBatch(job.value) /\ <<call>>[1] = call
      BY DEF SovereignBatch
    <3> HIDE DEF call
    <3> QED BY <2>2, <3>1 DEF UpgradeFits
  <2> HIDE DEF call
  <2>4. BatchFits(<<call>>, chain)
    BY <2>2, <2>3, OneCallBatch DEF CallOK
  <2> QED BY <1>17, <1>22, <2>1, <2>4 DEF Timelocks
<1> QED BY <1>0, <1>3, <1>4, <1>5, <1>6, <1>7, <1>8, <1>9, <1>10, <1>11,
        <1>12, <1>13, <1>14, <1>15, <1>16, <1>18, <1>19, <1>20, <1>21, <1>22 DEF ToolNames

-----------------------------------------------------------------------------
(* The invariant. *)

EntryOK(entry) ==
    /\ entry \in [wait : Nat, done : BOOLEAN, waited : Nat, notice : Nat, urgent : BOOLEAN]
    /\ entry.urgent \/ entry.wait + entry.waited >= entry.notice

OperationFits(id, c) == id.net \in Timelocks /\ BatchFits(id.calls, c)

FileFits(file, c) ==
    /\ "op" \in DOMAIN file => OperationFits(file.op, c) /\ file.delay \in Nat
    /\ "calldata" \in DOMAIN file => file.by \in {Multisig, NextManager}

RunFits(run) ==
    /\ run = [left |-> run.left, checks |-> run.checks, grants |-> run.grants,
              stops |-> run.stops, phase |-> run.phase]
    /\ SendsFit(run.left)
    /\ run.phase # "idle" => run.left # << >>

ChainInv == ChainOK(chain) /\ ReleasesFit(chain) /\ emergency \in BOOLEAN
FilesInv == \A file \in prepared : FileFits(file, chain)
TimelockInv ==
    /\ timelock = [id \in DOMAIN timelock |-> timelock[id]]
    /\ \A id \in DOMAIN timelock : OperationFits(id, chain) /\ EntryOK(timelock[id])
RunsInv ==
    /\ procs = [p \in Procs |-> procs[p]]
    /\ \A p \in Procs : RunFits(procs[p])

(***************************************************************************)
(* What an operation has waited and what is left of its delay make up the  *)
(* notice it was due; what is written and not executed yet still is what   *)
(* its tool writes, in the state of now.                                   *)
(***************************************************************************)
GovIInv == ChainInv /\ FilesInv /\ TimelockInv /\ RunsInv /\ RoleIInv

\* What every step does to the contracts.
ChainMoves ==
    ChainOK(chain') /\ ReleasesFit(chain') /\ GatewayKept(chain, chain') /\ emergency' \in BOOLEAN

LEMMA FitsLater ==
    ASSUME NEW calls, NEW c, NEW d, BatchFits(calls, c), GatewayKept(c, d)
    PROVE  BatchFits(calls, d)
<1>1. ASSUME NEW g, GatewayFits(g, c) PROVE GatewayFits(g, d)
  BY <1>1 DEF GatewayFits, GatewayKept
<1>2. UpgradeFits(calls, d)
  BY <1>1 DEF BatchFits, UpgradeFits
<1> QED BY <1>2 DEF BatchFits

LEMMA OtherMove ==
    ASSUME ReleasesFit(chain), NEW d, d.impl = chain.impl, d.initialized = chain.initialized
    PROVE  ReleasesFit(d) /\ GatewayKept(chain, d)
  BY DEF ReleasesFit, GatewayKept, Tested

LEMMA SendMoves ==
    ASSUME ChainInv, NEW call, NEW by, by # Timelock, CanSend(call, by), Send(call, by)
    PROVE  ChainOK(chain') /\ ReleasesFit(chain') /\ GatewayKept(chain, chain')
<1>1. CASE Fn(call) \in {"transfer", "accept"}
  <2>1. chain' = chain
    BY <1>1 DEF Send
  <2> QED BY <2>1, OtherMove DEF ChainInv
<1>2. CASE Fn(call) \notin {"transfer", "accept"}
  <2>1. Allows(chain, call, by) /\ chain' = After(chain, call)
    BY <1>2 DEF Send, CanSend
  <2>2. ChainStep(chain, call, After(chain, call))
    BY <2>1, AfterKeepsChain DEF ChainInv
  <2>3. ~IsUpgrade(call)
    BY <2>1, AllowedCalls
  <2>4. ChainOK(chain') /\ chain'.impl = chain.impl /\ chain'.initialized = chain.initialized
    BY <2>1, <2>2, <2>3 DEF ChainStep
  <2> QED BY <2>4, OtherMove DEF ChainInv
<1> QED BY <1>1, <1>2

LEMMA ExecuteMoves ==
    ASSUME GovIInv, NEW id \in DOMAIN timelock, Execute(id)
    PROVE  /\ ChainOK(chain') /\ ReleasesFit(chain') /\ GatewayKept(chain, chain')
           /\ \A i \in DOMAIN id.calls : Fn(id.calls[i]) = "updateRollup" =>
                  /\ chain'.type[At(id.calls[i])] = Value(id.calls[i])
                  /\ chain.type[At(id.calls[i])] # Value(id.calls[i])
<1> DEFINE calls == id.calls
<1>1. ChainOK(chain) /\ ReleasesFit(chain) /\ BatchFits(calls, chain)
  BY DEF GovIInv, ChainInv, TimelockInv, OperationFits
<1>2. PICK n \in Nat : DOMAIN calls = 1..n
  BY <1>1 DEF BatchFits
<1>3. OneTarget(calls) /\ UpgradeFits(calls, chain) /\ \A i \in 1..n : CallOK(calls[i])
  BY <1>1, <1>2 DEF BatchFits
<1>4. CASE Fn(calls[1]) \in {"transfer", "accept"}
  <2>1. chain' = chain
    BY <1>4 DEF Execute, Send
  <2>2. ASSUME NEW i \in DOMAIN calls, Fn(calls[i]) = "updateRollup" PROVE FALSE
    <3>1. 1 \in DOMAIN calls
      BY <1>2
    <3> QED BY <1>3, <1>4, <2>2, <3>1 DEF OneTarget
  <2> QED BY <1>1, <2>1, <2>2, OtherMove
<1>5. CASE Fn(calls[1]) \notin {"transfer", "accept"}
  <2>1. Transact(chain, calls, Timelock) # Reverted /\ chain' = Transact(chain, calls, Timelock)
    BY <1>5 DEF Execute
  <2> HIDE DEF calls
  <2>2. PICK state : /\ Transact(chain, calls, Timelock) = state[n] /\ state[0] = chain
                     /\ \A i \in 0..n : ChainOK(state[i])
                     /\ \A i \in 1..n : /\ Allows(state[i - 1], calls[i], Timelock)
                                        /\ ChainStep(state[i - 1], calls[i], state[i])
    BY <1>1, <1>2, <1>3, <2>1, TransactAccepted
  <2>3. chain' = state[n] /\ ChainOK(state[n])
    <3>1. n \in 0..n
      OBVIOUS
    <3> QED BY <2>1, <2>2, <3>1
  <2>4. ReleasesFit(state[n]) /\ GatewayKept(chain, state[n])
    BY <1>1, <1>2, <1>3, <2>2, UpgradesFit
  <2>5. ASSUME NEW k \in DOMAIN calls, Fn(calls[k]) = "updateRollup"
        PROVE  /\ state[n].type[At(calls[k])] = Value(calls[k])
               /\ chain.type[At(calls[k])] # Value(calls[k])
    <3>1. k \in 1..n
      BY <1>2
    <3>2. /\ state[n].type[At(calls[k])] = Value(calls[k])
          /\ state[0].type[At(calls[k])] # Value(calls[k])
      BY <1>2, <1>3, <2>2, <2>5, <3>1, BatchTakesAll
    <3> QED BY <2>2, <3>2
  <2> QED BY <2>3, <2>4, <2>5 DEF calls
<1> QED BY <1>4, <1>5

-----------------------------------------------------------------------------
(* Every step keeps the invariant. *)

LEMMA ChainStepsFit ==
    ASSUME GovIInv, [Next]_vars
    PROVE  ChainMoves
<1>0. ChainOK(chain) /\ ReleasesFit(chain) /\ emergency \in BOOLEAN
  BY DEF GovIInv, ChainInv
<1>1. ASSUME UNCHANGED <<chain, emergency>> PROVE ChainMoves
  BY <1>0, <1>1, OtherMove DEF ChainMoves
<1>2. ASSUME NEW d, chain' = d, ChainOK(d), d.impl = chain.impl,
             d.initialized = chain.initialized, emergency' \in BOOLEAN
      PROVE  ChainMoves
  BY <1>0, <1>2, OtherMove DEF ChainMoves
<1>3. CASE MineGrant
  <2>1. PICK grant \in mempool : chain' = [chain EXCEPT !.granted = @ \cup {grant}]
    BY <1>3 DEF MineGrant
  <2> DEFINE d == [chain EXCEPT !.granted = @ \cup {grant}]
  <2>2. d = [chain EXCEPT !.granted = @ \cup {grant}] /\ chain' = d
    BY <2>1
  <2> HIDE DEF d
  <2>3. ChainOK(d) /\ d.impl = chain.impl /\ d.initialized = chain.initialized
    BY <1>0, <2>2 DEF ChainOK
  <2>4. emergency' \in BOOLEAN
    BY <1>0, <1>3 DEF MineGrant
  <2> QED BY <1>2, <2>2, <2>3, <2>4
<1>4. CASE Turn
  <2>1. CASE emergency' = ~emergency /\ UNCHANGED chain
    BY <1>0, <1>2, <2>1
  <2>2. CASE UNCHANGED emergency /\ \E r \in Rollups : chain' = [chain EXCEPT !.pending[r] = ~@]
    <3>1. PICK r \in Rollups : chain' = [chain EXCEPT !.pending[r] = ~@]
      BY <2>2
    <3> DEFINE d == [chain EXCEPT !.pending[r] = ~@]
    <3>2. ChainOK(d) /\ d.impl = chain.impl /\ d.initialized = chain.initialized
      BY <1>0 DEF ChainOK
    <3> QED BY <1>0, <1>2, <2>2, <3>1, <3>2
  <2> QED BY <1>4, <2>1, <2>2 DEF Turn
<1>5. ASSUME NEW p \in Procs, SendNext(p) PROVE ChainMoves
  <2> DEFINE left == procs[p].left
             next == Head(left)
  <2>1. emergency' \in BOOLEAN
    BY <1>0, <1>5 DEF SendNext
  <2>2. CASE CanSend(next.call, next.by)
    <3>1. RunFits(procs[p]) /\ procs[p].phase = "send"
      BY <1>5 DEF GovIInv, RunsInv, SendNext
    <3>2. left \in Seq({left[i] : i \in DOMAIN left}) /\ left # << >>
      BY <3>1 DEF RunFits, SendsFit
    <3>3. next = left[1] /\ 1 \in DOMAIN left
      <4> HIDE DEF left
      <4> QED BY <3>2
    <3>4. next.by # Timelock
      <4>1. next.by \in Senders
        BY <3>1, <3>3 DEF RunFits, SendsFit
      <4> QED BY <4>1 DEF Senders, Key, NextManager, Timelock
    <3>5. Send(next.call, next.by)
      BY <1>5, <2>2 DEF SendNext
    <3> HIDE DEF next
    <3> QED BY <2>1, <2>2, <3>4, <3>5, SendMoves DEF ChainMoves, GovIInv
  <2>3. CASE ~CanSend(next.call, next.by)
    <3>1. UNCHANGED <<chain, emergency>>
      BY <1>5, <2>3 DEF SendNext
    <3> QED BY <1>1, <3>1
  <2> QED BY <2>2, <2>3
<1>6. ASSUME NEW file \in prepared, SendCalldata(file) PROVE ChainMoves
  <2>1. file.by # Timelock /\ CanSend(file.calldata, file.by) /\ Send(file.calldata, file.by)
    BY <1>6 DEF SendCalldata, GovIInv, FilesInv, FileFits, Multisig, NextManager, Timelock
  <2>2. emergency' \in BOOLEAN
    BY <1>0, <1>6 DEF SendCalldata
  <2> QED BY <2>1, <2>2, SendMoves DEF ChainMoves, GovIInv
<1>7. ASSUME NEW id \in DOMAIN timelock, Execute(id) PROVE ChainMoves
  <2>1. emergency' \in BOOLEAN
    BY <1>0, <1>7 DEF Execute
  <2> QED BY <1>7, <2>1, ExecuteMoves DEF ChainMoves
<1>8. CASE Write \/ Tick
  BY <1>1, <1>8 DEF Write, Tick
<1>9. ASSUME NEW p \in Procs, Begin(p) \/ CheckRight(p) \/ Crash(p) PROVE ChainMoves
  BY <1>1, <1>9 DEF Begin, CheckRight, Crash
<1>10. ASSUME NEW file \in prepared, Schedule(file) PROVE ChainMoves
  BY <1>1, <1>10 DEF Schedule
<1>11. CASE UNCHANGED vars
  BY <1>1, <1>11 DEF vars
<1> QED BY <1>3, <1>4, <1>5, <1>6, <1>7, <1>8, <1>9, <1>10, <1>11 DEF Next

LEMMA FilesStay ==
    ASSUME GovIInv, ChainMoves, prepared' \subseteq prepared
    PROVE  FilesInv'
<1>1. ASSUME NEW file \in prepared PROVE FileFits(file, chain')
  <2>1. FileFits(file, chain)
    BY DEF GovIInv, FilesInv
  <2> QED BY <2>1, FitsLater DEF FileFits, OperationFits, ChainMoves
<1> QED BY <1>1 DEF FilesInv

LEMMA WriteStep ==
    ASSUME GovIInv, Write
    PROVE  FilesInv'
<1>1. PICK job \in Jobs : Runnable(job) /\ prepared' = prepared \cup Written(job)
  BY DEF Write
<1>2. chain' = chain
  BY DEF Write
<1> DEFINE tool == ToolOf(job)
<1>3. ToolFits(tool, chain)
  BY <1>1, ToolsFit DEF GovIInv, ChainInv
<1>4. DelayOf(job) \in Nat
  <2>1. job.delay \in Nat
    BY GovernanceAssumption
  <2>2. tool.net \in Timelocks
    BY <1>3 DEF ToolFits
  <2>3. chain.delay[tool.net] \in Nat
    BY <2>2 DEF GovIInv, ChainInv, ChainOK
  <2> HIDE DEF tool
  <2>4. GetMinDelay(tool.net) \in Nat
    BY <2>3 DEF GetMinDelay
  <2> QED BY <2>1, <2>4 DEF DelayOf, tool
<1> HIDE DEF tool
<1>5. ASSUME NEW file \in Written(job) PROVE FileFits(file, chain)
  <2>1. CASE job.type = "Timelock"
    <3>1. PICK i \in DOMAIN tool.parts :
              file = [op |-> Operation(tool.net, tool.parts[i], job.predecessor, job.salt),
                      delay |-> DelayOf(job)]
      BY <2>1 DEF Written, tool
    <3>2. BatchFits(tool.parts[i], chain) /\ tool.net \in Timelocks
      BY <1>3 DEF ToolFits
    <3>3. file.op.net = tool.net /\ file.op.calls = tool.parts[i] /\ file.delay = DelayOf(job)
      BY <3>1 DEF Operation
    <3>4. "calldata" \notin DOMAIN file
      BY <3>1
    <3> QED BY <1>4, <3>2, <3>3, <3>4 DEF FileFits, OperationFits
  <2>2. CASE job.type # "Timelock"
    <3>1. PICK i \in DOMAIN tool.parts, j \in DOMAIN tool.parts[1] :
              file = [calldata |-> tool.parts[i][j],
                      by |-> IF i = 1 THEN Multisig ELSE NextManager]
      BY <2>2 DEF Written, tool
    <3>2. "op" \notin DOMAIN file /\ file.by \in {Multisig, NextManager}
      BY <3>1
    <3> QED BY <3>2 DEF FileFits
  <2> QED BY <2>1, <2>2
<1> QED BY <1>1, <1>2, <1>5 DEF GovIInv, FilesInv

LEMMA FilesStep ==
    ASSUME GovIInv, [Next]_vars, ChainMoves
    PROVE  FilesInv'
<1>1. CASE Write
  BY <1>1, WriteStep
<1>2. CASE MineGrant \/ Tick \/ Turn
  BY <1>2, FilesStay DEF MineGrant, Tick, Turn
<1>3. ASSUME NEW p \in Procs, Begin(p) \/ CheckRight(p) \/ SendNext(p) \/ Crash(p)
      PROVE  FilesInv'
  BY <1>3, FilesStay DEF Begin, CheckRight, SendNext, Crash
<1>4. ASSUME NEW file \in prepared, SendCalldata(file) \/ Schedule(file) PROVE FilesInv'
  BY <1>4, FilesStay DEF SendCalldata, Schedule
<1>5. ASSUME NEW id \in DOMAIN timelock, Execute(id) PROVE FilesInv'
  BY <1>5, FilesStay DEF Execute
<1>6. CASE UNCHANGED vars
  BY <1>6, FilesStay DEF vars
<1> QED BY <1>1, <1>2, <1>3, <1>4, <1>5, <1>6 DEF Next

LEMMA TimelockStays ==
    ASSUME GovIInv, ChainMoves, UNCHANGED timelock
    PROVE  TimelockInv'
<1>1. ASSUME NEW id \in DOMAIN timelock PROVE OperationFits(id, chain')
  <2>1. OperationFits(id, chain)
    BY DEF GovIInv, TimelockInv
  <2> QED BY <2>1, FitsLater DEF OperationFits, ChainMoves
<1> QED BY <1>1 DEF GovIInv, TimelockInv

LEMMA ScheduleStep ==
    ASSUME GovIInv, NEW file \in prepared, Schedule(file)
    PROVE  TimelockInv'
<1>1. /\ "op" \in DOMAIN file /\ file.op \notin DOMAIN timelock
      /\ file.delay >= GetMinDelay(file.op.net) /\ chain' = chain
  BY DEF Schedule
<1>2. OperationFits(file.op, chain) /\ file.delay \in Nat
  BY <1>1 DEF GovIInv, FilesInv, FileFits
<1> DEFINE entry == [wait |-> file.delay, done |-> FALSE, waited |-> 0,
                     notice |-> chain.delay[file.op.net],
                     urgent |-> emergency /\ file.op.net = "L1"]
<1>3. timelock' = [id \in DOMAIN timelock \cup {file.op} |->
                      IF id = file.op THEN entry ELSE timelock[id]]
  BY DEF Schedule
<1>4. EntryOK(entry)
  <2>1. chain.delay[file.op.net] \in Nat
    BY <1>2 DEF OperationFits, GovIInv, ChainInv, ChainOK
  <2>2. emergency \in BOOLEAN
    BY DEF GovIInv, ChainInv
  <2>3. entry \in [wait : Nat, done : BOOLEAN, waited : Nat, notice : Nat, urgent : BOOLEAN]
    BY <1>2, <2>1, <2>2
  <2>4. entry.urgent = (emergency /\ file.op.net = "L1")
    OBVIOUS
  <2>5. CASE ~(emergency /\ file.op.net = "L1")
    <3>1. GetMinDelay(file.op.net) = chain.delay[file.op.net]
      BY <2>5 DEF GetMinDelay
    <3>2. entry.wait = file.delay /\ entry.waited = 0 /\ entry.notice = chain.delay[file.op.net]
      OBVIOUS
    <3>3. entry.wait + entry.waited >= entry.notice
      <4> HIDE DEF entry
      <4> QED BY <1>1, <1>2, <2>1, <3>1, <3>2
    <3> QED BY <2>3, <3>3 DEF EntryOK
  <2>6. CASE emergency /\ file.op.net = "L1"
    BY <2>3, <2>4, <2>6 DEF EntryOK
  <2> QED BY <2>5, <2>6
<1> HIDE DEF entry
<1>5. /\ DOMAIN timelock' = DOMAIN timelock \cup {file.op}
      /\ timelock' = [id \in DOMAIN timelock' |-> timelock'[id]]
      /\ timelock'[file.op] = entry
      /\ \A id \in DOMAIN timelock : timelock'[id] = timelock[id]
  BY <1>1, <1>3
<1> QED BY <1>1, <1>2, <1>4, <1>5 DEF GovIInv, TimelockInv

LEMMA TickStep ==
    ASSUME GovIInv, Tick
    PROVE  TimelockInv'
<1> DEFINE Next1(e) == IF e.wait > 0 THEN [e EXCEPT !.wait = @ - 1, !.waited = @ + 1] ELSE e
<1>1. timelock' = [id \in DOMAIN timelock |-> Next1(timelock[id])] /\ chain' = chain
  BY DEF Tick
<1>2. ASSUME NEW e, EntryOK(e) PROVE EntryOK(Next1(e))
  <2>1. CASE e.wait > 0
    <3> DEFINE f == [e EXCEPT !.wait = @ - 1, !.waited = @ + 1]
    <3>1. /\ e \in [wait : Nat, done : BOOLEAN, waited : Nat, notice : Nat, urgent : BOOLEAN]
          /\ e.urgent \/ e.wait + e.waited >= e.notice
      BY <1>2 DEF EntryOK
    <3>2. e.wait \in Nat /\ e.waited \in Nat /\ e.notice \in Nat
      BY <3>1
    <3>3. e.wait - 1 \in Nat /\ e.waited + 1 \in Nat
      BY <2>1, <3>2
    <3>4. /\ f \in [wait : Nat, done : BOOLEAN, waited : Nat, notice : Nat, urgent : BOOLEAN]
          /\ f.wait = e.wait - 1 /\ f.waited = e.waited + 1 /\ f.notice = e.notice
          /\ f.urgent = e.urgent
      BY <3>1, <3>3
    <3>5. (e.wait - 1) + (e.waited + 1) = e.wait + e.waited
      BY <3>2
    <3>6. Next1(e) = f
      BY <2>1
    <3> HIDE DEF f, Next1
    <3> QED BY <3>1, <3>4, <3>5, <3>6 DEF EntryOK
  <2>2. CASE ~(e.wait > 0)
    BY <1>2, <2>2
  <2> QED BY <2>1, <2>2
<1> HIDE DEF Next1
<1> QED BY <1>1, <1>2 DEF GovIInv, TimelockInv

LEMMA ExecuteStep ==
    ASSUME GovIInv, ChainMoves, NEW id \in DOMAIN timelock, Execute(id)
    PROVE  TimelockInv'
<1>1. timelock' = [timelock EXCEPT ![id].done = TRUE]
  BY DEF Execute
<1> DEFINE entry == [timelock[id] EXCEPT !.done = TRUE]
<1>2. EntryOK(entry)
  <2> DEFINE e == timelock[id]
  <2>1. EntryOK(e)
    BY DEF GovIInv, TimelockInv
  <2> HIDE DEF e
  <2>2. EntryOK([e EXCEPT !.done = TRUE])
    BY <2>1 DEF EntryOK
  <2> QED BY <2>2 DEF e
<1>3. ASSUME NEW other \in DOMAIN timelock PROVE OperationFits(other, chain')
  <2>1. OperationFits(other, chain)
    BY DEF GovIInv, TimelockInv
  <2> QED BY <2>1, FitsLater DEF OperationFits, ChainMoves
<1>4. timelock' = [timelock EXCEPT ![id] = entry]
  BY <1>1
<1> HIDE DEF entry
<1> QED BY <1>2, <1>3, <1>4 DEF GovIInv, TimelockInv

LEMMA TimelockStep ==
    ASSUME GovIInv, [Next]_vars, ChainMoves
    PROVE  TimelockInv'
<1>1. CASE Tick
  BY <1>1, TickStep
<1>2. CASE Write \/ MineGrant \/ Turn
  BY <1>2, TimelockStays DEF Write, MineGrant, Turn
<1>3. ASSUME NEW p \in Procs, Begin(p) \/ CheckRight(p) \/ SendNext(p) \/ Crash(p)
      PROVE  TimelockInv'
  BY <1>3, TimelockStays DEF Begin, CheckRight, SendNext, Crash
<1>4. ASSUME NEW file \in prepared, SendCalldata(file) PROVE TimelockInv'
  BY <1>4, TimelockStays DEF SendCalldata
<1>5. ASSUME NEW file \in prepared, Schedule(file) PROVE TimelockInv'
  BY <1>5, ScheduleStep
<1>6. ASSUME NEW id \in DOMAIN timelock, Execute(id) PROVE TimelockInv'
  BY <1>6, ExecuteStep
<1>7. CASE UNCHANGED vars
  BY <1>7, TimelockStays DEF vars
<1> QED BY <1>1, <1>2, <1>3, <1>4, <1>5, <1>6, <1>7 DEF Next

\* A run that has begun is over or has calls left.
LEMMA RunsStep ==
    ASSUME GovIInv, [Next]_vars
    PROVE  RunsInv'
<1>1. procs = [p \in Procs |-> procs[p]] /\ \A p \in Procs : RunFits(procs[p])
  BY DEF GovIInv, RunsInv
<1>2. ASSUME UNCHANGED procs PROVE RunsInv'
  BY <1>1, <1>2 DEF RunsInv
<1>3. ASSUME NEW p \in Procs, NEW run, RunFits(run), procs' = [procs EXCEPT ![p] = run]
      PROVE  RunsInv'
  BY <1>1, <1>3 DEF RunsInv
<1>4. RunFits(NoRun)
  BY DEF NoRun, RunFits, SendsFit
<1>5. ASSUME NEW p \in Procs, Begin(p) PROVE RunsInv'
  <2>1. PICK job \in Jobs :
            /\ job.type = "EOA" /\ Runnable(job)
            /\ procs' = [procs EXCEPT ![p] =
                            [left |-> Sends(ToolOf(job)), checks |-> ToolOf(job).checks,
                             grants |-> ToolOf(job).grants, stops |-> ToolOf(job).stops,
                             phase |-> "check"]]
    BY <1>5 DEF Begin
  <2> DEFINE tool == ToolOf(job)
             run == [left |-> Sends(tool), checks |-> tool.checks, grants |-> tool.grants,
                     stops |-> tool.stops, phase |-> "check"]
  <2>2. SendsFit(Sends(tool)) /\ Sends(tool) # << >>
    BY <2>1, ToolsFit DEF GovIInv, ChainInv
  <2>3. RunFits(run)
    <3> HIDE DEF tool
    <3> QED BY <2>2 DEF RunFits
  <2> HIDE DEF tool
  <2>4. procs' = [procs EXCEPT ![p] = run]
    BY <2>1 DEF tool
  <2> QED BY <1>3, <2>3, <2>4
<1>6. ASSUME NEW p \in Procs, CheckRight(p) PROVE RunsInv'
  <2> DEFINE run == procs[p]
  <2>1. RunFits(run) /\ run.phase = "check"
    BY <1>1, <1>6 DEF CheckRight
  <2> HIDE DEF run
  <2>2. RunFits([run EXCEPT !.phase = "send"])
    BY <2>1 DEF RunFits
  <2>3. \/ procs' = [procs EXCEPT ![p] = [run EXCEPT !.phase = "send"]]
        \/ procs' = [procs EXCEPT ![p] = NoRun]
    BY <1>6 DEF CheckRight, run
  <2> QED BY <1>3, <1>4, <2>2, <2>3
<1>7. ASSUME NEW p \in Procs, SendNext(p) PROVE RunsInv'
  <2> DEFINE run == procs[p]
  <2>1. RunFits(run) /\ run.phase = "send"
    BY <1>1, <1>7 DEF SendNext
  <2>2. procs' = [procs EXCEPT ![p] = Rest(run)] \/ procs' = [procs EXCEPT ![p] = NoRun]
    BY <1>7 DEF SendNext
  <2> HIDE DEF run
  <2>3. RunFits(Rest(run))
    <3> DEFINE left == run.left
               rest == Tail(left)
               S == {left[i] : i \in DOMAIN left}
               phase == IF run.stops THEN "send" ELSE "check"
    <3>1. left \in Seq(S) /\ left # << >> /\ \A i \in DOMAIN left : left[i].by \in Senders
      BY <2>1 DEF RunFits, SendsFit
    <3>2. CASE Len(left) = 1
      BY <1>4, <3>2 DEF Rest
    <3>3. CASE Len(left) # 1
      <4>1. Rest(run) = [run EXCEPT !.left = rest, !.phase = phase]
        BY <3>3 DEF Rest
      <4> HIDE DEF left, S
      <4> DEFINE m == Len(left) - 1
      <4>2. m \in Nat /\ m # 0 /\ \A i \in 1..m : i + 1 \in DOMAIN left
        <5>1. Len(left) \in Nat /\ Len(left) # 0 /\ DOMAIN left = 1..Len(left)
          BY <3>1
        <5> QED BY <3>3, <5>1
      <4>3. rest \in Seq(S) /\ DOMAIN rest = 1..m /\ \A i \in 1..m : rest[i] = left[i + 1]
        BY <3>1, HeadTailProperties, LenProperties
      <4> HIDE DEF rest, m
      <4>4. rest \in Seq({rest[i] : i \in DOMAIN rest}) /\ rest # << >>
        <5>1. rest = [i \in 1..m |-> rest[i]]
          BY <4>3
        <5> QED BY <4>2, <4>3, <5>1
      <4>5. SendsFit(rest)
        BY <3>1, <4>2, <4>3, <4>4 DEF SendsFit
      <4> HIDE DEF phase
      <4> QED BY <2>1, <4>1, <4>4, <4>5 DEF RunFits
    <3> QED BY <3>2, <3>3
  <2> QED BY <1>3, <1>4, <2>2, <2>3
<1>8. ASSUME NEW p \in Procs, Crash(p) PROVE RunsInv'
  BY <1>3, <1>4, <1>8 DEF Crash
<1>9. CASE Write \/ MineGrant \/ Tick \/ Turn
  BY <1>2, <1>9 DEF Write, MineGrant, Tick, Turn
<1>10. ASSUME NEW file \in prepared, SendCalldata(file) \/ Schedule(file) PROVE RunsInv'
  BY <1>2, <1>10 DEF SendCalldata, Schedule
<1>11. ASSUME NEW id \in DOMAIN timelock, Execute(id) PROVE RunsInv'
  BY <1>2, <1>11 DEF Execute
<1>12. CASE UNCHANGED vars
  BY <1>2, <1>12 DEF vars
<1> QED BY <1>5, <1>6, <1>7, <1>8, <1>9, <1>10, <1>11, <1>12 DEF Next

\* Calls are sent by accounts, never by address zero.
LEMMA SendRoles ==
    ASSUME RoleIInv, NEW call, NEW by \in {Key, NextManager, Timelock, Multisig},
           CanSend(call, by), Send(call, by)
    PROVE  RoleIInv' /\ HandedOver
<1>1. by # NoAccount
  BY GovernanceAssumption, RoleAssumption
<1>2. \/ TransferRole(At(call), by, Value(call))
      \/ AcceptRole(At(call), by)
      \/ UNCHANGED roleVars
  BY DEF Send
<1> QED BY <1>1, <1>2, TransferStep, AcceptStep, NoRoleStep

LEMMA RolesStep ==
    ASSUME GovIInv, [Next]_vars
    PROVE  RoleIInv' /\ HandedOver
<1>0. RoleIInv
  BY DEF GovIInv
<1>1. ASSUME NEW p \in Procs, SendNext(p) PROVE RoleIInv' /\ HandedOver
  <2> DEFINE left == procs[p].left
             S == {left[i] : i \in DOMAIN left}
             next == Head(left)
  <2>1. CASE CanSend(next.call, next.by)
    <3>1. Send(next.call, next.by)
      BY <1>1, <2>1 DEF SendNext
    <3>2. RunFits(procs[p]) /\ procs[p].phase = "send"
      BY <1>1 DEF GovIInv, RunsInv, SendNext
    <3>3. left \in Seq(S) /\ left # << >> /\ \A i \in DOMAIN left : left[i].by \in Senders
      BY <3>2 DEF RunFits, SendsFit
    <3>4. next.by \in Senders
      <4> HIDE DEF left, S
      <4>1. next = left[1] /\ 1 \in DOMAIN left
        BY <3>3
      <4> QED BY <3>3, <4>1
    <3> HIDE DEF next
    <3> QED BY <1>0, <2>1, <3>1, <3>4, SendRoles DEF Senders
  <2>2. CASE ~CanSend(next.call, next.by)
    BY <1>0, <1>1, <2>2, NoRoleStep DEF SendNext
  <2> QED BY <2>1, <2>2
<1>2. ASSUME NEW file \in prepared, SendCalldata(file) PROVE RoleIInv' /\ HandedOver
  <2>1. CanSend(file.calldata, file.by) /\ Send(file.calldata, file.by)
    BY <1>2 DEF SendCalldata
  <2>2. file.by \in {Multisig, NextManager}
    BY <1>2 DEF SendCalldata, GovIInv, FilesInv, FileFits
  <2> QED BY <1>0, <2>1, <2>2, SendRoles
<1>3. ASSUME NEW id \in DOMAIN timelock, Execute(id) PROVE RoleIInv' /\ HandedOver
  <2>1. \/ CanSend(id.calls[1], Timelock) /\ Send(id.calls[1], Timelock)
        \/ UNCHANGED roleVars
    BY <1>3 DEF Execute
  <2> QED BY <1>0, <2>1, SendRoles, NoRoleStep
<1>4. CASE Write \/ MineGrant \/ Tick \/ Turn
  BY <1>0, <1>4, NoRoleStep DEF Write, MineGrant, Tick, Turn
<1>5. ASSUME NEW p \in Procs, Begin(p) \/ CheckRight(p) \/ Crash(p)
      PROVE  RoleIInv' /\ HandedOver
  BY <1>0, <1>5, NoRoleStep DEF Begin, CheckRight, Crash
<1>6. ASSUME NEW file \in prepared, Schedule(file) PROVE RoleIInv' /\ HandedOver
  BY <1>0, <1>6, NoRoleStep DEF Schedule
<1>7. CASE UNCHANGED vars
  BY <1>0, <1>7, NoRoleStep DEF vars
<1> QED BY <1>1, <1>2, <1>3, <1>4, <1>5, <1>6, <1>7 DEF Next

LEMMA GovIInvInit == Init => GovIInv
<1> SUFFICES ASSUME Init PROVE GovIInv
  OBVIOUS
<1>1. PICK first \in FirstReleases : chain =
          [vkey |-> [s \in Selectors |-> 0], route |-> [s \in Selectors |-> "none"],
           setting |-> [s \in Settings |-> 0], optimistic |-> FALSE,
           type |-> [r \in Rollups |-> 1], pending |-> [r \in Rollups |-> FALSE],
           granted |-> Grants, delay |-> FirstDelay,
           impl |-> first,
           initialized |-> [proxy \in Proxies |-> first[proxy].version]]
  BY DEF Init
<1>2. /\ chain.type = [r \in Rollups |-> 1] /\ chain.delay = FirstDelay
      /\ chain.impl = first
      /\ chain.initialized = [proxy \in Proxies |-> first[proxy].version]
  BY <1>1
<1>3. ChainOK(chain)
  <2>1. first = [proxy \in Proxies |-> first[proxy]] /\ FirstDelay \in [Timelocks -> Nat]
    BY GovernanceAssumption, ReleaseAssumption
  <2>2. chain = [vkey |-> chain.vkey, route |-> chain.route, setting |-> chain.setting,
                 optimistic |-> chain.optimistic, type |-> chain.type,
                 pending |-> chain.pending, granted |-> chain.granted,
                 delay |-> chain.delay, impl |-> chain.impl,
                 initialized |-> chain.initialized]
    BY <1>1
  <2> QED BY <1>2, <2>1, <2>2 DEF ChainOK
<1>4. ReleasesFit(chain)
  <2>1. /\ first["manager"].name = "v3" <=> first["manager"].version = 5
        /\ first["manager"].name = "v3" =>
               first["bridge"].name = "v3" \/ first["manager"].gateway = ExitRootManager
        /\ first["bridge"].name = "v3" /\ first["exitRoots"].name = "v3"
             <=> first["bridge"].version = 2
        /\ first["manager"].gateway # "none" =>
               \/ first["bridge"].version = 2
               \/ first["manager"].gateway = ExitRootManager /\ first["manager"].version = 5
    BY ReleaseAssumption
  <2> QED BY <1>2, <2>1 DEF ReleasesFit, Tested, Proxies
<1>5. RunFits(NoRun)
  BY DEF NoRun, RunFits, SendsFit
<1>6. timelock = [id \in DOMAIN timelock |-> timelock[id]] /\ DOMAIN timelock = {}
  <2>1. timelock = << >>
    BY DEF Init
  <2>2. << >> = [id \in {} |-> << >>[id]] /\ DOMAIN << >> = {}
    OBVIOUS
  <2> QED BY <2>1, <2>2
<1>7. procs = [p \in Procs |-> NoRun] /\ emergency = FALSE /\ prepared = {}
  BY DEF Init
<1>8. RoleIInv
  BY RoleIInvInit DEF Init
<1> QED BY <1>3, <1>4, <1>5, <1>6, <1>7, <1>8
        DEF GovIInv, ChainInv, FilesInv, TimelockInv, RunsInv

LEMMA GovIInvStep == GovIInv /\ [Next]_vars => GovIInv'
<1> SUFFICES ASSUME GovIInv, [Next]_vars PROVE GovIInv'
  OBVIOUS
<1>1. ChainMoves
  BY ChainStepsFit
<1>2. FilesInv' /\ TimelockInv' /\ RunsInv'
  BY <1>1, FilesStep, TimelockStep, RunsStep
<1>3. RoleIInv'
  BY RolesStep
<1> QED BY <1>1, <1>2, <1>3 DEF GovIInv, ChainInv, ChainMoves

(***************************************************************************)
(* For any jobs, run with keys, by a multisig or through the timelock in   *)
(* any order: the contracts stay well formed, and what is scheduled stays  *)
(* due the notice it was given.                                            *)
(***************************************************************************)
THEOREM GovernanceInvariant == Spec => []GovIInv
  BY GovIInvInit, GovIInvStep, PTL DEF Spec

\* Only an execution marks an operation as done.
LEMMA OnlyExecuted ==
    ASSUME GovIInv, [Next]_vars, NEW id \in DOMAIN timelock, Executed(id)
    PROVE  Execute(id)
<1>1. id \in DOMAIN timelock' /\ timelock'[id].done /\ ~timelock[id].done
  BY DEF Executed, Done
<1>2. timelock'[id] # timelock[id]
  BY <1>1
<1>3. CASE Tick
  <2> DEFINE e == timelock[id]
  <2>1. timelock'[id] = e \/ timelock'[id] = [e EXCEPT !.wait = @ - 1, !.waited = @ + 1]
    BY <1>3 DEF Tick
  <2>2. EntryOK(e)
    BY DEF GovIInv, TimelockInv
  <2> HIDE DEF e
  <2>3. [e EXCEPT !.wait = @ - 1, !.waited = @ + 1].done = e.done
    BY <2>2 DEF EntryOK
  <2> QED BY <1>1, <2>1, <2>3 DEF e
<1>4. CASE Write \/ MineGrant \/ Turn
  BY <1>2, <1>4 DEF Write, MineGrant, Turn
<1>5. ASSUME NEW p \in Procs, Begin(p) \/ CheckRight(p) \/ SendNext(p) \/ Crash(p) PROVE FALSE
  BY <1>2, <1>5 DEF Begin, CheckRight, SendNext, Crash
<1>6. ASSUME NEW file \in prepared, SendCalldata(file) PROVE FALSE
  BY <1>2, <1>6 DEF SendCalldata
<1>7. ASSUME NEW file \in prepared, Schedule(file) PROVE FALSE
  <2>1. file.op \notin DOMAIN timelock /\ id # file.op
    BY <1>7 DEF Schedule
  <2>2. timelock'[id] = timelock[id]
    BY <1>7, <2>1 DEF Schedule
  <2> QED BY <1>2, <2>2
<1>8. ASSUME NEW other \in DOMAIN timelock, Execute(other) PROVE other = id
  BY <1>2, <1>8 DEF Execute, GovIInv, TimelockInv
<1>9. CASE UNCHANGED vars
  BY <1>2, <1>9 DEF vars
<1> QED BY <1>3, <1>4, <1>5, <1>6, <1>7, <1>8, <1>9 DEF Next

(***************************************************************************)
(* For any jobs and any delays, an operation is executed only after the    *)
(* minimum delay that was in force when it was scheduled, unless its       *)
(* timelock's own system was in emergency then                             *)
(* (PolygonZkEVMTimelock.getMinDelay).                                     *)
(***************************************************************************)
THEOREM DelaysAreKept == Spec => OperationsWait
<1>1. GovIInv /\ [Next]_vars =>
          [\A id \in DOMAIN timelock :
               Executed(id) => \/ timelock[id].urgent
                               \/ timelock[id].waited >= timelock[id].notice]_vars
  <2> SUFFICES ASSUME GovIInv, [Next]_vars, NEW id \in DOMAIN timelock, Executed(id)
               PROVE  timelock[id].urgent \/ timelock[id].waited >= timelock[id].notice
    OBVIOUS
  <2> DEFINE e == timelock[id]
  <2>1. e.wait = 0
    BY OnlyExecuted DEF Execute, IsOperationReady
  <2>2. EntryOK(e)
    BY DEF GovIInv, TimelockInv
  <2> HIDE DEF e
  <2>3. e.urgent \/ e.waited >= e.notice
    <3>1. e.waited \in Nat /\ e.notice \in Nat /\ (e.urgent \/ e.wait + e.waited >= e.notice)
      BY <2>2 DEF EntryOK
    <3> QED BY <2>1, <3>1
  <2> QED BY <2>3 DEF e
<1> QED BY <1>1, GovernanceInvariant, PTL DEF Spec, OperationsWait

(***************************************************************************)
(* For any rollups and types, a batch of updateRollup moves all its        *)
(* rollups or none, however keys, other batches and migrations move them   *)
(* in between (updateRollup.ts).                                           *)
(***************************************************************************)
THEOREM RollupsMoveTogether == Spec => BatchesAreWhole
<1>1. GovIInv /\ [Next]_vars =>
          [\A id \in DOMAIN timelock :
               Executed(id) =>
                 \A i \in DOMAIN id.calls :
                   Fn(id.calls[i]) = "updateRollup" =>
                     /\ chain'.type[At(id.calls[i])] = Value(id.calls[i])
                     /\ chain.type[At(id.calls[i])] # Value(id.calls[i])]_vars
  BY OnlyExecuted, ExecuteMoves
<1> QED BY <1>1, GovernanceInvariant, PTL DEF Spec, BatchesAreWhole

(***************************************************************************)
(* For any operations of the upgrade scripts, in any order and with any    *)
(* gateways: the L1 contracts move to the release together, each is        *)
(* initialized once, and a gateway the manager has is kept, but for the    *)
(* upgrade of the manager that is asked to put the exit root manager there *)
(* for a test.                                                             *)
(***************************************************************************)
THEOREM ReleasesAgree == Spec => UpgradesAgree
<1>1. GovIInv /\ [Next]_vars =>
          [LET old == chain.impl  new == chain'.impl IN
             /\ new["bridge"].name = "v3" /\ new["exitRoots"].name = "v3"
                  <=> chain'.initialized["bridge"] = 2
             /\ new["manager"].name = "v3" <=> chain'.initialized["manager"] = 5
             /\ new["manager"].name = "v3" =>
                  new["bridge"].name = "v3" \/ new["manager"].gateway = ExitRootManager
             /\ old["manager"].gateway # "none" =>
                  new["manager"].gateway \in {old["manager"].gateway, ExitRootManager}]_vars
  BY ChainStepsFit DEF ChainMoves, ReleasesFit, GatewayKept, Tested
<1> QED BY <1>1, GovernanceInvariant, PTL DEF Spec, UpgradesAgree

(***************************************************************************)
(* The same when the roles of an aggchain are handed over by the tools,    *)
(* with a key, by a multisig and through the timelock at the same time     *)
(* (transferAggchainManager.ts, transferOptimisticManager.ts).             *)
(***************************************************************************)
THEOREM ToolsHandOver == Spec => HandedOverByHolder
<1>1. GovIInv /\ [Next]_vars =>
          [\A r \in Roles : holder'[r] # holder[r] =>
              /\ namedUnder[r] = holder[r]
              /\ holder'[r] = pending[r]
              /\ holder'[r] # NoAccount]_roleVars
  BY RolesStep DEF HandedOver
<1> QED BY <1>1, GovernanceInvariant, PTL DEF Spec, HandedOverByHolder
=============================================================================
