----------------------------- MODULE BudgetPool -----------------------------
(***************************************************************************)
(* Budget pools: model/pool.go.                                            *)
(*                                                                         *)
(* Root buys quota into a pool, allocates it to users, recalls it, closes  *)
(* the pool and rolls its balance over to a new one.  Purchases,           *)
(* allocations and recalls are transactions that lock the pool's row       *)
(* (SELECT ... FOR UPDATE); a recall reads the user's row without a lock,  *)
(* and a rollover is a read, an update and an insert of its own each.      *)
(* Users spend their quota meanwhile.  The pool_transactions log, which no *)
(* operation reads, is left out.                                           *)
(***************************************************************************)
EXTENDS Integers, FiniteSets, FiniteSetsExt

CONSTANTS
  Ids,         \* the user ids that requests name
  Users,       \* those that have a row in users
  Admins,      \* concurrent administration requests of more than one step
  Amounts,     \* amounts of purchases, allocations and recalls (gt=0)
  Spends,      \* amounts that relay billing takes from a user
  MaxPools,    \* bound on the pools created
  MaxAllocs,   \* bound on the allocation rows
  MaxBought    \* bound on the quota bought

ASSUME PoolAssumption ==
  /\ Amounts \subseteq Nat \ {0} /\ Spends \subseteq Nat \ {0}
  /\ MaxPools \in Nat /\ MaxAllocs \in Nat /\ MaxBought \in Nat
  /\ Users # {} /\ IsFiniteSet(Users) /\ Users \subseteq Ids

Pools == 1 .. MaxPools
Rows  == 1 .. MaxAllocs

VARIABLES
  status, total, used,                \* global_pools
  nalloc, rpool, ruser, allocated, recalled,
                                      \* pool_allocations, in order of id
  quota,                              \* users.quota
  apc, jpool, jrow, jamount,          \* an admin request and its locals
  looping, snap, cursor,              \* RecallAllFromPool: its list, its place
  source, opening,                    \* audit: the pool a pool continues and the
                                      \* balance it took over,
  bought, spent, carried              \* quota bought, spent and rolled over

pools  == <<status, total, used>>
allocs == <<nalloc, rpool, ruser, allocated, recalled>>
locals == <<jpool, jrow, jamount, looping, snap, cursor>>
audit  == <<source, opening, bought, spent, carried>>
vars   == <<pools, allocs, quota, apc, locals, audit>>

Init ==
  /\ status = [p \in Pools |-> "none"]
  /\ total = [p \in Pools |-> 0] /\ used = [p \in Pools |-> 0]
  /\ nalloc = 0
  /\ rpool = [i \in Rows |-> 0]
  /\ ruser = [i \in Rows |-> CHOOSE u \in Users : TRUE]
  /\ allocated = [i \in Rows |-> 0] /\ recalled = [i \in Rows |-> 0]
  /\ quota = [u \in Users |-> 0]
  /\ apc = [a \in Admins |-> "idle"] /\ jpool = [a \in Admins |-> 0]
  /\ jrow = [a \in Admins |-> 0] /\ jamount = [a \in Admins |-> 0]
  /\ looping = [a \in Admins |-> FALSE] /\ cursor = [a \in Admins |-> 0]
  /\ snap = [a \in Admins |-> [i \in Rows |-> 0]]
  /\ source = [p \in Pools |-> 0] /\ opening = [p \in Pools |-> 0]
  /\ bought = 0 /\ spent = 0 /\ carried = 0

AvailableQuota(p) == total[p] - used[p]
NetAllocated(i)   == allocated[i] - recalled[i]

\* A recall that has read holds the lock of its pool's row.
Locked_Never(p) == FALSE
Locked(p) == \E a \in Admins : apc[a] = "recalling" /\ jpool[a] = p

-----------------------------------------------------------------------------
(* Operations that are one transaction or one statement. *)

\* The next pool gets the next id.
Insert(p, n) ==
  /\ status[p] = "none" /\ \A q \in 1 .. p - 1 : status[q] # "none"
  /\ status' = [status EXCEPT ![p] = "active"]
  /\ total' = [total EXCEPT ![p] = n]
  /\ UNCHANGED used

CreatePool(p, n) ==
  /\ Insert(p, n)
  /\ bought + n <= MaxBought
  /\ bought' = bought + n
  /\ UNCHANGED <<allocs, quota, apc, locals, source, opening, spent,
                 carried>>

ClosePool(p) ==
  /\ status[p] # "none" /\ ~Locked(p)
  /\ status' = [status EXCEPT ![p] = "closed"]
  /\ UNCHANGED <<total, used, allocs, quota, apc, locals, audit>>

PurchaseToPool(p, n) ==
  /\ status[p] = "active" /\ ~Locked(p)
  /\ bought + n <= MaxBought
  /\ total' = [total EXCEPT ![p] = @ + n]
  /\ bought' = bought + n
  /\ UNCHANGED <<status, used, allocs, quota, apc, locals, source, opening, spent,
                 carried>>

\* available >= amount
Affordable_AnyTotal(p, n) == n <= total[p]
Affordable(p, n) == n <= AvailableQuota(p)

\* UPDATE users SET quota = quota + n WHERE id = u: it may find no row, and
\* nobody looks at how many rows it changed.
Credit_Twice(u, n) == quota' = [v \in Users |-> IF v = u THEN quota[v] + n + n ELSE quota[v]]
Credit(u, n) == quota' = [v \in Users |-> IF v = u THEN quota[v] + n ELSE quota[v]]

AllocateFromPool(p, u, n) ==
  /\ status[p] = "active" /\ ~Locked(p) /\ Affordable(p, n)
  /\ nalloc < MaxAllocs
  /\ used' = [used EXCEPT ![p] = @ + n]
  /\ Credit(u, n)
  /\ nalloc' = nalloc + 1
  /\ rpool' = [rpool EXCEPT ![nalloc + 1] = p]
  /\ ruser' = [ruser EXCEPT ![nalloc + 1] = u]
  /\ allocated' = [allocated EXCEPT ![nalloc + 1] = n]
  /\ UNCHANGED <<status, total, recalled, apc, locals, audit>>

\* Relay billing takes quota from a user: UPDATE ... WHERE quota >= n.
Spend(u, n) ==
  /\ n <= quota[u]
  /\ quota' = [quota EXCEPT ![u] = @ - n]
  /\ spent' = spent + n
  /\ UNCHANGED <<pools, allocs, apc, locals, source, opening, bought, carried>>

-----------------------------------------------------------------------------
(* RecallFromPool and RecallAllFromPool. *)

\* The request returns, and its locals with it.
Return(a) ==
  /\ apc' = [apc EXCEPT ![a] = "idle"] /\ jpool' = [jpool EXCEPT ![a] = 0]
  /\ jrow' = [jrow EXCEPT ![a] = 0] /\ jamount' = [jamount EXCEPT ![a] = 0]
  /\ looping' = [looping EXCEPT ![a] = FALSE] /\ cursor' = [cursor EXCEPT ![a] = 0]
  /\ snap' = [snap EXCEPT ![a] = [i \in Rows |-> 0]]

\* First(&allocation): the oldest allocation of the user in the pool.
First(i, p, u) ==
  /\ i <= nalloc /\ rpool[i] = p /\ ruser[i] = u
  /\ \A j \in 1 .. i - 1 : ~(rpool[j] = p /\ ruser[j] = u)

Recallable_BeyondNet(i, p, u, n) ==
  status[p] = "active" /\ First(i, p, u) /\ u \in Users /\ n <= quota[u]

Recallable(i, p, u, n) ==
  /\ status[p] = "active" /\ First(i, p, u)
  /\ n <= NetAllocated(i) /\ u \in Users /\ n <= quota[u]

\* The transaction has locked the pool, read the allocation and the user, and
\* passed every check; a check that fails rolls it back.
BeginRecall(a, p, u, n) ==
  /\ ~Locked(p)
  /\ \E i \in Rows : Recallable(i, p, u, n) /\ jrow' = [jrow EXCEPT ![a] = i]
  /\ jpool' = [jpool EXCEPT ![a] = p]
  /\ jamount' = [jamount EXCEPT ![a] = n]
  /\ apc' = [apc EXCEPT ![a] = "recalling"]

RecallFromPool(a, p, u, n) ==
  /\ apc[a] = "idle"
  /\ BeginRecall(a, p, u, n)
  /\ UNCHANGED <<pools, allocs, quota, looping, snap, cursor, audit>>

Release_Nothing(a) == UNCHANGED used
Release(a) == used' = [used EXCEPT ![jpool[a]] = @ - jamount[a]]

\* Its updates, and the commit.
CommitRecall(a) ==
  /\ apc[a] = "recalling"
  /\ quota' = [quota EXCEPT ![ruser[jrow[a]]] = @ - jamount[a]]
  /\ recalled' = [recalled EXCEPT ![jrow[a]] = @ + jamount[a]]
  /\ Release(a)
  /\ IF looping[a]
       THEN apc' = [apc EXCEPT ![a] = "loop"] /\ UNCHANGED locals
       ELSE Return(a)
  /\ UNCHANGED <<status, total, nalloc, rpool, ruser, allocated, audit>>

\* RecallAllFromPool reads the allocations of the pool ...
RecallAllFromPool(a, p) ==
  /\ apc[a] = "idle" /\ status[p] # "none"
  /\ snap' = [snap EXCEPT ![a] = [i \in Rows |->
                IF i <= nalloc /\ rpool[i] = p THEN NetAllocated(i) ELSE 0]]
  /\ jpool' = [jpool EXCEPT ![a] = p]
  /\ cursor' = [cursor EXCEPT ![a] = 0] /\ looping' = [looping EXCEPT ![a] = TRUE]
  /\ apc' = [apc EXCEPT ![a] = "loop"]
  /\ UNCHANGED <<pools, allocs, quota, jrow, jamount, audit>>

\* ... and recalls each one by its user and the amount read; a recall that
\* fails is logged and skipped.
RecallNext(a) ==
  /\ apc[a] = "loop" /\ cursor[a] < MaxAllocs
  /\ cursor' = [cursor EXCEPT ![a] = @ + 1]
  /\ LET i == cursor[a] + 1
         p == jpool[a]
         n == snap[a][i]
     IN \/ n > 0 /\ BeginRecall(a, p, ruser[i], n)
        \/ /\ n <= 0 \/ (~Locked(p) /\ \A j \in Rows : ~Recallable(j, p, ruser[i], n))
           /\ UNCHANGED <<apc, jpool, jrow, jamount>>
  /\ UNCHANGED <<pools, allocs, quota, looping, snap, audit>>

RecallAllEnds(a) ==
  /\ apc[a] = "loop" /\ cursor[a] = MaxAllocs
  /\ Return(a)
  /\ UNCHANGED <<pools, allocs, quota, audit>>

-----------------------------------------------------------------------------
(* RollOverPool: three statements outside any transaction. *)

\* GetPoolById; the status is not looked at.
RollOverPool(a, p) ==
  /\ apc[a] = "idle" /\ status[p] # "none"
  /\ jpool' = [jpool EXCEPT ![a] = p]
  /\ jamount' = [jamount EXCEPT ![a] = AvailableQuota(p)]
  /\ apc' = [apc EXCEPT ![a] = "close"]
  /\ UNCHANGED <<pools, allocs, quota, jrow, looping, snap, cursor, audit>>

RollOverClose(a) ==
  /\ apc[a] = "close" /\ ~Locked(jpool[a])
  /\ status' = [status EXCEPT ![jpool[a]] = "closed"]
  /\ apc' = [apc EXCEPT ![a] = "create"]
  /\ UNCHANGED <<total, used, allocs, quota, locals, audit>>

\* CreatePool succeeds, or fails and leaves the old pool closed.
RollOverCreate(a) ==
  /\ apc[a] = "create"
  /\ Return(a)
  /\ \/ /\ \E p \in Pools :
             /\ Insert(p, jamount[a])
             /\ source' = [source EXCEPT ![p] = jpool[a]]
             /\ opening' = [opening EXCEPT ![p] = jamount[a]]
        /\ carried' = carried + jamount[a]
        /\ UNCHANGED <<bought, spent>>
     \/ UNCHANGED <<pools, audit>>
  /\ UNCHANGED <<allocs, quota>>

-----------------------------------------------------------------------------
Administer(a) ==
  \/ CommitRecall(a) \/ RecallNext(a) \/ RecallAllEnds(a)
  \/ RollOverClose(a) \/ RollOverCreate(a)

Next ==
  \/ \E p \in Pools, n \in Amounts : CreatePool(p, n) \/ PurchaseToPool(p, n)
  \/ \E p \in Pools : ClosePool(p)
  \/ \E p \in Pools, u \in Ids, n \in Amounts : AllocateFromPool(p, u, n)
  \/ \E u \in Users, n \in Spends : Spend(u, n)
  \/ \E a \in Admins, p \in Pools : RecallAllFromPool(a, p) \/ RollOverPool(a, p)
  \/ \E a \in Admins, p \in Pools, u \in Ids, n \in Amounts :
       RecallFromPool(a, p, u, n)
  \/ \E a \in Admins : Administer(a)

Spec == Init /\ [][Next]_vars

-----------------------------------------------------------------------------
(* Properties. *)

\* Every variable has its type.
TypeOK ==
  /\ status \in [Pools -> {"none", "active", "closed"}]
  /\ total \in [Pools -> Int] /\ used \in [Pools -> Int]
  /\ nalloc \in 0 .. MaxAllocs
  /\ rpool \in [Rows -> 0 .. MaxPools] /\ ruser \in [Rows -> Ids]
  /\ allocated \in [Rows -> Int] /\ recalled \in [Rows -> Int]
  /\ quota \in [Users -> Int]
  /\ apc \in [Admins -> {"idle", "recalling", "loop", "close", "create"}]
  /\ jpool \in [Admins -> 0 .. MaxPools] /\ jrow \in [Admins -> 0 .. MaxAllocs]
  /\ jamount \in [Admins -> Int]
  /\ looping \in [Admins -> BOOLEAN] /\ cursor \in [Admins -> 0 .. MaxAllocs]
  /\ snap \in [Admins -> [Rows -> Int]]
  /\ source \in [Pools -> 0 .. MaxPools] /\ opening \in [Pools -> Int]
  /\ bought \in Int /\ spent \in Int /\ carried \in Int

\* No pool has given away more than it holds, whatever purchases,
\* allocations and recalls of it run at the same time (AllocateFromPool).
WithinBudget == \A p \in Pools : used[p] <= total[p]

\* No allocation is recalled beyond its amount, although a recall checks it in
\* one statement and updates it in another (RecallFromPool).
RecalledBounded == \A i \in Rows : recalled[i] <= allocated[i]

\* The sum of f[x] over the members of S.
Total(f, S) == MapThenSumSet(LAMBDA x : f[x], S)

\* A pool's used_quota is the sum of the net allocations its reconciliation
\* shows (GetPoolReconciliation).
Reconciled ==
  \A p \in Pools :
    used[p] = Total([i \in Rows |-> NetAllocated(i)], {i \in Rows : rpool[i] = p})

\* The rows of ids that nobody has.
Orphans == {i \in Rows : ruser[i] \notin Users}

\* Quota is neither created nor destroyed: what was bought or carried over by a
\* rollover is in a pool, with a user, spent, or listed in a row of an id that
\* nobody has, which AllocateFromPool takes from the pool all the same
\* (pool.go:232) and no recall ever brings back.
Conservation ==
  Total([p \in Pools |-> AvailableQuota(p)], Pools) + Total(quota, Users) + spent
    + Total([i \in Rows |-> NetAllocated(i)], Orphans)
    = bought + carried

FrozenStep ==
  \A p \in Pools :
    status[p] = "closed" =>
      status'[p] = "closed" /\ total'[p] = total[p] /\ used'[p] = used[p]

\* Nothing moves into or out of a closed pool: a transaction under way when the
\* pool is closed ends first (the status checks of pool.go).
ClosedPoolFrozen == [][FrozenStep]_vars

=============================================================================
