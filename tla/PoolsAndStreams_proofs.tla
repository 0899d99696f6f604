----------------------- MODULE PoolsAndStreams_proofs -----------------------
(* Two components for every instance: the budgets and recalls of pools, for  *)
(* every number of pools, users and requests, and the streamed answer, for   *)
(* every handler, numbering of tool calls and length.                        *)
EXTENDS BudgetPool, StreamRelay, SequenceTheorems, FiniteSetTheorems, TLAPS

\* The row lock: a recall that has read is the only one in its pool, the pool
\* stays active, and what the recall checked of its allocation still holds.
LockHolds ==
  /\ \A a \in Admins : apc[a] = "recalling" =>
       /\ jpool[a] \in Pools /\ status[jpool[a]] = "active"
       /\ jrow[a] \in 1 .. nalloc /\ rpool[jrow[a]] = jpool[a]
       /\ ruser[jrow[a]] \in Users
       /\ 0 <= jamount[a] /\ jamount[a] <= NetAllocated(jrow[a])
  /\ \A a, b \in Admins :
       apc[a] = "recalling" /\ apc[b] = "recalling" /\ jpool[a] = jpool[b] => a = b

\* What has not been created is zero, a rollover carries no debt, and the loop
\* of RecallAllFromPool has a pool.
Blank ==
  /\ \A p \in Pools : status[p] = "none" => total[p] = 0 /\ used[p] = 0
  /\ \A i \in Rows : i > nalloc => rpool[i] = 0 /\ allocated[i] = 0 /\ recalled[i] = 0
  /\ \A a \in Admins : apc[a] \in {"close", "create"} => 0 <= jamount[a]
  /\ \A a \in Admins : apc[a] = "loop" => jpool[a] \in Pools

IInv == TypeOK /\ WithinBudget /\ RecalledBounded /\ LockHolds /\ Blank

LEMMA InitIInv == Init => IInv
<1> SUFFICES ASSUME Init PROVE IInv
  OBVIOUS
<1>1. TypeOK
  <2>1. (CHOOSE u \in Users : TRUE) \in Users
    BY PoolAssumption
  <2>2. 0 \in 0 .. MaxAllocs /\ 0 \in 0 .. MaxPools /\ 0 \in Int
    BY PoolAssumption
  <2>3. ruser \in [Rows -> Ids]
    BY <2>1, PoolAssumption DEF Init
  <2> QED
    BY <2>2, <2>3 DEF Init, TypeOK
<1>2. WithinBudget /\ RecalledBounded /\ LockHolds /\ Blank
  BY DEF Init, WithinBudget, RecalledBounded, LockHolds, Blank
<1> QED
  BY <1>1, <1>2 DEF IInv

LEMMA AmountsAreNat == Amounts \subseteq Nat /\ Spends \subseteq Nat
                       /\ \A n \in Amounts : n > 0
  BY PoolAssumption

\* Operations of one statement or transaction leave the requests alone.
LEMMA CreateIInv ==
  ASSUME IInv, NEW p \in Pools, NEW n \in Amounts, CreatePool(p, n) PROVE IInv'
<1> USE AmountsAreNat DEF IInv
<1>1. TypeOK'
  BY DEF TypeOK, CreatePool, Insert, allocs, locals
<1>2. WithinBudget' /\ RecalledBounded'
  BY DEF TypeOK, WithinBudget, RecalledBounded, Blank, CreatePool, Insert, allocs
<1>3. LockHolds' /\ Blank'
  BY DEF TypeOK, LockHolds, Blank, NetAllocated, CreatePool, Insert, allocs, locals
<1> QED
  BY <1>1, <1>2, <1>3

LEMMA CloseIInv == ASSUME IInv, NEW p \in Pools, ClosePool(p) PROVE IInv'
<1> USE DEF IInv
<1>1. TypeOK'
  BY DEF TypeOK, ClosePool, allocs, locals, audit
<1>2. WithinBudget' /\ RecalledBounded'
  BY DEF WithinBudget, RecalledBounded, ClosePool, allocs
<1>3. LockHolds' /\ Blank'
  BY DEF TypeOK, LockHolds, Blank, NetAllocated, ClosePool, Locked, allocs, locals
<1> QED
  BY <1>1, <1>2, <1>3

LEMMA PurchaseIInv ==
  ASSUME IInv, NEW p \in Pools, NEW n \in Amounts, PurchaseToPool(p, n) PROVE IInv'
<1> USE AmountsAreNat DEF IInv
<1>1. TypeOK'
  BY DEF TypeOK, PurchaseToPool, allocs, locals
<1>2. WithinBudget' /\ RecalledBounded'
  BY DEF TypeOK, WithinBudget, RecalledBounded, PurchaseToPool, allocs
<1>3. LockHolds' /\ Blank'
  BY DEF TypeOK, LockHolds, Blank, NetAllocated, PurchaseToPool, allocs, locals
<1> QED
  BY <1>1, <1>2, <1>3

LEMMA AllocateIInv ==
  ASSUME IInv, NEW p \in Pools, NEW u \in Ids, NEW n \in Amounts,
         AllocateFromPool(p, u, n)
  PROVE  IInv'
<1> USE AmountsAreNat DEF IInv
<1>0. nalloc + 1 \in Rows /\ p \in 0 .. MaxPools
  BY PoolAssumption DEF TypeOK, AllocateFromPool, Rows, Pools
<1>1. TypeOK'
  <2>1. nalloc' \in 0 .. MaxAllocs
    BY PoolAssumption DEF TypeOK, AllocateFromPool
  <2>2. /\ used' \in [Pools -> Int] /\ quota' \in [Users -> Int]
        /\ rpool' \in [Rows -> 0 .. MaxPools] /\ ruser' \in [Rows -> Ids]
        /\ allocated' \in [Rows -> Int]
    BY <1>0 DEF TypeOK, AllocateFromPool, Credit
  <2> QED
    BY <2>1, <2>2 DEF TypeOK, AllocateFromPool, locals, audit
<1>2. WithinBudget'
  BY DEF TypeOK, WithinBudget, AllocateFromPool, Affordable, AvailableQuota
<1>3. RecalledBounded'
  BY <1>0 DEF TypeOK, RecalledBounded, Blank, AllocateFromPool
<1>4. LockHolds'
  <2>1. \A a \in Admins : apc[a] = "recalling" =>
          jrow[a] \in Rows /\ jrow[a] # nalloc + 1 /\ jrow[a] \in 1 .. nalloc'
    <3> SUFFICES ASSUME NEW a \in Admins, apc[a] = "recalling"
                 PROVE  jrow[a] \in Rows /\ jrow[a] # nalloc + 1 /\ jrow[a] \in 1 .. nalloc'
      OBVIOUS
    <3>1. jrow[a] \in 1 .. nalloc /\ nalloc' = nalloc + 1 /\ nalloc \in 0 .. MaxAllocs
      BY DEF TypeOK, LockHolds, AllocateFromPool
    <3> QED
      BY <3>1, PoolAssumption DEF Rows
  <2>2. \A i \in Rows : i # nalloc + 1 =>
          rpool'[i] = rpool[i] /\ ruser'[i] = ruser[i] /\ allocated'[i] = allocated[i]
    BY DEF TypeOK, AllocateFromPool
  <2> QED
    BY <2>1, <2>2 DEF LockHolds, NetAllocated, AllocateFromPool, locals
<1>5. Blank'
  BY <1>0 DEF TypeOK, Blank, AllocateFromPool, locals, Rows
<1> QED
  BY <1>1, <1>2, <1>3, <1>4, <1>5

LEMMA SpendIInv ==
  ASSUME IInv, NEW u \in Users, NEW n \in Spends, Spend(u, n) PROVE IInv'
<1> USE AmountsAreNat DEF IInv
<1>1. TypeOK'
  BY DEF TypeOK, Spend, pools, allocs, locals
<1>2. WithinBudget' /\ RecalledBounded' /\ LockHolds' /\ Blank'
  BY DEF WithinBudget, RecalledBounded, LockHolds, Blank, NetAllocated, Spend,
     pools, allocs, locals
<1> QED
  BY <1>1, <1>2

\* A recall begins only in an active pool that nobody has locked.
LEMMA BeginRecallIInv ==
  ASSUME IInv, NEW a \in Admins, NEW p \in Pools, NEW u \in Ids, NEW n \in Int,
         n > 0, BeginRecall(a, p, u, n), UNCHANGED <<pools, allocs>>
  PROVE  LockHolds' /\ Blank'
<1> USE DEF IInv
<1>1. PICK i \in Rows : Recallable(i, p, u, n) /\ jrow' = [jrow EXCEPT ![a] = i]
  BY DEF BeginRecall
<1>2. /\ jpool'[a] = p /\ jrow'[a] = i /\ jamount'[a] = n /\ apc'[a] = "recalling"
      /\ \A b \in Admins \ {a} : /\ jpool'[b] = jpool[b] /\ jrow'[b] = jrow[b]
                                 /\ jamount'[b] = jamount[b] /\ apc'[b] = apc[b]
  BY <1>1 DEF BeginRecall, TypeOK
<1>3. /\ status[p] = "active" /\ i \in 1 .. nalloc /\ rpool[i] = p /\ n <= NetAllocated(i)
      /\ ruser[i] \in Users
  BY <1>1 DEF Recallable, First, Rows, TypeOK
<1>4. \A b \in Admins : ~(apc[b] = "recalling" /\ jpool[b] = p)
  BY DEF BeginRecall, Locked
<1>5. UNCHANGED <<status, total, used, nalloc, rpool, ruser, allocated, recalled>>
  BY DEF pools, allocs
<1>6. ASSUME NEW b \in Admins, apc'[b] = "recalling"
      PROVE  /\ jpool'[b] \in Pools /\ status[jpool'[b]] = "active"
             /\ jrow'[b] \in 1 .. nalloc /\ rpool[jrow'[b]] = jpool'[b]
             /\ ruser[jrow'[b]] \in Users
             /\ 0 <= jamount'[b] /\ jamount'[b] <= NetAllocated(jrow'[b])
  BY <1>6, <1>2, <1>3 DEF LockHolds
<1>7. LockHolds'
  BY <1>2, <1>4, <1>5, <1>6 DEF LockHolds, NetAllocated
<1>8. Blank'
  BY <1>2, <1>5 DEF Blank
<1> QED
  BY <1>7, <1>8

LEMMA BeginRecallType ==
  ASSUME TypeOK, NEW a \in Admins, NEW p \in Pools, NEW u \in Ids, NEW n \in Int,
         BeginRecall(a, p, u, n), UNCHANGED <<pools, allocs, quota, looping, snap, audit>>,
         cursor' \in [Admins -> 0 .. MaxAllocs]
  PROVE  TypeOK'
<1>1. PICK i \in Rows : jrow' = [jrow EXCEPT ![a] = i]
  BY DEF BeginRecall
<1>2. i \in 0 .. MaxAllocs /\ p \in 0 .. MaxPools
  BY PoolAssumption DEF Rows, Pools
<1>3. /\ jrow' \in [Admins -> 0 .. MaxAllocs] /\ jpool' \in [Admins -> 0 .. MaxPools]
      /\ jamount' \in [Admins -> Int]
      /\ apc' \in [Admins -> {"idle", "recalling", "loop", "close", "create"}]
  BY <1>1, <1>2 DEF BeginRecall, TypeOK
<1> QED
  BY <1>3 DEF TypeOK, pools, allocs, audit

LEMMA RecallIInv ==
  ASSUME IInv, NEW a \in Admins, NEW p \in Pools, NEW u \in Ids, NEW n \in Amounts,
         RecallFromPool(a, p, u, n)
  PROVE  IInv'
<1> USE DEF IInv
<1>1. n \in Int /\ n > 0 /\ p \in 0 .. MaxPools
  BY AmountsAreNat, PoolAssumption DEF Pools
<1>2. TypeOK'
  <2>1. cursor' \in [Admins -> 0 .. MaxAllocs]
    BY DEF RecallFromPool, TypeOK
  <2> QED
    BY <1>1, <2>1, BeginRecallType DEF RecallFromPool
<1>3. LockHolds' /\ Blank'
  BY <1>1, BeginRecallIInv DEF RecallFromPool
<1>4. WithinBudget' /\ RecalledBounded'
  BY DEF WithinBudget, RecalledBounded, RecallFromPool, pools, allocs
<1> QED
  BY <1>2, <1>3, <1>4

\* A return clears the request's locals and touches nobody else's.
LEMMA ReturnFacts ==
  ASSUME TypeOK, NEW a \in Admins, Return(a)
  PROVE  /\ apc' \in [Admins -> {"idle", "recalling", "loop", "close", "create"}]
         /\ jpool' \in [Admins -> 0 .. MaxPools] /\ jrow' \in [Admins -> 0 .. MaxAllocs]
         /\ jamount' \in [Admins -> Int] /\ looping' \in [Admins -> BOOLEAN]
         /\ cursor' \in [Admins -> 0 .. MaxAllocs] /\ snap' \in [Admins -> [Rows -> Int]]
         /\ apc'[a] = "idle"
         /\ \A b \in Admins \ {a} : /\ jpool'[b] = jpool[b] /\ jrow'[b] = jrow[b]
                                    /\ jamount'[b] = jamount[b] /\ apc'[b] = apc[b]
  BY PoolAssumption DEF TypeOK, Return

\* Leaving a request keeps what the locks of the others promise.
LEMMA LocksKept ==
  ASSUME TypeOK, LockHolds, NEW a \in Admins, Return(a),
         \A p \in Pools : status[p] = "active" => status'[p] = "active",
         UNCHANGED <<nalloc, rpool, ruser, allocated, recalled>>
  PROVE  LockHolds'
<1>1. \A b \in Admins : apc'[b] = "recalling" =>
        /\ apc[b] = "recalling" /\ jpool'[b] = jpool[b] /\ jrow'[b] = jrow[b]
        /\ jamount'[b] = jamount[b]
  BY ReturnFacts
<1>2. \A b \in Admins : apc'[b] = "recalling" =>
        /\ jpool'[b] \in Pools /\ status'[jpool'[b]] = "active"
        /\ jrow'[b] \in 1 .. nalloc' /\ rpool'[jrow'[b]] = jpool'[b]
        /\ ruser'[jrow'[b]] \in Users
        /\ 0 <= jamount'[b] /\ jamount'[b] <= allocated'[jrow'[b]] - recalled'[jrow'[b]]
  BY <1>1 DEF LockHolds, NetAllocated
<1>3. \A b, c \in Admins : apc'[b] = "recalling" /\ apc'[c] = "recalling"
                           /\ jpool'[b] = jpool'[c] => b = c
  BY <1>1 DEF LockHolds
<1> QED
  BY <1>2, <1>3 DEF LockHolds, NetAllocated

LEMMA CommitIInv == ASSUME IInv, NEW a \in Admins, CommitRecall(a) PROVE IInv'
<1> USE DEF IInv
<1>1. /\ jpool[a] \in Pools /\ status[jpool[a]] = "active" /\ jrow[a] \in Rows
      /\ jrow[a] \in 1 .. nalloc /\ rpool[jrow[a]] = jpool[a]
      /\ 0 <= jamount[a] /\ jamount[a] <= NetAllocated(jrow[a]) /\ jamount[a] \in Int
      /\ ruser[jrow[a]] \in Users
  BY DEF CommitRecall, LockHolds, Rows, TypeOK
<1>2. /\ apc' \in [Admins -> {"idle", "recalling", "loop", "close", "create"}]
      /\ jpool' \in [Admins -> 0 .. MaxPools] /\ jrow' \in [Admins -> 0 .. MaxAllocs]
      /\ jamount' \in [Admins -> Int] /\ looping' \in [Admins -> BOOLEAN]
      /\ cursor' \in [Admins -> 0 .. MaxAllocs] /\ snap' \in [Admins -> [Rows -> Int]]
      /\ apc'[a] \in {"idle", "loop"}
      /\ \A b \in Admins \ {a} : /\ jpool'[b] = jpool[b] /\ jrow'[b] = jrow[b]
                                 /\ jamount'[b] = jamount[b] /\ apc'[b] = apc[b]
  <2>1. CASE looping[a]
    BY <2>1 DEF CommitRecall, TypeOK, locals
  <2>2. CASE ~looping[a]
    BY <2>2, ReturnFacts DEF CommitRecall
  <2> QED
    BY <2>1, <2>2
<1>3. /\ UNCHANGED <<status, total, nalloc, rpool, ruser, allocated, audit>>
      /\ used' = [used EXCEPT ![jpool[a]] = @ - jamount[a]]
      /\ recalled' = [recalled EXCEPT ![jrow[a]] = @ + jamount[a]]
      /\ quota' \in [Users -> Int]
  BY <1>1 DEF CommitRecall, Release, TypeOK
<1>4. TypeOK'
  BY <1>1, <1>2, <1>3 DEF TypeOK, audit
<1>5. WithinBudget'
  BY <1>1, <1>3 DEF WithinBudget, TypeOK
<1>6. RecalledBounded'
  BY <1>1, <1>3 DEF RecalledBounded, NetAllocated, TypeOK
<1>7. LockHolds'
  <2>1. ASSUME NEW b \in Admins, apc'[b] = "recalling"
        PROVE  /\ b # a /\ apc[b] = "recalling" /\ jrow[b] # jrow[a]
               /\ jrow[b] \in Rows /\ NetAllocated(jrow[b])' = NetAllocated(jrow[b])
    <3>1. b # a /\ apc[b] = "recalling" /\ jrow'[b] = jrow[b]
      BY <1>2, <2>1
    <3>2. jpool[b] # jpool[a] /\ rpool[jrow[b]] = jpool[b] /\ jrow[b] \in 1 .. nalloc
      BY <3>1 DEF LockHolds, CommitRecall
    <3>3. jrow[b] # jrow[a] /\ jrow[b] \in Rows
      BY <3>2, <1>1 DEF Rows, TypeOK
    <3>4. recalled'[jrow[b]] = recalled[jrow[b]]
      BY <3>3, <1>3 DEF TypeOK
    <3> QED
      BY <3>1, <3>3, <3>4, <1>3 DEF NetAllocated
  <2>2. ASSUME NEW b \in Admins, apc'[b] = "recalling"
        PROVE  /\ jpool'[b] \in Pools /\ status'[jpool'[b]] = "active"
               /\ jrow'[b] \in 1 .. nalloc' /\ rpool'[jrow'[b]] = jpool'[b]
               /\ ruser'[jrow'[b]] \in Users
               /\ 0 <= jamount'[b] /\ jamount'[b] <= NetAllocated(jrow[b])'
               /\ jrow'[b] = jrow[b]
    BY <2>1, <2>2, <1>2, <1>3 DEF LockHolds
  <2>3. \A b, c \in Admins : apc'[b] = "recalling" /\ apc'[c] = "recalling"
                             /\ jpool'[b] = jpool'[c] => b = c
    BY <2>1, <1>2 DEF LockHolds
  <2> QED
    BY <2>2, <2>3 DEF LockHolds, NetAllocated
<1>8. Blank'
  <2>1. \A p \in Pools : status'[p] = "none" => total'[p] = 0 /\ used'[p] = 0
    BY <1>1, <1>3 DEF Blank, TypeOK
  <2>2. \A i \in Rows : i > nalloc' =>
          rpool'[i] = 0 /\ allocated'[i] = 0 /\ recalled'[i] = 0
    <3>1. \A i \in Rows : i > nalloc => i # jrow[a]
      BY <1>1 DEF Rows, TypeOK
    <3> QED
      BY <1>3, <3>1 DEF Blank, TypeOK
  <2>3. \A b \in Admins : apc'[b] \in {"close", "create"} => 0 <= jamount'[b]
    BY <1>2 DEF Blank
  <2>4. \A b \in Admins : apc'[b] = "loop" => jpool'[b] \in Pools
    <3>1. jpool'[a] \in Pools \/ apc'[a] = "idle"
      BY <1>1 DEF CommitRecall, Return, TypeOK, locals
    <3> QED
      BY <1>2, <3>1 DEF Blank
  <2> QED
    BY <2>1, <2>2, <2>3, <2>4 DEF Blank
<1> QED
  BY <1>4, <1>5, <1>6, <1>7, <1>8

LEMMA RecallAllIInv ==
  ASSUME IInv, NEW a \in Admins, NEW p \in Pools, RecallAllFromPool(a, p) PROVE IInv'
<1> USE DEF IInv
<1>1. p \in 0 .. MaxPools /\ 0 \in 0 .. MaxAllocs
  BY PoolAssumption DEF Pools
<1>2. /\ UNCHANGED <<pools, allocs, quota, jrow, jamount, audit>> /\ apc[a] = "idle"
      /\ jpool' = [jpool EXCEPT ![a] = p] /\ apc' = [apc EXCEPT ![a] = "loop"]
      /\ cursor' = [cursor EXCEPT ![a] = 0] /\ looping' = [looping EXCEPT ![a] = TRUE]
  BY DEF RecallAllFromPool
<1>3. snap' \in [Admins -> [Rows -> Int]]
  <2> DEFINE list == [i \in Rows |-> IF i <= nalloc /\ rpool[i] = p
                                       THEN NetAllocated(i) ELSE 0]
  <2>1. list \in [Rows -> Int]
    BY DEF TypeOK, NetAllocated
  <2>2. snap' = [snap EXCEPT ![a] = list]
    BY DEF RecallAllFromPool
  <2> QED
    BY <2>1, <2>2 DEF TypeOK
<1>4. TypeOK'
  BY <1>1, <1>2, <1>3 DEF TypeOK, pools, allocs, audit
<1>5. WithinBudget' /\ RecalledBounded'
  BY <1>2 DEF WithinBudget, RecalledBounded, pools, allocs
<1>6. LockHolds' /\ Blank'
  BY <1>2 DEF LockHolds, Blank, NetAllocated, TypeOK, pools, allocs
<1> QED
  BY <1>4, <1>5, <1>6

LEMMA RecallNextIInv == ASSUME IInv, NEW a \in Admins, RecallNext(a) PROVE IInv'
<1> USE DEF IInv
<1> DEFINE i == cursor[a] + 1
           n == snap[a][i]
<1>0. i \in Rows /\ i \in 0 .. MaxAllocs
  <2>1. cursor[a] \in 0 .. MaxAllocs /\ cursor[a] < MaxAllocs
    BY DEF RecallNext, TypeOK
  <2> QED
    BY <2>1, PoolAssumption DEF Rows
<1>1. /\ i \in Rows /\ i \in 0 .. MaxAllocs /\ ruser[i] \in Ids /\ n \in Int
      /\ jpool[a] \in Pools /\ apc[a] = "loop"
  BY <1>0 DEF RecallNext, TypeOK, Blank
<1>2. /\ cursor' \in [Admins -> 0 .. MaxAllocs]
      /\ UNCHANGED <<pools, allocs, quota, looping, snap, audit>>
  BY <1>1 DEF RecallNext, TypeOK
<1>3. WithinBudget' /\ RecalledBounded'
  BY <1>2 DEF WithinBudget, RecalledBounded, pools, allocs
<1>4. CASE n > 0 /\ BeginRecall(a, jpool[a], ruser[i], n)
  <2>1. TypeOK'
    BY <1>1, <1>2, <1>4, BeginRecallType
  <2>2. LockHolds' /\ Blank'
    BY <1>1, <1>2, <1>4, BeginRecallIInv
  <2> QED
    BY <1>3, <2>1, <2>2
<1>5. CASE UNCHANGED <<apc, jpool, jrow, jamount>>
  BY <1>2, <1>3, <1>5 DEF TypeOK, LockHolds, Blank, NetAllocated, pools, allocs, audit
<1> QED
  BY <1>4, <1>5 DEF RecallNext

LEMMA RecallAllEndsIInv == ASSUME IInv, NEW a \in Admins, RecallAllEnds(a) PROVE IInv'
<1> USE DEF IInv
<1>1. Return(a) /\ UNCHANGED <<pools, allocs, quota, audit>>
  BY DEF RecallAllEnds
<1>2. TypeOK'
  BY <1>1, ReturnFacts DEF TypeOK, pools, allocs, audit
<1>3. WithinBudget' /\ RecalledBounded'
  BY <1>1 DEF WithinBudget, RecalledBounded, pools, allocs
<1>4. LockHolds'
  BY <1>1, LocksKept DEF pools, allocs
<1>5. Blank'
  BY <1>1, ReturnFacts DEF Blank, pools, allocs
<1> QED
  BY <1>2, <1>3, <1>4, <1>5

\* A rollover closes a pool only when nobody has locked it.
LEMMA RollOverIInv ==
  ASSUME IInv, NEW a \in Admins, NEW p \in Pools, RollOverPool(a, p) PROVE IInv'
<1> USE DEF IInv
<1>1. p \in 0 .. MaxPools /\ AvailableQuota(p) \in Int /\ 0 <= AvailableQuota(p)
  BY PoolAssumption DEF Pools, TypeOK, WithinBudget, AvailableQuota
<1>2. /\ UNCHANGED <<pools, allocs, quota, jrow, looping, snap, cursor, audit>>
      /\ apc[a] = "idle" /\ apc' = [apc EXCEPT ![a] = "close"]
      /\ jpool' = [jpool EXCEPT ![a] = p]
      /\ jamount' = [jamount EXCEPT ![a] = AvailableQuota(p)]
  BY DEF RollOverPool
<1>3. TypeOK'
  BY <1>1, <1>2 DEF TypeOK, pools, allocs, audit
<1>4. WithinBudget' /\ RecalledBounded'
  BY <1>2 DEF WithinBudget, RecalledBounded, pools, allocs
<1>5. LockHolds' /\ Blank'
  BY <1>1, <1>2 DEF LockHolds, Blank, NetAllocated, TypeOK, pools, allocs
<1> QED
  BY <1>3, <1>4, <1>5

LEMMA RollOverCloseIInv == ASSUME IInv, NEW a \in Admins, RollOverClose(a) PROVE IInv'
<1> USE DEF IInv
<1>1. TypeOK'
  BY DEF TypeOK, RollOverClose, allocs, locals, audit
<1>2. WithinBudget' /\ RecalledBounded'
  BY DEF WithinBudget, RecalledBounded, RollOverClose, allocs
<1>3. LockHolds' /\ Blank'
  BY DEF TypeOK, LockHolds, Blank, NetAllocated, RollOverClose, Locked, allocs, locals
<1> QED
  BY <1>1, <1>2, <1>3

LEMMA RollOverCreateIInv == ASSUME IInv, NEW a \in Admins, RollOverCreate(a) PROVE IInv'
<1> USE DEF IInv
<1>1. Return(a) /\ UNCHANGED <<allocs, quota>>
  BY DEF RollOverCreate
<1>2. CASE UNCHANGED <<pools, audit>>
  <2>1. TypeOK'
    BY <1>1, <1>2, ReturnFacts DEF TypeOK, pools, allocs, audit
  <2>2. WithinBudget' /\ RecalledBounded'
    BY <1>1, <1>2 DEF WithinBudget, RecalledBounded, pools, allocs
  <2>3. LockHolds'
    BY <1>1, <1>2, LocksKept DEF pools, allocs
  <2>4. Blank'
    BY <1>1, <1>2, ReturnFacts DEF Blank, pools, allocs
  <2> QED
    BY <2>1, <2>2, <2>3, <2>4
<1>3. ASSUME NEW p \in Pools, Insert(p, jamount[a]),
             source' = [source EXCEPT ![p] = jpool[a]],
             opening' = [opening EXCEPT ![p] = jamount[a]],
             carried' = carried + jamount[a], UNCHANGED <<bought, spent>>
      PROVE  IInv'
  <2>0. jamount[a] \in Int /\ 0 <= jamount[a] /\ jpool[a] \in 0 .. MaxPools
    BY DEF TypeOK, Blank, RollOverCreate
  <2>1. TypeOK'
    BY <1>1, <1>3, <2>0, ReturnFacts DEF TypeOK, Insert, allocs
  <2>2. WithinBudget' /\ RecalledBounded'
    BY <1>1, <1>3, <2>0 DEF TypeOK, WithinBudget, RecalledBounded, Blank, Insert, allocs
  <2>3. LockHolds'
    <3>1. \A q \in Pools : status[q] = "active" => status'[q] = "active"
      BY <1>3 DEF Insert, TypeOK
    <3> QED
      BY <1>1, <3>1, LocksKept DEF allocs
  <2>4. Blank'
    BY <1>1, <1>3, ReturnFacts DEF TypeOK, Blank, Insert, allocs
  <2> QED
    BY <2>1, <2>2, <2>3, <2>4
<1> QED
  BY <1>2, <1>3 DEF RollOverCreate

LEMMA NextIInv == ASSUME IInv, [Next]_vars PROVE IInv'
<1>1. CASE UNCHANGED vars
  BY <1>1 DEF IInv, TypeOK, WithinBudget, RecalledBounded, LockHolds, Blank,
     NetAllocated, vars, pools, allocs, locals, audit
<1>2. CASE Next
  <2>1. \A p \in Pools, n \in Amounts : CreatePool(p, n) \/ PurchaseToPool(p, n) => IInv'
    BY CreateIInv, PurchaseIInv
  <2>2. \A p \in Pools : ClosePool(p) => IInv'
    BY CloseIInv
  <2>3. \A p \in Pools, u \in Ids, n \in Amounts : AllocateFromPool(p, u, n) => IInv'
    BY AllocateIInv
  <2>4. \A u \in Users, n \in Spends : Spend(u, n) => IInv'
    BY SpendIInv
  <2>5. \A a \in Admins, p \in Pools : RecallAllFromPool(a, p) \/ RollOverPool(a, p) => IInv'
    BY RecallAllIInv, RollOverIInv
  <2>6. \A a \in Admins, p \in Pools, u \in Ids, n \in Amounts :
          RecallFromPool(a, p, u, n) => IInv'
    BY RecallIInv
  <2>7. \A a \in Admins : Administer(a) => IInv'
    BY CommitIInv, RecallNextIInv, RecallAllEndsIInv, RollOverCloseIInv,
       RollOverCreateIInv DEF Administer
  <2> QED
    BY <1>2, <2>1, <2>2, <2>3, <2>4, <2>5, <2>6, <2>7 DEF Next
<1> QED
  BY <1>1, <1>2

\* The inductive invariant holds in every reachable state.
THEOREM PoolInvariant == Spec => []IInv
  BY InitIInv, NextIInv, PTL DEF Spec

\* However purchases, allocations, recalls and rollovers interleave, no pool of
\* any size gives away more than it holds (AllocateFromPool under the row lock).
THEOREM BudgetTheorem == Spec => []WithinBudget
<1>1. IInv => WithinBudget
  BY DEF IInv
<1> QED
  BY <1>1, PoolInvariant, PTL

\* No allocation is recalled beyond its amount: the row lock carries the check
\* of RecallFromPool over to its update.
THEOREM RecallTheorem == Spec => []RecalledBounded
<1>1. IInv => RecalledBounded
  BY DEF IInv
<1> QED
  BY <1>1, PoolInvariant, PTL

LEMMA StepFrozen == ASSUME IInv, [Next]_vars PROVE [FrozenStep]_vars
<1> SUFFICES ASSUME Next PROVE FrozenStep
  OBVIOUS
<1> SUFFICES ASSUME NEW p \in Pools, status[p] = "closed"
             PROVE  status'[p] = "closed" /\ total'[p] = total[p] /\ used'[p] = used[p]
  BY DEF FrozenStep
<1> USE DEF IInv, TypeOK
<1>1. ASSUME NEW q \in Pools, NEW n \in Amounts, CreatePool(q, n) \/ PurchaseToPool(q, n)
      PROVE  status'[p] = "closed" /\ total'[p] = total[p] /\ used'[p] = used[p]
  BY <1>1 DEF CreatePool, Insert, PurchaseToPool
<1>2. ASSUME NEW q \in Pools, ClosePool(q)
      PROVE  status'[p] = "closed" /\ total'[p] = total[p] /\ used'[p] = used[p]
  BY <1>2 DEF ClosePool
<1>3. ASSUME NEW q \in Pools, NEW u \in Ids, NEW n \in Amounts, AllocateFromPool(q, u, n)
      PROVE  status'[p] = "closed" /\ total'[p] = total[p] /\ used'[p] = used[p]
  BY <1>3 DEF AllocateFromPool
<1>4. ASSUME NEW a \in Admins, RollOverClose(a) \/ RollOverCreate(a)
      PROVE  status'[p] = "closed" /\ total'[p] = total[p] /\ used'[p] = used[p]
  BY <1>4 DEF RollOverClose, RollOverCreate, Insert, pools
<1>5. ASSUME NEW a \in Admins, CommitRecall(a)
      PROVE  status'[p] = "closed" /\ total'[p] = total[p] /\ used'[p] = used[p]
  <2>1. jpool[a] # p /\ UNCHANGED <<status, total>>
    BY <1>5 DEF LockHolds, CommitRecall
  <2> QED
    BY <1>5, <2>1 DEF CommitRecall, Release
<1>6. ASSUME UNCHANGED pools
      PROVE  status'[p] = "closed" /\ total'[p] = total[p] /\ used'[p] = used[p]
  BY <1>6 DEF pools
<1>7. /\ \A u \in Users, n \in Spends : Spend(u, n) => UNCHANGED pools
      /\ \A a \in Admins, q \in Pools :
           RecallAllFromPool(a, q) \/ RollOverPool(a, q) => UNCHANGED pools
      /\ \A a \in Admins, q \in Pools, u \in Ids, n \in Amounts :
           RecallFromPool(a, q, u, n) => UNCHANGED pools
      /\ \A a \in Admins : RecallNext(a) \/ RecallAllEnds(a) => UNCHANGED pools
  BY DEF Spend, RecallAllFromPool, RollOverPool, RecallFromPool, RecallNext, RecallAllEnds
<1> QED
  BY <1>1, <1>2, <1>3, <1>4, <1>5, <1>6, <1>7 DEF Next, Administer

\* A closed pool never changes again, although ClosePool and RollOverPool take
\* no part in the transactions of a recall: the lock keeps the pool active
\* until the recall has committed.
THEOREM FrozenTheorem == Spec => ClosedPoolFrozen
  BY PoolInvariant, StepFrozen, PTL DEF Spec, ClosedPoolFrozen

-----------------------------------------------------------------------------
(* Sums over finite sets.  The induction theorems of the library take an     *)
(* operator, so the proofs below take a smallest counterexample instead.     *)

\* What MapThenSumSet computes, as an equation: the sums of all subsets.
Pick(s) == CHOOSE x \in s : TRUE
SumRule(f, S, g) ==
  g = [s \in SUBSET S |-> IF s = {} THEN 0 ELSE f[Pick(s)] + g[s \ {Pick(s)}]]

\* A sum is the member that solves its equation.
LEMMA TotalDef == ASSUME NEW f, NEW S PROVE Total(f, S) = (CHOOSE g : SumRule(f, S, g))[S]
  BY DEF Total, MapThenSumSet, MapThenFoldSet, SumRule, Pick

\* A non-empty set has a member to begin with.
LEMMA PickIn == ASSUME NEW s, s # {} PROVE Pick(s) \in s
  BY DEF Pick

\* A non-empty set of numbers has a least one.
LEMMA NatLeast ==
  ASSUME NEW T, T \subseteq Nat, T # {} PROVE \E n \in T : \A m \in T : n <= m
<1> DEFINE R == {ss \in Nat \X Nat : ss[1] < ss[2]}
<1>0. IsWellFoundedOn(R, Nat)
  BY NatLessThanWellFounded, Zenon DEF OpToRel
<1>1. PICK n \in T : \A m \in T : ~(<<m, n>> \in R)
  <2> HIDE DEF R
  <2> QED
    BY <1>0, WFMin
<1>2. \A m \in T : ~(m < n)
  BY <1>1
<1> QED
  BY <1>2

\* A set of subsets of a finite set has a smallest member.
LEMMA SetLeast ==
  ASSUME NEW S, IsFiniteSet(S), NEW B, B \subseteq SUBSET S, B # {}
  PROVE  \E s \in B : \A x \in s : s \ {x} \notin B
<1> DEFINE R == StrictSubsetOrdering(S)
<1>1. IsWellFoundedOn(R, SUBSET S)
  BY FS_StrictSubsetOrderingWellFounded, FS_FiniteSubsetsOfFinite
<1>2. PICK s \in B : \A t \in B : ~(<<t, s>> \in R)
  <2> HIDE DEF R
  <2> QED
    BY <1>1, WFMin
<1>3. ASSUME NEW x \in s PROVE s \ {x} \notin B
  <2>1. <<s \ {x}, s>> \in R
    BY <1>3 DEF StrictSubsetOrdering
  <2> QED
    BY <1>2, <2>1
<1> QED
  BY <1>3

\* The equation has a solution, by induction on the size of the subsets.
LEMMA SumExists ==
  ASSUME NEW f, NEW S, IsFiniteSet(S) PROVE \E g : SumRule(f, S, g)
<1> DEFINE Low(n) == {t \in SUBSET S : Cardinality(t) <= n}
           Rule(g, s) == IF s = {} THEN 0 ELSE f[Pick(s)] + g[s \ {Pick(s)}]
           Fits(n) == \E g : g = [s \in Low(n) |-> Rule(g, s)]
<1>0. \A t \in SUBSET S : IsFiniteSet(t) /\ Cardinality(t) \in Nat /\ Cardinality(t) <= Cardinality(S)
  BY FS_Subset, FS_CardinalityType
<1>1. Fits(0)
  <2>1. Low(0) = {{}}
    BY <1>0, FS_EmptySet
  <2>2. [s \in Low(0) |-> 0] = [s \in Low(0) |-> Rule([t \in Low(0) |-> 0], s)]
    BY <2>1
  <2> QED
    BY <2>2
<1>2. ASSUME NEW n \in Nat, Fits(n) PROVE Fits(n + 1)
  <2>1. PICK g : g = [s \in Low(n) |-> Rule(g, s)]
    BY <1>2
  <2> DEFINE h == [s \in Low(n + 1) |-> IF s \in Low(n) THEN g[s] ELSE Rule(g, s)]
  <2>2. ASSUME NEW s \in Low(n + 1) PROVE h[s] = Rule(h, s)
    <3>1. CASE s = {}
      <4>1. s \in Low(n)
        BY <3>1, <1>2, FS_EmptySet
      <4>2. g[s] = 0
        BY <2>1, <4>1, <3>1
      <4> QED
        BY <4>1, <4>2, <3>1
    <3>2. CASE s # {}
      <4> DEFINE t == s \ {Pick(s)}
      <4>1. t \in SUBSET S /\ Cardinality(t) = Cardinality(s) - 1
        BY <3>2, PickIn, <1>0, FS_RemoveElement
      <4>2. t \in Low(n) /\ t \in Low(n + 1)
        <5>1. Cardinality(s) \in Nat /\ Cardinality(s) <= n + 1
          BY <1>0
        <5> QED
          BY <4>1, <5>1
      <4>3. h[t] = g[t]
        BY <4>2
      <4>4. s \in Low(n) => g[s] = Rule(g, s)
        BY <2>1
      <4>5. h[s] = Rule(g, s)
        BY <4>4
      <4> QED
        BY <4>3, <4>5, <3>2
    <3> QED
      BY <3>1, <3>2
  <2>3. h = [s \in Low(n + 1) |-> Rule(h, s)]
    <3> HIDE DEF Rule
    <3> QED
      BY <2>2
  <2> QED
    BY <2>3
<1>3. \A n \in Nat : Fits(n)
  <2> HIDE DEF Fits
  <2> SUFFICES ASSUME {n \in Nat : ~Fits(n)} # {} PROVE FALSE
    OBVIOUS
  <2>1. PICK k \in {n \in Nat : ~Fits(n)} : \A m \in {n \in Nat : ~Fits(n)} : k <= m
    BY NatLeast
  <2>2. k # 0
    BY <1>1, <2>1
  <2>3. k - 1 \in Nat /\ ~(k <= k - 1)
    BY <2>1, <2>2
  <2>4. Fits(k - 1)
    BY <2>1, <2>3
  <2>5. Fits((k - 1) + 1)
    BY <1>2, <2>3, <2>4
  <2>6. (k - 1) + 1 = k
    BY <2>1
  <2> QED
    BY <2>1, <2>5, <2>6
<1>4. Low(Cardinality(S)) = SUBSET S
  BY <1>0
<1>5. Fits(Cardinality(S))
  BY <1>3, FS_CardinalityType
<1> QED
  BY <1>4, <1>5 DEF SumRule

\* Solutions for a set and for a part of it agree.
LEMMA SumUnique ==
  ASSUME NEW f, NEW S, IsFiniteSet(S), NEW T \in SUBSET S, NEW g, NEW h,
         SumRule(f, S, g), SumRule(f, T, h)
  PROVE  g[T] = h[T]
<1> DEFINE B == {s \in SUBSET T : g[s] # h[s]}
<1> SUFFICES ASSUME B # {} PROVE FALSE
  OBVIOUS
<1>1. IsFiniteSet(T)
  BY FS_Subset
<1>2. PICK s \in B : \A x \in s : s \ {x} \notin B
  <2> HIDE DEF B
  <2>1. B \subseteq SUBSET T
    BY DEF B
  <2> QED
    BY <1>1, <2>1, SetLeast
<1>3. /\ g[s] = IF s = {} THEN 0 ELSE f[Pick(s)] + g[s \ {Pick(s)}]
      /\ h[s] = IF s = {} THEN 0 ELSE f[Pick(s)] + h[s \ {Pick(s)}]
  BY DEF SumRule
<1>4. s # {} /\ Pick(s) \in s
  BY <1>3, PickIn
<1>5. g[s \ {Pick(s)}] = h[s \ {Pick(s)}]
  BY <1>2, <1>4
<1> QED
  BY <1>2, <1>3, <1>4, <1>5

\* So that a sum is its chosen summand and the sum of the rest,
LEMMA TotalRule ==
  ASSUME NEW f, NEW S, IsFiniteSet(S)
  PROVE  Total(f, S) = IF S = {} THEN 0 ELSE f[Pick(S)] + Total(f, S \ {Pick(S)})
<1> DEFINE T == S \ {Pick(S)}
           g == CHOOSE g : SumRule(f, S, g)
           h == CHOOSE h : SumRule(f, T, h)
<1>1. SumRule(f, S, g)
  BY SumExists
<1>2. SumRule(f, T, h)
  <2>1. IsFiniteSet(T)
    BY FS_Subset
  <2> QED
    BY <2>1, SumExists
<1>3. g[T] = h[T]
  <2> HIDE DEF g, h
  <2> QED
    BY <1>1, <1>2, SumUnique
<1>4. g[S] = IF S = {} THEN 0 ELSE f[Pick(S)] + g[T]
  <2> HIDE DEF g
  <2> QED
    BY <1>1 DEF SumRule
<1>5. Total(f, S) = g[S] /\ Total(f, T) = h[T]
  BY TotalDef
<1> HIDE DEF g, h
<1> QED
  BY <1>3, <1>4, <1>5

\* is an integer when the summands are,
LEMMA TotalInt ==
  ASSUME NEW f, NEW S, IsFiniteSet(S), \A x \in S : f[x] \in Int
  PROVE  Total(f, S) \in Int
<1> DEFINE B == {s \in SUBSET S : Total(f, s) \notin Int}
<1> SUFFICES ASSUME B # {} PROVE FALSE
  OBVIOUS
<1>1. PICK s \in B : \A x \in s : s \ {x} \notin B
  <2> HIDE DEF B
  <2>1. B \subseteq SUBSET S
    BY DEF B
  <2> QED
    BY <2>1, SetLeast
<1>2. Total(f, s) = IF s = {} THEN 0 ELSE f[Pick(s)] + Total(f, s \ {Pick(s)})
  BY TotalRule, FS_Subset
<1>3. s # {} => f[Pick(s)] \in Int /\ Total(f, s \ {Pick(s)}) \in Int
  BY <1>1, PickIn
<1> QED
  BY <1>1, <1>2, <1>3

\* and any summand can be taken out of it.
LEMMA TotalRemove ==
  ASSUME NEW f, NEW S, IsFiniteSet(S), \A x \in S : f[x] \in Int, NEW x \in S
  PROVE  Total(f, S) = f[x] + Total(f, S \ {x})
<1> DEFINE B == {s \in SUBSET S : \E y \in s : Total(f, s) # f[y] + Total(f, s \ {y})}
<1> SUFFICES ASSUME B # {} PROVE FALSE
  OBVIOUS
<1>1. PICK s \in B : \A y \in s : s \ {y} \notin B
  <2> HIDE DEF B
  <2>1. B \subseteq SUBSET S
    BY DEF B
  <2> QED
    BY <2>1, SetLeast
<1>2. PICK y \in s : Total(f, s) # f[y] + Total(f, s \ {y})
  BY <1>1
<1> DEFINE p == Pick(s)
<1>3. p \in s /\ Total(f, s) = f[p] + Total(f, s \ {p})
  BY <1>2, PickIn, TotalRule, FS_Subset
<1>4. p # y
  BY <1>2, <1>3
<1> DEFINE r == (s \ {y}) \ {p}
<1>5. Total(f, s \ {p}) = f[y] + Total(f, r)
  <2>1. Total(f, s \ {p}) = f[y] + Total(f, (s \ {p}) \ {y})
    BY <1>1, <1>3, <1>4
  <2>2. (s \ {p}) \ {y} = r
    OBVIOUS
  <2> QED
    BY <2>1, <2>2
<1>6. Total(f, s \ {y}) = f[p] + Total(f, r)
  BY <1>1, <1>3, <1>4
<1>8. f[p] \in Int /\ f[y] \in Int /\ Total(f, r) \in Int
  <2>1. (s \ {y}) \ {p} \in SUBSET S
    OBVIOUS
  <2>2. IsFiniteSet((s \ {y}) \ {p})
    BY <2>1, FS_Subset
  <2> QED
    BY <1>3, <2>1, <2>2, TotalInt
<1> HIDE DEF p, r
<1> QED
  BY <1>2, <1>3, <1>5, <1>6, <1>8

\* A sum depends on its summands only,
LEMMA TotalSame ==
  ASSUME NEW f, NEW g, NEW S, IsFiniteSet(S), \A x \in S : f[x] = g[x]
  PROVE  Total(f, S) = Total(g, S)
<1> DEFINE B == {s \in SUBSET S : Total(f, s) # Total(g, s)}
<1> SUFFICES ASSUME B # {} PROVE FALSE
  OBVIOUS
<1>1. PICK s \in B : \A x \in s : s \ {x} \notin B
  <2> HIDE DEF B
  <2>1. B \subseteq SUBSET S
    BY DEF B
  <2> QED
    BY <2>1, SetLeast
<1>2. /\ Total(f, s) = IF s = {} THEN 0 ELSE f[Pick(s)] + Total(f, s \ {Pick(s)})
      /\ Total(g, s) = IF s = {} THEN 0 ELSE g[Pick(s)] + Total(g, s \ {Pick(s)})
  BY TotalRule, FS_Subset
<1>3. s # {} => f[Pick(s)] = g[Pick(s)] /\ Total(f, s \ {Pick(s)}) = Total(g, s \ {Pick(s)})
  BY <1>1, PickIn
<1> QED
  BY <1>1, <1>2, <1>3

\* and changes by what one of them changes.
LEMMA TotalUpdate ==
  ASSUME NEW f, NEW g, NEW S, IsFiniteSet(S), NEW x \in S,
         \A y \in S : f[y] \in Int, g[x] \in Int, \A y \in S \ {x} : g[y] = f[y]
  PROVE  Total(g, S) = Total(f, S) - f[x] + g[x]
<1>1. IsFiniteSet(S \ {x})
  BY FS_Subset
<1>2. Total(f, S \ {x}) = Total(g, S \ {x}) /\ Total(f, S \ {x}) \in Int
  BY <1>1, TotalSame, TotalInt
<1>3. \A y \in S : g[y] \in Int
  OBVIOUS
<1>4. Total(f, S) = f[x] + Total(f, S \ {x}) /\ Total(g, S) = g[x] + Total(g, S \ {x})
  BY <1>3, TotalRemove
<1> QED
  BY <1>2, <1>4

\* A sum of zeros is zero.
LEMMA TotalZero ==
  ASSUME NEW f, NEW S, IsFiniteSet(S), \A x \in S : f[x] = 0
  PROVE  Total(f, S) = 0
<1> DEFINE B == {s \in SUBSET S : Total(f, s) # 0}
<1> SUFFICES ASSUME B # {} PROVE FALSE
  OBVIOUS
<1>1. PICK s \in B : \A x \in s : s \ {x} \notin B
  <2> HIDE DEF B
  <2>1. B \subseteq SUBSET S
    BY DEF B
  <2> QED
    BY <2>1, SetLeast
<1>2. Total(f, s) = IF s = {} THEN 0 ELSE f[Pick(s)] + Total(f, s \ {Pick(s)})
  BY TotalRule, FS_Subset
<1>3. s # {} => f[Pick(s)] = 0 /\ Total(f, s \ {Pick(s)}) = 0
  BY <1>1, PickIn
<1> QED
  BY <1>1, <1>2, <1>3

-----------------------------------------------------------------------------
(* Reconciliation and conservation. *)

Net       == [i \in Rows |-> NetAllocated(i)]
Available == [p \in Pools |-> AvailableQuota(p)]
RowsOf(p) == {i \in Rows : rpool[i] = p}

LEMMA Finite ==
  /\ IsFiniteSet(Pools) /\ IsFiniteSet(Rows) /\ IsFiniteSet(Users)
  /\ IsFiniteSet(Orphans) /\ \A p \in Pools : IsFiniteSet(RowsOf(p))
<1>1. IsFiniteSet(Pools) /\ IsFiniteSet(Rows)
  BY PoolAssumption, FS_Interval DEF Pools, Rows
<1>2. Orphans \in SUBSET Rows /\ \A p \in Pools : RowsOf(p) \in SUBSET Rows
  BY DEF RowsOf, Orphans
<1> QED
  BY <1>1, <1>2, PoolAssumption, FS_Subset

LEMMA InitSums == Init => Reconciled /\ Conservation
<1> SUFFICES ASSUME Init PROVE Reconciled /\ Conservation
  OBVIOUS
<1>1. \A i \in Rows : Net[i] = 0
  BY DEF Init, Net, NetAllocated
<1>2. \A p \in Pools : Available[p] = 0
  BY DEF Init, Available, AvailableQuota
<1>3. \A p \in Pools : Total(Net, RowsOf(p)) = 0
  BY <1>1, Finite, TotalZero DEF RowsOf
<1>4. Total(Available, Pools) = 0 /\ Total(quota, Users) = 0
  BY <1>2, Finite, TotalZero DEF Init
<1>5. Reconciled
  BY <1>3 DEF Init, Reconciled, Net, RowsOf
<1>6. Total(Net, Orphans) = 0
  BY <1>1, Finite, TotalZero DEF Orphans
<1> QED
  BY <1>4, <1>5, <1>6 DEF Init, Conservation, Available, Net

\* Steps that move no quota.
LEMMA ReconciledKept ==
  ASSUME Reconciled, UNCHANGED <<used, rpool, allocated, recalled>> PROVE Reconciled'
  BY DEF Reconciled, NetAllocated

LEMMA ConservationKept ==
  ASSUME Conservation, UNCHANGED <<total, used, quota, spent, bought, carried>>,
         UNCHANGED <<ruser, allocated, recalled>>
  PROVE  Conservation'
  BY DEF Conservation, AvailableQuota, NetAllocated, Orphans

\* The two readings of the law, before and after a step, in named sums.
LEMMA ConservationSums ==
  /\ Conservation <=> Total(Available, Pools) + Total(quota, Users) + spent
                        + Total(Net, Orphans) = bought + carried
  /\ Conservation' <=> Total(Available', Pools) + Total(quota', Users) + spent'
                        + Total(Net', Orphans') = bought' + carried'
  BY DEF Conservation, Available, Net

\* The sums of the pools and of the users, as integers.
LEMMA SumTypes ==
  ASSUME TypeOK
  PROVE  /\ \A p \in Pools : Available[p] \in Int
         /\ \A u \in Users : quota[u] \in Int
         /\ \A i \in Rows : Net[i] \in Int
         /\ Total(Available, Pools) \in Int /\ Total(quota, Users) \in Int
         /\ \A p \in Pools : Total(Net, RowsOf(p)) \in Int
         /\ Total(Net, Orphans) \in Int
<1>1. /\ \A p \in Pools : Available[p] \in Int
      /\ \A u \in Users : quota[u] \in Int
      /\ \A i \in Rows : Net[i] \in Int
  BY DEF TypeOK, Available, AvailableQuota, Net, NetAllocated
<1>2. /\ \A p \in Pools : \A i \in RowsOf(p) : Net[i] \in Int
      /\ \A i \in Orphans : Net[i] \in Int
  BY <1>1 DEF RowsOf, Orphans
<1> QED
  BY <1>1, <1>2, Finite, TotalInt

\* What one pool's balance changes by, the sum of the pools changes by.
LEMMA AvailableChange ==
  ASSUME TypeOK, TypeOK', NEW p \in Pools,
         \A q \in Pools \ {p} : AvailableQuota(q)' = AvailableQuota(q)
  PROVE  Total(Available', Pools)
           = Total(Available, Pools) - AvailableQuota(p) + AvailableQuota(p)'
<1>1. \A q \in Pools : Available[q] = AvailableQuota(q) /\ Available'[q] = AvailableQuota(q)'
  BY DEF Available
<1>2. \A q \in Pools : AvailableQuota(q) \in Int /\ AvailableQuota(q)' \in Int
  BY DEF TypeOK, AvailableQuota
<1>3. /\ \A q \in Pools : Available[q] \in Int
      /\ Available'[p] \in Int
      /\ \A q \in Pools \ {p} : Available'[q] = Available[q]
  BY <1>1, <1>2
<1>4. Total(Available', Pools) = Total(Available, Pools) - Available[p] + Available'[p]
  BY <1>3, Finite, TotalUpdate
<1> QED
  BY <1>1, <1>4

LEMMA QuotaChange ==
  ASSUME TypeOK, NEW u \in Users, NEW n \in Int,
         quota'[u] = quota[u] + n, \A v \in Users \ {u} : quota'[v] = quota[v]
  PROVE  Total(quota', Users) = Total(quota, Users) + n
<1>1. \A v \in Users : quota[v] \in Int
  BY DEF TypeOK
<1>2. quota'[u] \in Int
  BY <1>1
<1>3. Total(quota', Users) = Total(quota, Users) - quota[u] + quota'[u]
  BY <1>1, <1>2, Finite, TotalUpdate
<1>4. Total(quota, Users) \in Int
  BY SumTypes
<1> QED
  BY <1>1, <1>3, <1>4

\* A new row joins the sum of its pool.
LEMMA AllocateReconciled ==
  ASSUME IInv, Reconciled, NEW p \in Pools, NEW u \in Ids, NEW n \in Amounts,
         AllocateFromPool(p, u, n)
  PROVE  Reconciled'
<1> DEFINE k == nalloc + 1
<1>0. n \in Int /\ k \in Rows
  BY AmountsAreNat, PoolAssumption DEF IInv, TypeOK, AllocateFromPool, Rows
<1>1. /\ rpool[k] = 0 /\ Net[k] = 0
      /\ rpool'[k] = p /\ Net'[k] = n
      /\ \A i \in Rows \ {k} : rpool'[i] = rpool[i] /\ Net'[i] = Net[i]
  BY <1>0 DEF IInv, TypeOK, Blank, AllocateFromPool, Net, NetAllocated
<1>2. /\ used'[p] = used[p] + n
      /\ \A q \in Pools \ {p} : used'[q] = used[q]
  BY <1>0 DEF IInv, TypeOK, AllocateFromPool
<1>3. 0 \notin Pools
  BY DEF Pools
<1>4. ASSUME NEW q \in Pools PROVE used'[q] = Total(Net', RowsOf(q)')
  <2>1. used[q] = Total(Net, RowsOf(q))
    BY DEF Reconciled, Net, RowsOf
  <2>2. k \notin RowsOf(q)
    BY <1>1, <1>3 DEF RowsOf
  <2>3. Total(Net', RowsOf(q)) = Total(Net, RowsOf(q))
    <3>1. \A i \in RowsOf(q) : Net'[i] = Net[i]
      BY <1>1, <2>2 DEF RowsOf
    <3> QED
      BY <3>1, Finite, TotalSame
  <2>4. CASE q # p
    <3>1. RowsOf(q)' = RowsOf(q)
      BY <1>0, <1>1, <1>3, <2>4 DEF RowsOf
    <3> QED
      BY <1>2, <2>1, <2>3, <2>4, <3>1
  <2>5. CASE q = p
    <3>1. RowsOf(q)' = RowsOf(q) \cup {k}
      BY <1>0, <1>1, <2>5 DEF RowsOf
    <3>2. RowsOf(q)' \ {k} = RowsOf(q)
      BY <2>2, <3>1
    <3>3. IsFiniteSet(RowsOf(q)')
      BY <3>1, Finite, FS_AddElement
    <3>4. \A i \in RowsOf(q)' : Net'[i] \in Int
      <4>1. \A i \in Rows : Net[i] \in Int
        BY SumTypes DEF IInv
      <4>2. \A i \in Rows : Net'[i] \in Int
        BY <1>0, <1>1, <4>1
      <4> QED
        BY <4>2 DEF RowsOf
    <3>5. Total(Net', RowsOf(q)') = Net'[k] + Total(Net', RowsOf(q))
      BY <3>1, <3>2, <3>3, <3>4, TotalRemove
    <3>6. Total(Net, RowsOf(q)) \in Int
      BY SumTypes DEF IInv
    <3> QED
      BY <1>0, <1>1, <1>2, <2>1, <2>3, <2>5, <3>5, <3>6
  <2> QED
    BY <2>4, <2>5
<1> QED
  BY <1>4 DEF Reconciled, Net, RowsOf

\* A recall takes the same amount from its row and from its pool.
LEMMA CommitReconciled ==
  ASSUME IInv, Reconciled, NEW a \in Admins, CommitRecall(a) PROVE Reconciled'
<1> DEFINE k == jrow[a]
           p == jpool[a]
           n == jamount[a]
<1>1. k \in Rows /\ p \in Pools /\ rpool[k] = p /\ n \in Int
  <2>1. k \in 1 .. nalloc /\ p \in Pools /\ rpool[k] = p
    BY DEF IInv, LockHolds, CommitRecall
  <2> QED
    BY <2>1 DEF IInv, TypeOK, Rows
<1>2. /\ used' = [used EXCEPT ![p] = @ - n] /\ UNCHANGED <<rpool, allocated>>
      /\ recalled' = [recalled EXCEPT ![k] = @ + n]
  BY DEF CommitRecall, Release
<1> HIDE DEF k, p, n
<1>3. /\ Net'[k] = Net[k] - n
      /\ \A i \in Rows \ {k} : Net'[i] = Net[i]
      /\ \A i \in Rows : Net[i] \in Int
  BY <1>1, <1>2 DEF IInv, TypeOK, Net, NetAllocated
<1>4. /\ used'[p] = used[p] - n /\ used[p] \in Int
      /\ \A q \in Pools \ {p} : used'[q] = used[q]
  BY <1>1, <1>2 DEF IInv, TypeOK
<1>5. ASSUME NEW q \in Pools PROVE used'[q] = Total(Net', RowsOf(q))
  <2>1. used[q] = Total(Net, RowsOf(q)) /\ Total(Net, RowsOf(q)) \in Int
    BY SumTypes DEF IInv, Reconciled, Net, RowsOf
  <2>2. CASE q # p
    <3>1. \A i \in RowsOf(q) : Net'[i] = Net[i]
      BY <1>1, <1>3, <2>2 DEF RowsOf
    <3> QED
      BY <1>4, <2>1, <2>2, <3>1, Finite, TotalSame
  <2>3. CASE q = p
    <3>1. /\ k \in RowsOf(q) /\ \A i \in RowsOf(q) : Net[i] \in Int
          /\ Net'[k] \in Int /\ \A i \in RowsOf(q) \ {k} : Net'[i] = Net[i]
      BY <1>1, <1>3, <2>3 DEF RowsOf
    <3>2. Total(Net', RowsOf(q)) = Total(Net, RowsOf(q)) - Net[k] + Net'[k]
      BY <3>1, Finite, TotalUpdate
    <3> QED
      BY <1>1, <1>3, <1>4, <2>1, <2>3, <3>2
  <2> QED
    BY <2>2, <2>3
<1> QED
  BY <1>2, <1>5 DEF Reconciled, Net, RowsOf

LEMMA CommitConservation ==
  ASSUME IInv, Conservation, NEW a \in Admins, CommitRecall(a) PROVE Conservation'
<1> SUFFICES ASSUME NEW p, p = jpool[a], NEW u, u = ruser[jrow[a]], NEW n, n = jamount[a]
             PROVE  Conservation'
  OBVIOUS
<1>1. u \in Users /\ p \in Pools /\ n \in Int /\ jrow[a] \in Rows
  <2>1. jrow[a] \in 1 .. nalloc /\ p \in Pools /\ u \in Users
    BY DEF IInv, LockHolds, CommitRecall
  <2> QED
    BY <2>1 DEF IInv, TypeOK, Rows
<1>2. /\ used' = [used EXCEPT ![p] = @ - n]
      /\ quota' = [quota EXCEPT ![u] = @ - n]
      /\ UNCHANGED <<total, spent, bought, carried>>
  BY DEF CommitRecall, Release, audit
<1>3. /\ AvailableQuota(p)' = AvailableQuota(p) + n /\ AvailableQuota(p) \in Int
      /\ \A q \in Pools \ {p} : AvailableQuota(q)' = AvailableQuota(q)
  BY <1>1, <1>2 DEF IInv, TypeOK, AvailableQuota
<1>4. Total(Available', Pools) = Total(Available, Pools) + n
  BY <1>1, <1>3, CommitIInv, AvailableChange, SumTypes DEF IInv
<1>5. Total(quota', Users) = Total(quota, Users) - n
  <2>1. /\ quota'[u] = quota[u] + (-n) /\ -n \in Int
        /\ \A v \in Users \ {u} : quota'[v] = quota[v]
    BY <1>1, <1>2 DEF IInv, TypeOK
  <2>2. Total(quota', Users) = Total(quota, Users) + (-n)
    BY <1>1, <2>1, QuotaChange DEF IInv
  <2> QED
    BY <1>1, <2>2, SumTypes DEF IInv
<1>6. Total(Net', Orphans') = Total(Net, Orphans)
  <2>1. /\ UNCHANGED <<ruser, allocated>> /\ jrow[a] \notin Orphans
        /\ recalled' = [recalled EXCEPT ![jrow[a]] = @ + jamount[a]]
    BY <1>1 DEF CommitRecall, Orphans
  <2>2. Orphans' = Orphans /\ \A i \in Orphans : Net'[i] = Net[i]
    BY <2>1 DEF Orphans, Net, NetAllocated, IInv, TypeOK
  <2> QED
    BY <2>2, Finite, TotalSame
<1>7. /\ Total(Available, Pools) \in Int /\ Total(quota, Users) \in Int /\ spent \in Int
      /\ Total(Net, Orphans) \in Int
  BY SumTypes DEF IInv, TypeOK
<1> QED
  BY <1>1, <1>2, <1>4, <1>5, <1>6, <1>7, ConservationSums

\* Quota enters a pool when it is bought or carried over.
LEMMA FillConservation ==
  ASSUME IInv, IInv', Conservation, NEW p \in Pools, NEW n \in Int,
         AvailableQuota(p)' = AvailableQuota(p) + n,
         \A q \in Pools \ {p} : AvailableQuota(q)' = AvailableQuota(q),
         bought' + carried' = bought + carried + n,
         UNCHANGED <<quota, spent, ruser, allocated, recalled>>
  PROVE  Conservation'
<1>1. AvailableQuota(p) \in Int
  BY DEF IInv, TypeOK, AvailableQuota
<1>2. Total(Available', Pools) = Total(Available, Pools) + n
  BY <1>1, AvailableChange, SumTypes DEF IInv
<1>3. /\ Total(Available, Pools) \in Int /\ Total(quota, Users) \in Int
      /\ spent \in Int /\ bought \in Int /\ carried \in Int /\ Total(Net, Orphans) \in Int
  BY SumTypes DEF IInv, TypeOK
<1>4. Net' = Net /\ Orphans' = Orphans
  BY DEF Net, NetAllocated, Orphans
<1> QED
  BY <1>2, <1>3, <1>4, ConservationSums

LEMMA InsertAvailable ==
  ASSUME IInv, NEW p \in Pools, NEW n \in Int, Insert(p, n)
  PROVE  /\ AvailableQuota(p)' = AvailableQuota(p) + n
         /\ \A q \in Pools \ {p} : AvailableQuota(q)' = AvailableQuota(q)
  BY DEF IInv, TypeOK, Blank, Insert, AvailableQuota

\* ... moves to a user when it is allocated, or into a row of nobody ...
LEMMA AllocateOrphans ==
  ASSUME IInv, NEW p \in Pools, NEW u \in Ids, NEW n \in Amounts, AllocateFromPool(p, u, n)
  PROVE  Total(Net', Orphans')
           = Total(Net, Orphans) + IF u \in Users THEN 0 ELSE n
<1> DEFINE k == nalloc + 1
           S == Orphans \ {k}
<1>0. n \in Int /\ k \in Rows
  BY AmountsAreNat, PoolAssumption DEF IInv, TypeOK, AllocateFromPool, Rows
<1>1. /\ Net[k] = 0 /\ Net'[k] = n /\ ruser'[k] = u
      /\ \A i \in Rows \ {k} : ruser'[i] = ruser[i] /\ Net'[i] = Net[i]
  <2>1. ruser'[k] = u /\ \A i \in Rows \ {k} : ruser'[i] = ruser[i]
    BY <1>0 DEF IInv, TypeOK, AllocateFromPool
  <2>2. /\ allocated[k] = 0 /\ recalled[k] = 0 /\ recalled' = recalled
        /\ allocated' = [allocated EXCEPT ![k] = n]
    BY <1>0 DEF IInv, TypeOK, Blank, AllocateFromPool
  <2>3. /\ Net[k] = 0 /\ Net'[k] = n
        /\ \A i \in Rows \ {k} : Net'[i] = Net[i]
    BY <1>0, <2>2 DEF IInv, TypeOK, Net, NetAllocated
  <2> QED
    BY <2>1, <2>3
<1>2. \A i \in Rows : Net[i] \in Int
  BY SumTypes DEF IInv
<1>3. \A i \in Rows : Net'[i] \in Int
  BY <1>0, <1>1, <1>2
<1> HIDE DEF k
<1>4. /\ IsFiniteSet(S) /\ IsFiniteSet(Orphans) /\ IsFiniteSet(Orphans')
      /\ S \subseteq Rows /\ Orphans \subseteq Rows /\ Orphans' \subseteq Rows
      /\ Orphans' \ {k} = S /\ (k \in Orphans' <=> u \notin Users)
  <2>1. /\ Orphans' \subseteq Rows /\ Orphans \subseteq Rows /\ S \subseteq Rows
        /\ Orphans' \ {k} = S /\ (k \in Orphans' <=> u \notin Users)
    BY <1>0, <1>1 DEF Orphans
  <2> QED
    BY <2>1, Finite, FS_Subset
<1> HIDE DEF S
<1>5. Total(Net', S) = Total(Net, S) /\ Total(Net, S) \in Int
  <2>1. k \notin S
    BY DEF S
  <2>2. \A i \in S : Net'[i] = Net[i] /\ Net[i] \in Int
    BY <1>1, <1>2, <1>4, <2>1
  <2> QED
    BY <1>4, <2>2, TotalSame, TotalInt
<1>6. Total(Net, Orphans) = Total(Net, S)
  <2>1. CASE k \in Orphans
    <3>1. Total(Net, Orphans) = Net[k] + Total(Net, Orphans \ {k})
      BY <1>2, <1>4, <2>1, TotalRemove
    <3> QED
      BY <1>1, <1>5, <3>1 DEF S
  <2>2. CASE k \notin Orphans
    BY <2>2 DEF S
  <2> QED
    BY <2>1, <2>2
<1>7. CASE u \in Users
  <2>1. Orphans' = S
    BY <1>4, <1>7
  <2> QED
    BY <1>5, <1>6, <1>7, <2>1
<1>8. CASE u \notin Users
  <2>1. Total(Net', Orphans') = Net'[k] + Total(Net', Orphans' \ {k})
    BY <1>3, <1>4, <1>8, TotalRemove
  <2>2. Total(Net', Orphans') = n + Total(Net, S)
    BY <1>1, <1>4, <1>5, <2>1
  <2> QED
    BY <1>0, <1>5, <1>6, <1>8, <2>2
<1> QED
  BY <1>7, <1>8

LEMMA AllocateConservation ==
  ASSUME IInv, Conservation, NEW p \in Pools, NEW u \in Ids, NEW n \in Amounts,
         AllocateFromPool(p, u, n)
  PROVE  Conservation'
<1>1. n \in Int
  BY AmountsAreNat
<1>2. /\ AvailableQuota(p)' = AvailableQuota(p) - n /\ AvailableQuota(p) \in Int
      /\ \A q \in Pools \ {p} : AvailableQuota(q)' = AvailableQuota(q)
      /\ UNCHANGED <<spent, bought, carried>>
  BY <1>1 DEF IInv, TypeOK, AvailableQuota, AllocateFromPool, audit
<1>3. Total(Available', Pools) = Total(Available, Pools) - n
  BY <1>1, <1>2, AllocateIInv, AvailableChange, SumTypes DEF IInv
<1>4. Total(quota', Users) = Total(quota, Users) + IF u \in Users THEN n ELSE 0
  <2>0. quota' = [v \in Users |-> IF v = u THEN quota[v] + n ELSE quota[v]]
    BY DEF AllocateFromPool, Credit
  <2>1. CASE u \in Users
    <3>1. quota'[u] = quota[u] + n /\ \A v \in Users \ {u} : quota'[v] = quota[v]
      BY <2>0, <2>1
    <3> QED
      BY <1>1, <2>1, <3>1, QuotaChange DEF IInv
  <2>2. CASE u \notin Users
    <3>1. \A v \in Users : quota'[v] = quota[v]
      BY <2>0, <2>2
    <3>2. Total(quota', Users) = Total(quota, Users)
      BY <3>1, Finite, TotalSame
    <3> QED
      BY <2>2, <3>2, SumTypes DEF IInv
  <2> QED
    BY <2>1, <2>2
<1>5. /\ Total(Available, Pools) \in Int /\ Total(quota, Users) \in Int /\ spent \in Int
      /\ Total(Net, Orphans) \in Int
  BY SumTypes DEF IInv, TypeOK
<1>6. Total(Net', Orphans') = Total(Net, Orphans) + IF u \in Users THEN 0 ELSE n
  BY AllocateOrphans
<1> QED
  BY <1>1, <1>2, <1>3, <1>4, <1>5, <1>6, ConservationSums

\* ... and leaves when it is spent.
LEMMA SpendConservation ==
  ASSUME IInv, Conservation, NEW u \in Users, NEW n \in Spends, Spend(u, n)
  PROVE  Conservation'
<1>1. n \in Int /\ quota[u] \in Int /\ spent \in Int
  BY AmountsAreNat DEF IInv, TypeOK
<1>2. /\ quota'[u] = quota[u] + (-n) /\ -n \in Int
      /\ \A v \in Users \ {u} : quota'[v] = quota[v]
      /\ spent' = spent + n
      /\ UNCHANGED <<total, used, bought, carried, ruser, allocated, recalled>>
  BY <1>1 DEF IInv, TypeOK, Spend, pools, allocs
<1>3. Total(quota', Users) = Total(quota, Users) + (-n)
  BY <1>2, QuotaChange DEF IInv
<1>4. Available' = Available /\ Net' = Net /\ Orphans' = Orphans
  BY <1>2 DEF Available, AvailableQuota, Net, NetAllocated, Orphans
<1>5. /\ Total(Available, Pools) \in Int /\ Total(quota, Users) \in Int
      /\ Total(Net, Orphans) \in Int
  BY SumTypes DEF IInv
<1> QED
  BY <1>1, <1>2, <1>3, <1>4, <1>5, ConservationSums

LEMMA RollOverCreateConservation ==
  ASSUME IInv, Conservation, NEW a \in Admins, RollOverCreate(a) PROVE Conservation'
<1>1. UNCHANGED <<quota, ruser, allocated, recalled>>
  BY DEF RollOverCreate, allocs
<1>2. CASE UNCHANGED <<pools, audit>>
  BY <1>1, <1>2, ConservationKept DEF pools, audit
<1>3. ASSUME NEW p \in Pools, Insert(p, jamount[a]), carried' = carried + jamount[a],
             UNCHANGED <<bought, spent>>
      PROVE  Conservation'
  <2>1. jamount[a] \in Int /\ bought \in Int /\ carried \in Int
    BY DEF IInv, TypeOK
  <2>2. bought' + carried' = bought + carried + jamount[a]
    BY <1>3, <2>1
  <2> QED
    BY <1>1, <1>3, <2>1, <2>2, InsertAvailable, RollOverCreateIInv, FillConservation
<1> QED
  BY <1>2, <1>3 DEF RollOverCreate

LEMMA NextSums ==
  ASSUME IInv, Reconciled, Conservation, [Next]_vars PROVE Reconciled' /\ Conservation'
<1>1. CASE UNCHANGED vars
  BY <1>1, ReconciledKept, ConservationKept DEF vars, pools, allocs, audit
<1>2. ASSUME NEW p \in Pools, NEW n \in Amounts, CreatePool(p, n)
      PROVE  Reconciled' /\ Conservation'
  <2>1. Reconciled'
    BY <1>2, ReconciledKept DEF CreatePool, Insert, allocs
  <2>2. /\ bought' + carried' = bought + carried + n /\ n \in Int
        /\ UNCHANGED <<quota, spent, ruser, allocated, recalled>>
    BY <1>2, AmountsAreNat DEF IInv, TypeOK, CreatePool, allocs
  <2>3. Insert(p, n)
    BY <1>2 DEF CreatePool
  <2> QED
    BY <1>2, <2>1, <2>2, <2>3, InsertAvailable, CreateIInv, FillConservation
<1>3. ASSUME NEW p \in Pools, NEW n \in Amounts, PurchaseToPool(p, n)
      PROVE  Reconciled' /\ Conservation'
  <2>1. Reconciled'
    BY <1>3, ReconciledKept DEF PurchaseToPool, allocs
  <2>2. /\ bought' + carried' = bought + carried + n /\ n \in Int
        /\ UNCHANGED <<quota, spent, ruser, allocated, recalled>>
    BY <1>3, AmountsAreNat DEF IInv, TypeOK, PurchaseToPool, allocs
  <2>3. /\ AvailableQuota(p)' = AvailableQuota(p) + n
        /\ \A q \in Pools \ {p} : AvailableQuota(q)' = AvailableQuota(q)
    BY <1>3, <2>2 DEF IInv, TypeOK, PurchaseToPool, AvailableQuota
  <2> QED
    BY <1>3, <2>1, <2>2, <2>3, PurchaseIInv, FillConservation
<1>4. ASSUME NEW p \in Pools, NEW u \in Ids, NEW n \in Amounts, AllocateFromPool(p, u, n)
      PROVE  Reconciled' /\ Conservation'
  BY <1>4, AllocateReconciled, AllocateConservation
<1>5. ASSUME NEW u \in Users, NEW n \in Spends, Spend(u, n)
      PROVE  Reconciled' /\ Conservation'
  <2>1. Reconciled'
    BY <1>5, ReconciledKept DEF Spend, pools, allocs
  <2> QED
    BY <1>5, <2>1, SpendConservation
<1>6. ASSUME NEW a \in Admins, CommitRecall(a) PROVE Reconciled' /\ Conservation'
  BY <1>6, CommitReconciled, CommitConservation
<1>7. ASSUME NEW a \in Admins, RollOverCreate(a) PROVE Reconciled' /\ Conservation'
  <2>1. UNCHANGED <<used, rpool, allocated, recalled>>
    BY <1>7 DEF RollOverCreate, Insert, pools, allocs
  <2> QED
    BY <1>7, <2>1, ReconciledKept, RollOverCreateConservation
<1>8. ASSUME UNCHANGED <<total, used, rpool, ruser, allocated, recalled, quota, spent, bought, carried>>
      PROVE  Reconciled' /\ Conservation'
  BY <1>8, ReconciledKept, ConservationKept
<1>9. /\ \A p \in Pools : ClosePool(p) =>
           UNCHANGED <<total, used, rpool, ruser, allocated, recalled, quota, spent, bought, carried>>
      /\ \A a \in Admins, p \in Pools : RecallAllFromPool(a, p) \/ RollOverPool(a, p) =>
           UNCHANGED <<total, used, rpool, ruser, allocated, recalled, quota, spent, bought, carried>>
      /\ \A a \in Admins, p \in Pools, u \in Ids, n \in Amounts : RecallFromPool(a, p, u, n) =>
           UNCHANGED <<total, used, rpool, ruser, allocated, recalled, quota, spent, bought, carried>>
      /\ \A a \in Admins : RecallNext(a) \/ RecallAllEnds(a) \/ RollOverClose(a) =>
           UNCHANGED <<total, used, rpool, ruser, allocated, recalled, quota, spent, bought, carried>>
  BY DEF ClosePool, RecallAllFromPool, RollOverPool, RecallFromPool, RecallNext, RecallAllEnds,
     RollOverClose, pools, allocs, audit
<1> QED
  BY <1>1, <1>2, <1>3, <1>4, <1>5, <1>6, <1>7, <1>8, <1>9 DEF Next, Administer

\* Whatever is allocated and recalled, and in whatever order, a pool's used_quota
\* is the sum of the net allocations that its reconciliation lists.
THEOREM ReconciledTheorem == Spec => []Reconciled
<1>1. Init => Reconciled /\ Conservation
  BY InitSums
<1>2. IInv /\ (Reconciled /\ Conservation) /\ [Next]_vars => (Reconciled /\ Conservation)'
  BY NextSums
<1> QED
  BY <1>1, <1>2, PoolInvariant, PTL DEF Spec

\* No interleaving of pool operations and spending creates or destroys quota, for
\* any number of pools, allocations and users, when what was allocated to ids
\* that nobody has is counted with the rows that list it.
THEOREM ConservationTheorem == Spec => []Conservation
<1>1. Init => Reconciled /\ Conservation
  BY InitSums
<1>2. IInv /\ (Reconciled /\ Conservation) /\ [Next]_vars => (Reconciled /\ Conservation)'
  BY NextSums
<1> QED
  BY <1>1, <1>2, PoolInvariant, PTL DEF Spec

----------------------------------------------------------------------------
\* What the handlers rely on of the table of providers: the tracker is used
\* where the usage is read and no chunk follows the text, a handler that reads
\* the usage never fails, and a finalizer is fed by events.
Consistent(q) ==
  /\ q.usage \in {"read", "counted", "prompt", "none"}
  /\ q.junk \in {"skip", "ends", "stop", "error"} /\ q.done \in {"last", "render", "chunk", "final"}
  /\ q.whole \in BOOLEAN /\ q.tracks \in BOOLEAN /\ q.polls \in BOOLEAN /\ q.trailer \in BOOLEAN
  /\ q.tracks => q.usage = "read" /\ q.done # "final" /\ ~q.trailer
  /\ q.whole => q.done # "final"
  /\ q.usage = "read" => q.failed # "error" /\ q.junk # "error" /\ ~q.polls /\ ~q.whole

LEMMA ProviderNames ==
  DOMAIN Provider = {"aiproxy", "ali", "baidu", "cohere", "coze", "gemini", "ollama", "tencent",
    "zhipu", "replicate", "xunfei", "palm", "deepl", "bedrock_claude", "bedrock_mistral_tools",
    "bedrock_cohere", "bedrock_deepseek", "bedrock_llama3", "bedrock_mistral", "bedrock_openai",
    "bedrock_qwen", "bedrock_writer"}
BY DEF Provider

LEMMA ProviderConsistent == \A x \in DOMAIN Provider : Consistent(Provider[x])
<1>1. /\ Consistent(Provider["aiproxy"]) /\ Consistent(Provider["ali"])
      /\ Consistent(Provider["baidu"]) /\ Consistent(Provider["cohere"])
      /\ Consistent(Provider["coze"]) /\ Consistent(Provider["gemini"])
  BY DEF Provider, Consistent, Sse, Aiproxy, Ali, Baidu, Cohere, Coze, Gemini
<1>2. /\ Consistent(Provider["ollama"]) /\ Consistent(Provider["tencent"])
      /\ Consistent(Provider["zhipu"]) /\ Consistent(Provider["replicate"])
      /\ Consistent(Provider["xunfei"])
  BY DEF Provider, Consistent, Sse, Ollama, Tencent, Zhipu, Replicate, Xunfei
<1>3. /\ Consistent(Provider["palm"]) /\ Consistent(Provider["deepl"])
      /\ Consistent(Provider["bedrock_claude"]) /\ Consistent(Provider["bedrock_mistral_tools"])
  BY DEF Provider, Consistent, Sse, Palm, Deepl, BedrockClaude, BedrockMistralTools
<1>4. /\ Consistent(Provider["bedrock_cohere"]) /\ Consistent(Provider["bedrock_deepseek"])
      /\ Consistent(Provider["bedrock_llama3"]) /\ Consistent(Provider["bedrock_mistral"])
  BY DEF Provider, Consistent, Sse, Converse, BedrockCohere, BedrockDeepSeek, BedrockLlama3,
         BedrockMistral
<1>5. /\ Consistent(Provider["bedrock_openai"]) /\ Consistent(Provider["bedrock_qwen"])
      /\ Consistent(Provider["bedrock_writer"])
  BY DEF Provider, Consistent, Sse, Converse, BedrockOpenAI, BedrockQwen, BedrockWriter
<1> QED
  BY <1>1, <1>2, <1>3, <1>4, <1>5, ProviderNames

DeltaRecords == [text : Nat, think : Nat, args : Nat]
UpRecords == [lines : Nat, chunks : Nat, done : BOOLEAN, usage : BOOLEAN, sent : DeltaRecords,
              begun : SUBSET Calls, bare : Calls \cup {None}]

SharedKinds == {"claude", "unified", "openai", "direct", "anthropic", "native", "converted", "buffered"}

StreamTypes ==
  /\ hdl \in Handlers /\ pc \in {"poll", "stream", "returned"}
  /\ up \in UpRecords /\ count \in DeltaRecords /\ err \in BOOLEAN /\ gone \in BOOLEAN
  /\ usage \in {"none", "given", "computed", "prompt"}
  /\ pc = "poll" => IsProvider /\ Prof.polls

\* No delta is counted twice.
CountedOnce ==
  /\ count.text <= up.sent.text /\ count.think <= up.sent.think /\ count.args <= up.sent.args

\* The handlers that may return a computed usage count every text.
CountsText == IF IsProvider THEN Prof.usage = "counted" ELSE hdl.kind \notin {"anthropic", "native"}
ReadsUsage == IsProvider => Prof.usage = "read"

\* Until the handler returns, its usage is the upstream's or none.
Gathered ==
  pc # "returned" =>
    /\ usage \in {"none", "given"}
    /\ up.usage /\ ReadsUsage => usage = "given"
    /\ CountsText => count.text = up.sent.text

UsageInv == StreamTypes /\ CountedOnce /\ Gathered /\ UsageReturned

LEMMA KindTypes ==
  ASSUME hdl \in Handlers
  PROVE  /\ IsProvider => Consistent(Prof)
         /\ ~IsProvider => hdl.kind \in SharedKinds
         /\ hdl.kind \in SharedKinds => ~IsProvider
         /\ hdl.bridge \in BOOLEAN
<1>1. hdl \in [kind : SharedKinds \cup DOMAIN Provider, bridge : BOOLEAN]
  BY StreamAssumption DEF SharedKinds
<1>2. hdl.kind \in SharedKinds \cup DOMAIN Provider /\ hdl.bridge \in BOOLEAN
  BY <1>1
<1>3. \A x \in SharedKinds : x \notin DOMAIN Provider
  BY ProviderNames DEF SharedKinds
<1> QED
  BY <1>2, <1>3, ProviderConsistent DEF IsProvider, Prof

LEMMA PlusFacts ==
  ASSUME NEW d \in DeltaRecords
  PROVE  /\ Plus(d, "text") \in DeltaRecords /\ Plus(d, "text").text = d.text + 1
         /\ Plus(d, "text").think = d.think /\ Plus(d, "text").args = d.args
         /\ Plus(d, "think") \in DeltaRecords /\ Plus(d, "think").text = d.text
         /\ Plus(d, "think").think = d.think + 1 /\ Plus(d, "think").args = d.args
         /\ Plus(d, "args") \in DeltaRecords /\ Plus(d, "args").text = d.text
         /\ Plus(d, "args").think = d.think /\ Plus(d, "args").args = d.args + 1
BY DEF Plus, DeltaRecords

LEMMA UsageInit == StreamInit => UsageInv
<1> SUFFICES ASSUME StreamInit PROVE UsageInv
  OBVIOUS
<1>1. /\ hdl \in Handlers /\ usage = "none" /\ err = FALSE /\ gone = FALSE /\ count = Deltas
      /\ pc = IF IsProvider /\ Prof.polls THEN "poll" ELSE "stream"
      /\ up = [lines |-> 0, chunks |-> 0, done |-> FALSE, usage |-> FALSE, sent |-> Deltas,
               begun |-> {}, bare |-> None]
  BY DEF StreamInit, IsProvider, Prof
<1>2. Deltas \in DeltaRecords /\ Deltas.text = 0 /\ Deltas.think = 0 /\ Deltas.args = 0
  BY DEF Deltas, DeltaRecords
<1>3. up \in UpRecords /\ up.sent = Deltas /\ up.usage = FALSE
  <2>1. None \in Calls \cup {None}
    OBVIOUS
  <2> QED
    BY <1>1, <1>2, <2>1 DEF UpRecords
<1>4. StreamTypes
  BY <1>1, <1>2, <1>3 DEF StreamTypes
<1>5. CountedOnce
  BY <1>1, <1>2, <1>3 DEF CountedOnce
<1> QED
  BY <1>1, <1>3, <1>4, <1>5 DEF UsageInv, Gathered, UsageReturned

\* A line that is read: the usage is noted, the text is counted.
LEMMA ReadInv ==
  ASSUME UsageInv, pc # "returned",
         UNCHANGED <<hdl, pc, err>>, gone' \in BOOLEAN, up' \in UpRecords,
         count' \in DeltaRecords, CountedOnce', usage' \in {"none", "given"},
         up'.usage /\ ReadsUsage => usage' = "given",
         CountsText => count'.text = up'.sent.text
  PROVE  UsageInv'
<1> USE DEF UsageInv
<1>1. StreamTypes'
  BY DEF StreamTypes, IsProvider, Prof
<1>2. Gathered'
  BY DEF Gathered, ReadsUsage, CountsText, IsProvider, Prof
<1> QED
  BY <1>1, <1>2 DEF UsageReturned

\* The handler returns: with the usage that was given, or with one computed
\* from a count of all text, or with an error.
LEMMA ReturnInv ==
  ASSUME UsageInv, pc # "returned", pc' = "returned",
         UNCHANGED hdl, gone' \in BOOLEAN, err' \in BOOLEAN, up' \in UpRecords,
         count' \in DeltaRecords, CountedOnce',
         usage' \in {"none", "given", "computed", "prompt"},
         up'.usage /\ ReadsUsage /\ ~(Kind("buffered") /\ err') => usage' = "given",
         usage' = "computed" /\ ~err' => count'.text = up'.sent.text
  PROVE  UsageInv'
<1> USE DEF UsageInv
<1>1. StreamTypes'
  BY DEF StreamTypes, IsProvider, Prof
<1>2. Gathered'
  BY DEF Gathered
<1>3. UsageReturned'
  BY DEF UsageReturned, ReadsUsage, IsProvider, Prof, Kind
<1> QED
  BY <1>1, <1>2, <1>3

\* Nothing was read since: the usage in hand, or the count of the text.
LEMMA ReturnsUsage ==
  ASSUME UsageInv, pc # "returned", NEW o, NEW u, NEW e \in BOOLEAN, Returns(o, u, e),
         up' \in UpRecords, up'.usage = up.usage, up'.sent = up.sent,
         \/ u = usage
         \/ u = Usage /\ (CountsText \/ e)
         \/ e /\ (u = "none" /\ (~ReadsUsage \/ Kind("buffered")))
  PROVE  UsageInv'
<1> USE DEF UsageInv
<1>1. pc' = "returned" /\ usage' = u /\ err' = e /\ UNCHANGED <<hdl, count, gone>>
  BY DEF Returns
<1>2. CountedOnce' /\ count' \in DeltaRecords /\ gone' \in BOOLEAN
  BY <1>1 DEF CountedOnce, StreamTypes
<1>3. usage \in {"none", "given"} /\ (up.usage /\ ReadsUsage => usage = "given")
      /\ (CountsText => count.text = up.sent.text)
  BY DEF Gathered
<1>4. usage' \in {"none", "given", "computed", "prompt"}
  BY <1>1, <1>3 DEF Usage
<1>5. up'.usage /\ ReadsUsage /\ ~(Kind("buffered") /\ err') => usage' = "given"
  BY <1>1, <1>3 DEF Usage
<1>6. usage' = "computed" /\ ~err' => count'.text = up'.sent.text
  BY <1>1, <1>3 DEF Usage
<1> QED
  BY <1>1, <1>2, <1>4, <1>5, <1>6, ReturnInv

LEMMA SendsFacts ==
  ASSUME UsageInv, NEW chunk \in {0, 1}, NEW d \in DeltaRecords, Sends(chunk, d)
  PROVE  /\ up' \in UpRecords /\ up'.usage = up.usage /\ up'.sent = d /\ pc = "stream"
         /\ up'.done = up.done
<1>1. up \in UpRecords /\ up' = [up EXCEPT !.lines = @ + 1, !.chunks = @ + chunk, !.sent = d]
  BY DEF Sends, UsageInv, StreamTypes
<1>2. up.lines + 1 \in Nat /\ up.chunks + chunk \in Nat
  BY <1>1 DEF UpRecords
<1> QED
  BY <1>1, <1>2 DEF UpRecords, Sends

LEMMA TypesNow ==
  ASSUME UsageInv
  PROVE  /\ up \in UpRecords /\ count \in DeltaRecords /\ up.sent \in DeltaRecords
         /\ count.text \in Nat /\ count.think \in Nat /\ count.args \in Nat
         /\ up.sent.text \in Nat /\ up.sent.think \in Nat /\ up.sent.args \in Nat
         /\ IsProvider => Consistent(Prof)
         /\ ~IsProvider => hdl.kind \in SharedKinds
         /\ hdl.kind \in SharedKinds => ~IsProvider
         /\ hdl.bridge \in BOOLEAN
         /\ gone \in BOOLEAN
<1>1. up \in UpRecords /\ count \in DeltaRecords /\ hdl \in Handlers /\ gone \in BOOLEAN
  BY DEF UsageInv, StreamTypes
<1>2. up.sent \in DeltaRecords
  BY <1>1 DEF UpRecords
<1> QED
  BY <1>1, <1>2, KindTypes DEF DeltaRecords

LEMMA TextUsage == ASSUME UsageInv, NEW t \in Texts, TextLine(t) PROVE UsageInv'
<1> USE DEF UsageInv
<1>0. up.sent \in DeltaRecords /\ count \in DeltaRecords
  BY TypesNow
<1>1. /\ ~IsProvider /\ UNCHANGED <<hdl, pc, usage, err, gone>> /\ Sends(1, Plus(up.sent, "text"))
      /\ count' = Counting({"claude", "unified", "openai", "direct", "converted", "buffered"}, "text")
  BY DEF TextLine, Unused
<1>2. /\ up' \in UpRecords /\ up'.usage = up.usage /\ up'.sent = Plus(up.sent, "text")
      /\ pc = "stream"
  BY <1>0, <1>1, PlusFacts, SendsFacts
<1>3. count' = IF CountsText THEN Plus(count, "text") ELSE count
  <2>1. hdl.kind \in SharedKinds
    BY <1>1, TypesNow
  <2> QED
    BY <1>1, <2>1 DEF Counting, CountsText, SharedKinds
<1>4. count' \in DeltaRecords /\ CountedOnce' /\ (CountsText => count'.text = up'.sent.text)
  <2>1. CountsText => count.text = up.sent.text
    BY <1>2 DEF Gathered
  <2> QED
    BY <1>0, <1>2, <1>3, <2>1, PlusFacts, TypesNow DEF CountedOnce
<1> QED
  BY <1>1, <1>2, <1>4, ReadInv, TypesNow DEF Gathered

LEMMA ThinkUsage == ASSUME UsageInv, ThinkLine PROVE UsageInv'
<1> USE DEF UsageInv
<1>0. up.sent \in DeltaRecords /\ count \in DeltaRecords
  BY TypesNow
<1>1. /\ ~IsProvider /\ UNCHANGED <<hdl, pc, usage, err, gone>> /\ Sends(1, Plus(up.sent, "think"))
      /\ count' \in {Plus(count, "think"), count}
  BY DEF ThinkLine, Unused, Counting
<1>2. /\ up' \in UpRecords /\ up'.usage = up.usage /\ up'.sent = Plus(up.sent, "think")
      /\ pc = "stream"
  BY <1>0, <1>1, PlusFacts, SendsFacts
<1>3. count' \in DeltaRecords /\ CountedOnce' /\ (CountsText => count'.text = up'.sent.text)
  <2>1. CountsText => count.text = up.sent.text
    BY <1>2 DEF Gathered
  <2> QED
    BY <1>0, <1>1, <1>2, <2>1, PlusFacts, TypesNow DEF CountedOnce
<1> QED
  BY <1>1, <1>2, <1>3, ReadInv, TypesNow DEF Gathered

LEMMA ToolFacts ==
  ASSUME UsageInv, NEW k \in Calls, NEW args \in BOOLEAN, ToolLine(k, args)
  PROVE  /\ up' \in UpRecords /\ up'.usage = up.usage /\ pc = "stream"
         /\ up'.sent = IF args THEN Plus(up.sent, "args") ELSE up.sent
         /\ up'.done = up.done /\ up'.begun = up.begun \cup {k}
<1> DEFINE d == IF args THEN Plus(up.sent, "args") ELSE up.sent
           w == IF args THEN None ELSE k
<1>1. up \in UpRecords /\ up.sent \in DeltaRecords
  BY TypesNow
<1>2. up' = [up EXCEPT !.lines = @ + 1, !.chunks = @ + 1, !.begun = @ \cup {k}, !.sent = d,
                       !.bare = w]
  BY <1>1 DEF ToolLine, UpRecords
<1>3. d \in DeltaRecords /\ w \in Calls \cup {None}
  BY <1>1, PlusFacts
<1>4. up.lines + 1 \in Nat /\ up.chunks + 1 \in Nat /\ up.begun \cup {k} \in SUBSET Calls
  BY <1>1 DEF UpRecords
<1> HIDE DEF d, w
<1>5. /\ up' \in UpRecords /\ up'.usage = up.usage /\ up'.sent = d /\ up'.done = up.done
      /\ up'.begun = up.begun \cup {k}
  BY <1>1, <1>2, <1>3, <1>4 DEF UpRecords
<1> QED
  BY <1>5 DEF ToolLine, d

LEMMA ToolUsage ==
  ASSUME UsageInv, NEW k \in Calls, NEW args \in BOOLEAN, ToolLine(k, args) PROVE UsageInv'
<1> USE DEF UsageInv
<1>0. up.sent \in DeltaRecords /\ count \in DeltaRecords
  BY TypesNow
<1>1. /\ ~IsProvider /\ UNCHANGED <<hdl, pc, usage, err, gone>>
      /\ count' \in {IF args THEN Plus(count, "args") ELSE count, count}
  BY DEF ToolLine, Unused, Counting
<1>2. /\ up' \in UpRecords /\ up'.usage = up.usage /\ pc = "stream"
      /\ up'.sent = IF args THEN Plus(up.sent, "args") ELSE up.sent
  BY ToolFacts
<1>3. count' \in DeltaRecords /\ CountedOnce' /\ (CountsText => count'.text = up'.sent.text)
  <2>1. CountsText => count.text = up.sent.text
    BY <1>2 DEF Gathered
  <2>2. CASE args
    BY <1>0, <1>1, <1>2, <2>1, <2>2, PlusFacts, TypesNow DEF CountedOnce
  <2>3. CASE ~args
    BY <1>0, <1>1, <1>2, <2>1, <2>3, TypesNow DEF CountedOnce
  <2> QED
    BY <2>2, <2>3
<1> QED
  BY <1>1, <1>2, <1>3, ReadInv, TypesNow DEF Gathered

LEMMA UsageLineUsage == ASSUME UsageInv, UsageLine PROVE UsageInv'
<1> USE DEF UsageInv
<1>0. up \in UpRecords /\ up.sent \in DeltaRecords /\ count \in DeltaRecords
  BY TypesNow
<1>1. /\ pc = "stream" /\ usage' = "given" /\ UNCHANGED <<hdl, pc, count, err, gone>>
      /\ up' = [up EXCEPT !.lines = @ + 1, !.chunks = @ + 1, !.usage = TRUE, !.bare = None]
  BY DEF UsageLine
<1>2. up' \in UpRecords /\ up'.sent = up.sent
  <2>1. up.lines + 1 \in Nat /\ up.chunks + 1 \in Nat /\ None \in Calls \cup {None}
    BY <1>0 DEF UpRecords
  <2> QED
    BY <1>0, <1>1, <2>1 DEF UpRecords
<1> QED
  BY <1>0, <1>1, <1>2, ReadInv, TypesNow DEF Gathered, CountedOnce

LEMMA JunkUsage == ASSUME UsageInv, JunkLine PROVE UsageInv'
<1> USE DEF UsageInv
<1>0. up.sent \in DeltaRecords /\ count \in DeltaRecords
  BY TypesNow
<1>1. UNCHANGED <<hdl, pc, usage, err, gone, count>> /\ Sends(0, up.sent)
  BY DEF JunkLine, Unused
<1>2. up' \in UpRecords /\ up'.usage = up.usage /\ up'.sent = up.sent /\ pc = "stream"
  BY <1>0, <1>1, SendsFacts
<1> QED
  BY <1>0, <1>1, <1>2, ReadInv, TypesNow DEF Gathered, CountedOnce

\* Finish, whatever the handler writes: an error, or the usage, or a count.
LEMMA FinishUsage ==
  ASSUME UsageInv, pc = "stream", ~IsProvider, NEW failed \in BOOLEAN, NEW done \in BOOLEAN,
         Finish(failed, done), up' \in UpRecords, up'.usage = up.usage, up'.sent = up.sent
  PROVE  UsageInv'
<1> DEFINE R(u, e) == \E o : Returns(o, u, e)
<1>0. hdl.kind \in SharedKinds
  BY TypesNow
<1>1. CASE hdl.kind \in {"claude", "openai"}
  <2>1. R(Usage, FALSE) /\ CountsText
    BY <1>1 DEF Finish, Kind, CountsText, IsProvider
  <2> QED
    BY <2>1, ReturnsUsage
<1>2. CASE hdl.kind = "unified"
  <2>1. CountsText
    BY <1>2 DEF CountsText
  <2>2. UnifiedEnd(failed)
    BY <1>2 DEF Finish, Kind
  <2>3. R(usage, TRUE) \/ R(Usage, FALSE)
    BY <2>2 DEF UnifiedEnd
  <2> QED
    BY <2>1, <2>3, ReturnsUsage
<1>3. CASE hdl.kind \in {"direct", "converted"}
  <2>1. R(Usage, failed) /\ CountsText
    BY <1>3 DEF Finish, Kind, CountsText, IsProvider, ConvertedEnd
  <2> QED
    BY <2>1, ReturnsUsage
<1>4. CASE hdl.kind \in {"anthropic", "native"}
  <2>1. R(usage, FALSE)
    BY <1>4 DEF Finish, Kind
  <2> QED
    BY <2>1, ReturnsUsage
<1>5. CASE hdl.kind = "buffered"
  <2>1. CountsText
    BY <1>5 DEF CountsText
  <2>2. R("none", TRUE) \/ R(Usage, FALSE)
    BY <1>5 DEF Finish, Kind
  <2> QED
    BY <1>5, <2>1, <2>2, ReturnsUsage DEF Kind
<1> QED
  BY <1>0, <1>1, <1>2, <1>3, <1>4, <1>5 DEF SharedKinds

LEMMA DoneUsage == ASSUME UsageInv, DoneLine PROVE UsageInv'
<1> USE DEF UsageInv
<1>0. up \in UpRecords /\ up.sent \in DeltaRecords /\ count \in DeltaRecords
  BY TypesNow
<1>1. ~IsProvider /\ pc = "stream" /\ up' = [up EXCEPT !.lines = @ + 1, !.done = TRUE]
  BY DEF DoneLine
<1>2. up' \in UpRecords /\ up'.usage = up.usage /\ up'.sent = up.sent
  <2>1. up.lines + 1 \in Nat
    BY <1>0 DEF UpRecords
  <2> QED
    BY <1>0, <1>1, <2>1 DEF UpRecords
<1>3. CASE Finish(FALSE, TRUE)
  BY <1>1, <1>2, <1>3, FinishUsage
<1>4. CASE UNCHANGED <<hdl, pc, usage, err, gone, count>>
  BY <1>0, <1>1, <1>2, <1>4, ReadInv, TypesNow DEF Gathered, CountedOnce
<1> QED
  BY <1>3, <1>4 DEF DoneLine, Unused

LEMMA EndsUsage ==
  ASSUME UsageInv, ~IsProvider, pc = "stream", up' = up, NEW failed \in BOOLEAN,
         Finish(failed, FALSE)
  PROVE  UsageInv'
BY TypesNow, FinishUsage

LEMMA QuotaUsage == ASSUME UsageInv, QuotaExceeded PROVE UsageInv'
<1> USE DEF UsageInv
<1>0. up.sent \in DeltaRecords /\ count \in DeltaRecords
  BY TypesNow
<1>1. PICK f \in {"text", "think"} : Sends(1, Plus(up.sent, f))
  BY DEF QuotaExceeded
<1>2. /\ pc' = "returned" /\ usage' = Usage /\ err' = TRUE /\ UNCHANGED <<hdl, count, gone>>
  BY DEF QuotaExceeded, Returns
<1>3. Plus(up.sent, f) \in DeltaRecords
  BY <1>0, PlusFacts
<1>4. up' \in UpRecords /\ up'.usage = up.usage /\ up'.sent = Plus(up.sent, f) /\ pc = "stream"
  BY <1>1, <1>3, SendsFacts
<1>5. CountedOnce'
  BY <1>0, <1>2, <1>4, PlusFacts, TypesNow DEF CountedOnce
<1>6. usage \in {"none", "given"} /\ (up.usage /\ ReadsUsage => usage = "given")
  BY <1>4 DEF Gathered
<1> QED
  BY <1>0, <1>2, <1>4, <1>5, <1>6, ReturnInv, TypesNow DEF Usage

LEMMA ErrorUsage == ASSUME UsageInv, ErrorLine PROVE UsageInv'
<1>0. up.sent \in DeltaRecords
  BY TypesNow
<1>1. Sends(0, up.sent) /\ \E o : Returns(o, usage, FALSE)
  BY DEF ErrorLine
<1>2. up' \in UpRecords /\ up'.usage = up.usage /\ up'.sent = up.sent /\ pc = "stream"
  BY <1>0, <1>1, SendsFacts
<1> QED
  BY <1>1, <1>2, ReturnsUsage

LEMMA ProviderSendsFacts ==
  ASSUME UsageInv, NEW f \in {"text", "think", "args", "usage", "done"}, NEW d \in DeltaRecords,
         ProviderSends(f, d)
  PROVE  /\ up' \in UpRecords /\ up'.sent = d /\ pc = "stream" /\ IsProvider
         /\ up'.usage <=> up.usage \/ f = "usage"
         /\ up'.done <=> up.done \/ f = "done"
<1> DEFINE u == up.usage \/ f = "usage"
           e == up.done \/ f = "done"
<1>1. up \in UpRecords
  BY TypesNow
<1>2. up' = [up EXCEPT !.lines = @ + 1, !.chunks = @ + 1, !.sent = d, !.usage = u, !.done = e]
  BY <1>1 DEF ProviderSends, UpRecords
<1>3. up.lines + 1 \in Nat /\ up.chunks + 1 \in Nat /\ u \in BOOLEAN /\ e \in BOOLEAN
  BY <1>1 DEF UpRecords
<1> HIDE DEF u, e
<1>4. up' \in UpRecords /\ up'.sent = d /\ up'.usage = u /\ up'.done = e
  BY <1>1, <1>2, <1>3 DEF UpRecords
<1> QED
  BY <1>4 DEF ProviderSends, u, e

LEMMA ProviderLineUsage ==
  ASSUME UsageInv, NEW f \in {"text", "think", "args"}, ProviderLine(f) PROVE UsageInv'
<1> USE DEF UsageInv
<1>0. up.sent \in DeltaRecords /\ count \in DeltaRecords
  BY TypesNow
<1>1. /\ ProviderSends(f, Plus(up.sent, f)) /\ UNCHANGED <<hdl, pc, usage, err, gone>>
      /\ count' = IF f = "text" THEN Text(count) ELSE count
  BY DEF ProviderLine, Unused
<1>2. Plus(up.sent, f) \in DeltaRecords
  BY <1>0, PlusFacts
<1>3. /\ up' \in UpRecords /\ (up'.usage <=> up.usage) /\ up'.sent = Plus(up.sent, f)
      /\ pc = "stream" /\ IsProvider
  BY <1>1, <1>2, ProviderSendsFacts
<1>4. count' \in DeltaRecords /\ CountedOnce' /\ (CountsText => count'.text = up'.sent.text)
  <2>1. (CountsText => count.text = up.sent.text) /\ (CountsText <=> Prof.usage = "counted")
    BY <1>3 DEF Gathered, CountsText
  <2>2. CASE f = "text"
    BY <1>0, <1>1, <1>3, <2>1, <2>2, PlusFacts, TypesNow DEF CountedOnce, Text
  <2>3. CASE f # "text"
    BY <1>0, <1>1, <1>3, <2>1, <2>3, PlusFacts, TypesNow DEF CountedOnce
  <2> QED
    BY <2>2, <2>3
<1> QED
  BY <1>1, <1>3, <1>4, ReadInv, TypesNow DEF Gathered

LEMMA QuietUsage ==
  ASSUME UsageInv, pc # "returned", UNCHANGED <<hdl, pc, count, usage, err>>, gone' \in BOOLEAN,
         up' \in UpRecords, up'.usage <=> up.usage, up'.sent = up.sent
  PROVE  UsageInv'
BY ReadInv, TypesNow DEF Gathered, CountedOnce, UsageInv

LEMMA ProviderUsageUsage == ASSUME UsageInv, ProviderUsage PROVE UsageInv'
<1> USE DEF UsageInv
<1>0. up.sent \in DeltaRecords /\ count \in DeltaRecords
  BY TypesNow
<1>1. /\ ProviderSends("usage", up.sent) /\ UNCHANGED <<hdl, pc, count, err, gone>>
      /\ usage' = IF Prof.usage = "read" THEN "given" ELSE usage
  BY DEF ProviderUsage
<1>2. up' \in UpRecords /\ up'.sent = up.sent /\ pc = "stream" /\ IsProvider
  BY <1>0, <1>1, ProviderSendsFacts
<1> QED
  BY <1>0, <1>1, <1>2, ReadInv, TypesNow DEF Gathered, CountedOnce, ReadsUsage

\* A provider's handler returns.
LEMMA ProviderReturn ==
  ASSUME UsageInv, pc # "returned", pc' = "returned", IsProvider, UNCHANGED <<hdl, gone>>,
         err' \in BOOLEAN, up' \in UpRecords, up'.usage <=> up.usage,
         count' \in DeltaRecords, CountedOnce', CountsText => count'.text = up'.sent.text,
         usage' = ProviderUsageOf \/ (usage' = "none" /\ err' /\ ~ReadsUsage)
  PROVE  UsageInv'
<1> USE DEF UsageInv
<1>1. usage \in {"none", "given"} /\ (up.usage /\ ReadsUsage => usage = "given")
  BY DEF Gathered
<1>2. /\ usage' \in {"none", "given", "computed", "prompt"}
      /\ up'.usage /\ ReadsUsage => usage' = "given"
      /\ usage' = "computed" => CountsText
  BY <1>1 DEF ProviderUsageOf, ReadsUsage, CountsText
<1> QED
  BY <1>2, ReturnInv, TypesNow

LEMMA ProviderFailsUsage ==
  ASSUME UsageInv, pc # "returned", IsProvider, ProviderFails, up' \in UpRecords,
         up'.usage = up.usage, up'.sent = up.sent, ~ReadsUsage
  PROVE  UsageInv'
<1>1. /\ pc' = "returned" /\ err' = TRUE /\ UNCHANGED <<hdl, count, gone>>
      /\ usage' \in {ProviderUsageOf, "none"}
  BY DEF ProviderFails, Returns
<1> QED
  BY <1>1, ProviderReturn, TypesNow DEF UsageInv, Gathered, CountedOnce

LEMMA CloseUsage ==
  ASSUME UsageInv, pc # "returned", IsProvider, NEW o, FinalizeOnClose(o), up' \in UpRecords,
         up'.usage <=> up.usage, CountedOnce', CountsText => up'.sent.text = up.sent.text
  PROVE  UsageInv'
<1>1. /\ pc' = "returned" /\ err' = FALSE /\ UNCHANGED <<hdl, count, gone>>
      /\ usage' = ProviderUsageOf
  BY DEF FinalizeOnClose
<1> QED
  BY <1>1, ProviderReturn, TypesNow DEF UsageInv, Gathered

LEMMA ProviderDoneUsage == ASSUME UsageInv, ProviderDone PROVE UsageInv'
<1>0. up.sent \in DeltaRecords
  BY TypesNow
<1>1. ProviderSends("done", up.sent)
  BY DEF ProviderDone
<1>2. /\ up' \in UpRecords /\ up'.sent = up.sent /\ pc = "stream" /\ IsProvider
      /\ up'.usage <=> up.usage
  BY <1>0, <1>1, ProviderSendsFacts
<1>3. ASSUME NEW o, FinalizeOnClose(o) PROVE UsageInv'
  <2>1. count' = count
    BY <1>3 DEF FinalizeOnClose
  <2>2. CountedOnce'
    BY <1>2, <2>1 DEF UsageInv, CountedOnce
  <2> QED
    BY <1>2, <1>3, <2>2, CloseUsage
<1>4. CASE UNCHANGED <<hdl, pc, count, usage, err, gone>>
  BY <1>2, <1>4, QuietUsage, TypesNow
<1>5. Prof.done \in {"last", "render", "chunk", "final"}
  BY <1>2, TypesNow DEF Consistent
<1>6. CASE Prof.done \in {"last", "render"}
  BY <1>3, <1>6 DEF ProviderDone
<1>7. CASE Prof.done \in {"chunk", "final"}
  BY <1>4, <1>7 DEF ProviderDone, Unused
<1> QED
  BY <1>5, <1>6, <1>7

LEMMA ProviderJunkUsage == ASSUME UsageInv, ProviderJunk PROVE UsageInv'
<1>0. up.sent \in DeltaRecords
  BY TypesNow
<1>1. Sends(0, up.sent) /\ IsProvider
  BY DEF ProviderJunk
<1>2. /\ up' \in UpRecords /\ up'.sent = up.sent /\ pc = "stream" /\ up'.usage = up.usage
  BY <1>0, <1>1, SendsFacts
<1>3. Consistent(Prof)
  BY <1>1, TypesNow
<1>4. CASE Prof.junk = "skip"
  BY <1>2, <1>4, QuietUsage, TypesNow DEF ProviderJunk, Unused
<1>5. CASE Prof.junk = "ends"
  <2>1. FinalizeOnClose(out) /\ count' = count
    BY <1>5 DEF ProviderJunk, FinalizeOnClose
  <2>2. CountedOnce'
    BY <1>2, <2>1 DEF UsageInv, CountedOnce
  <2> QED
    BY <1>1, <1>2, <2>1, <2>2, CloseUsage
<1>6. CASE Prof.junk = "stop"
  <2>1. Returns(out, ProviderUsageOf, FALSE)
    BY <1>6 DEF ProviderJunk
  <2>2. /\ pc' = "returned" /\ err' = FALSE /\ UNCHANGED <<hdl, count, gone>>
        /\ usage' = ProviderUsageOf
    BY <2>1 DEF Returns
  <2> QED
    BY <1>1, <1>2, <2>2, ProviderReturn, TypesNow DEF UsageInv, Gathered, CountedOnce
<1>7. CASE Prof.junk = "error"
  <2>1. ProviderFails /\ ~ReadsUsage
    BY <1>1, <1>3, <1>7 DEF ProviderJunk, ReadsUsage, Consistent
  <2> QED
    BY <1>1, <1>2, <2>1, ProviderFailsUsage
<1> QED
  BY <1>3, <1>4, <1>5, <1>6, <1>7 DEF Consistent

\* The end of a provider's loop, without another line.
LEMMA ProviderEndUsage ==
  ASSUME UsageInv, IsProvider, pc # "returned", up' = up,
         \/ ProviderFails /\ (Prof.failed = "error" \/ Prof.polls)
         \/ FinalizeOnClose(out)
         \/ Returns(out, ProviderUsageOf, FALSE)
  PROVE  UsageInv'
<1>1. up' \in UpRecords /\ Consistent(Prof)
  BY TypesNow
<1>2. CASE ProviderFails /\ (Prof.failed = "error" \/ Prof.polls)
  <2>1. ~ReadsUsage
    BY <1>1, <1>2 DEF ReadsUsage, Consistent
  <2> QED
    BY <1>1, <1>2, <2>1, ProviderFailsUsage
<1>3. CASE FinalizeOnClose(out)
  <2>1. count' = count
    BY <1>3 DEF FinalizeOnClose
  <2>2. CountedOnce'
    BY <2>1 DEF UsageInv, CountedOnce
  <2> QED
    BY <1>1, <1>3, <2>2, CloseUsage
<1>4. CASE Returns(out, ProviderUsageOf, FALSE)
  <2>1. /\ pc' = "returned" /\ err' = FALSE /\ UNCHANGED <<hdl, count, gone>>
        /\ usage' = ProviderUsageOf
    BY <1>4 DEF Returns
  <2> QED
    BY <1>1, <2>1, ProviderReturn, TypesNow DEF UsageInv, Gathered, CountedOnce
<1> QED
  BY <1>2, <1>3, <1>4

LEMMA ProviderWholeUsage == ASSUME UsageInv, ProviderWhole PROVE UsageInv'
<1>0. up \in UpRecords /\ up.sent \in DeltaRecords /\ count \in DeltaRecords
  BY TypesNow
<1>1. /\ IsProvider /\ pc = "stream" /\ pc' = "returned" /\ usage' = ProviderUsageOf /\ err' = FALSE
      /\ count' = Text(count) /\ UNCHANGED <<hdl, gone>>
      /\ up' = [up EXCEPT !.chunks = 1, !.sent = Plus(@, "text")]
  BY DEF ProviderWhole
<1>2. up' \in UpRecords /\ up'.usage = up.usage /\ up'.sent = Plus(up.sent, "text")
  <2>1. Plus(up.sent, "text") \in DeltaRecords
    BY <1>0, PlusFacts
  <2>2. up' = [up EXCEPT !.chunks = 1, !.sent = Plus(up.sent, "text")]
    BY <1>0, <1>1 DEF UpRecords
  <2> QED
    BY <1>0, <2>1, <2>2 DEF UpRecords
<1>3. count' \in DeltaRecords /\ CountedOnce' /\ (CountsText => count'.text = up'.sent.text)
  <2>1. (CountsText => count.text = up.sent.text) /\ (CountsText <=> Prof.usage = "counted")
    BY <1>1 DEF Gathered, CountsText, UsageInv
  <2> QED
    BY <1>0, <1>1, <1>2, <2>1, PlusFacts, TypesNow DEF CountedOnce, Text, UsageInv
<1> QED
  BY <1>1, <1>2, <1>3, ProviderReturn

LEMMA ProviderQuotaUsage == ASSUME UsageInv, ProviderQuota PROVE UsageInv'
<1>0. up.sent \in DeltaRecords /\ count \in DeltaRecords
  BY TypesNow
<1>1. /\ IsProvider /\ Prof.tracks /\ ProviderSends("text", Plus(up.sent, "text"))
      /\ \E o : FinalizeOnClose(o)
  BY DEF ProviderQuota
<1>2. Plus(up.sent, "text") \in DeltaRecords
  BY <1>0, PlusFacts
<1>3. /\ up' \in UpRecords /\ (up'.usage <=> up.usage) /\ up'.sent = Plus(up.sent, "text")
      /\ pc = "stream"
  BY <1>1, <1>2, ProviderSendsFacts
<1>4. ~CountsText
  BY <1>1, TypesNow DEF CountsText, Consistent
<1>5. count' = count
  BY <1>1 DEF FinalizeOnClose
<1>6. CountedOnce'
  BY <1>0, <1>3, <1>5, PlusFacts, TypesNow DEF CountedOnce, UsageInv
<1> QED
  BY <1>1, <1>3, <1>4, <1>6, CloseUsage

LEMMA ProviderPolledUsage == ASSUME UsageInv, NEW ok \in BOOLEAN, ProviderPolled(ok) PROVE UsageInv'
<1>1. pc = "poll" /\ up' = up /\ IsProvider /\ Prof.polls
  BY DEF ProviderPolled, UsageInv, StreamTypes
<1>2. CASE ok
  <2>1. pc' = "stream" /\ UNCHANGED <<hdl, count, usage, err, gone>>
    BY <1>2 DEF ProviderPolled
  <2>2. StreamTypes'
    BY <1>1, <2>1 DEF UsageInv, StreamTypes, IsProvider, Prof
  <2>3. CountedOnce' /\ Gathered' /\ UsageReturned'
    BY <1>1, <2>1 DEF UsageInv, CountedOnce, Gathered, UsageReturned, ReadsUsage, CountsText,
         IsProvider, Prof
  <2> QED
    BY <2>2, <2>3 DEF UsageInv
<1>3. CASE ~ok
  BY <1>1, <1>3, ProviderEndUsage DEF ProviderPolled
<1> QED
  BY <1>2, <1>3

LEMMA ProviderCancelledUsage == ASSUME UsageInv, ProviderCancelled PROVE UsageInv'
<1>1. IsProvider /\ up' = up /\ pc \in {"poll", "stream"}
  BY DEF ProviderCancelled
<1>2. pc = "poll" => Prof.polls
  BY DEF UsageInv, StreamTypes
<1>3. \/ ProviderFails /\ (Prof.failed = "error" \/ Prof.polls)
      \/ FinalizeOnClose(out)
      \/ Returns(out, ProviderUsageOf, FALSE)
  BY <1>2 DEF ProviderCancelled
<1> QED
  BY <1>1, <1>3, ProviderEndUsage

LEMMA UsageNext == UsageInv /\ [StreamNext]_streamVars => UsageInv'
<1> SUFFICES ASSUME UsageInv, [StreamNext]_streamVars PROVE UsageInv'
  OBVIOUS
<1>1. CASE UNCHANGED streamVars
  BY <1>1 DEF streamVars, UsageInv, StreamTypes, CountedOnce, Gathered, UsageReturned, ReadsUsage,
       CountsText, IsProvider, Prof, Kind
<1>2. CASE SetID \/ ClientLeaves
  <2>1. pc # "returned" /\ UNCHANGED <<hdl, pc, count, usage, err, up>> /\ gone' \in BOOLEAN
    BY <1>2, TypesNow DEF SetID, ClientLeaves
  <2> QED
    BY <2>1, QuietUsage, TypesNow
<1>3. CASE \E failed \in BOOLEAN : UpstreamEnds(failed)
  BY <1>3, EndsUsage DEF UpstreamEnds
<1>4. CASE NextCancelled
  BY <1>4, EndsUsage DEF NextCancelled
<1>5. CASE \E failed \in BOOLEAN : ProviderEnds(failed)
  <2>1. IsProvider /\ pc # "returned" /\ up' = up
    BY <1>5 DEF ProviderEnds
  <2>2. (ProviderFails /\ Prof.failed = "error") \/ FinalizeOnClose(out)
    BY <1>5 DEF ProviderEnds
  <2> QED
    BY <2>1, <2>2, ProviderEndUsage
<1> QED
  BY <1>1, <1>2, <1>3, <1>4, <1>5, TextUsage, ThinkUsage, ToolUsage, UsageLineUsage, JunkUsage,
     DoneUsage, QuotaUsage, ErrorUsage, ProviderLineUsage, ProviderUsageUsage, ProviderDoneUsage,
     ProviderJunkUsage, ProviderWholeUsage, ProviderQuotaUsage, ProviderPolledUsage,
     ProviderCancelledUsage
  DEF StreamNext

\* All handlers: the usage that the upstream sent is returned however the stream
\* ends, and a computed usage counts all text, unless an error is returned; for
\* every set of handlers and dialects and every number of lines and calls.
THEOREM UsageTheorem == StreamSpec => []UsageReturned
<1>1. UsageInv => UsageReturned
  BY DEF UsageInv
<1> QED
  BY <1>1, UsageInit, UsageNext, PTL DEF StreamSpec
----------------------------------------------------------------------------
\* The shape of what the client gets.
EventNames == {"open", "delta", "close", "start", "usage", "created", "reasoning", "action", "raw",
               "chunk", "final", "final_usage", "stop", "completed", "done", "relayed", "error"}
BlockNames == {"open", "delta", "close"}
Events == [e : EventNames, b : Nat \cup {None}, call : Calls \cup {None}]

\* A sequence in which the blocks S were started, once and before their deltas,
\* of which C were closed, once and after them; the other events are marks M.
Log(o, S, C, M) ==
  /\ o \in Seq(Events) /\ S \subseteq Nat /\ C \subseteq S /\ M \subseteq EventNames \ BlockNames
  /\ \A i \in DOMAIN o : o[i].b = None => o[i].e \in M /\ o[i].call = None
  /\ \A i \in DOMAIN o : o[i].b # None => o[i].b \in S /\ o[i].e \in BlockNames
  /\ \A i \in DOMAIN o : o[i].e = "close" => o[i].b \in C
  /\ \A b \in S : \E i \in DOMAIN o : o[i].e = "open" /\ o[i].b = b
  /\ \A b \in C : \E i \in DOMAIN o : o[i].e = "close" /\ o[i].b = b
  /\ \A i, j \in DOMAIN o : o[i].e = "open" /\ o[i].b = o[j].b =>
       (o[j].e = "open" => i = j) /\ (o[j].e = "delta" => i < j)
  /\ \A i, j \in DOMAIN o : o[i].e = "close" /\ o[i].b = o[j].b =>
       (o[j].e = "close" => i = j) /\ (o[j].e = "delta" => j < i)

ClaudeMarks == {"start", "usage"}
BridgeMarks == {"created", "reasoning", "action", "raw"}
PlainMarks  == {"chunk", "raw", "relayed"}
FinalMarks  == {"chunk", "final", "final_usage"}

LEMMA NoneFacts == None \notin Nat /\ None \in Nat \cup {None} /\ None \in Calls \cup {None}
BY DEF None

LEMMA EventFacts ==
  ASSUME NEW e \in EventNames, NEW b \in Nat \cup {None}, NEW k \in Calls \cup {None}
  PROVE  /\ Event(e, b, k) \in Events /\ Event(e, b, k).e = e
         /\ Event(e, b, k).b = b /\ Event(e, b, k).call = k
BY DEF Event, Events

LEMMA MarkFacts ==
  ASSUME NEW e \in EventNames
  PROVE  Mark(e) \in Events /\ Mark(e).e = e /\ Mark(e).b = None /\ Mark(e).call = None
BY NoneFacts DEF Mark, Event, Events

LEMMA AppendFacts ==
  ASSUME NEW o \in Seq(Events), NEW v \in Events
  PROVE  /\ Append(o, v) \in Seq(Events) /\ Len(Append(o, v)) = Len(o) + 1
         /\ Len(o) \in Nat /\ DOMAIN o = 1 .. Len(o) /\ DOMAIN Append(o, v) = 1 .. (Len(o) + 1)
         /\ \A i \in 1 .. Len(o) : Append(o, v)[i] = o[i] /\ o[i] \in Events
         /\ Append(o, v)[Len(o) + 1] = v
<1>1. Append(o, v) \in Seq(Events) /\ Len(Append(o, v)) = Len(o) + 1
  BY AppendProperties
<1>2. DOMAIN o = 1 .. Len(o) /\ DOMAIN Append(o, v) = 1 .. (Len(o) + 1) /\ Len(o) \in Nat
  BY <1>1, LenProperties
<1>3. \A i \in 1 .. Len(o) : Append(o, v)[i] = o[i] /\ o[i] \in Events
  BY <1>2, AppendProperties, ElementOfSeq
<1> QED
  BY <1>1, <1>2, <1>3, AppendProperties

LEMMA AppendTwo ==
  ASSUME NEW o \in Seq(Events), NEW u \in Events, NEW v \in Events
  PROVE  o \o <<u, v>> = Append(Append(o, u), v)
OBVIOUS

LEMMA AppendOne ==
  ASSUME NEW o \in Seq(Events), NEW u \in Events
  PROVE  o \o <<u>> = Append(o, u) /\ o \o <<>> = o
OBVIOUS

\* One event more: a mark, or a block is started, gets a delta or is closed.
LEMMA LogAppend ==
  ASSUME NEW o, NEW S, NEW C, NEW M, Log(o, S, C, M), NEW v \in Events, NEW T, NEW D,
         \/ v.b = None /\ v.e \in M /\ v.call = None /\ T = S /\ D = C
         \/ v.b \in Nat /\ v.e = "open" /\ v.b \notin S /\ T = S \cup {v.b} /\ D = C
         \/ v.b \in S \ C /\ v.e = "delta" /\ T = S /\ D = C
         \/ v.b \in S \ C /\ v.e = "close" /\ T = S /\ D = C \cup {v.b}
  PROVE  Log(Append(o, v), T, D, M)
<1> DEFINE n == Append(o, v)
           z == Len(o) + 1
<1>1. /\ o \in Seq(Events) /\ S \subseteq Nat /\ C \subseteq S
      /\ M \subseteq EventNames \ BlockNames
  BY DEF Log
<1>2. /\ n \in Seq(Events) /\ Len(o) \in Nat /\ DOMAIN o = 1 .. Len(o)
      /\ DOMAIN n = 1 .. z /\ n[z] = v
      /\ \A i \in 1 .. Len(o) : n[i] = o[i]
  BY <1>1, AppendFacts
<1> HIDE DEF n
<1>3. \A i \in DOMAIN n : i = z \/ (i \in DOMAIN o /\ i < z /\ n[i] = o[i])
  BY <1>2
<1>4. \A i \in DOMAIN o : i \in DOMAIN n /\ n[i] = o[i]
  BY <1>2
<1>5. z \in DOMAIN n /\ n[z] = v /\ z \in Nat
  BY <1>2
<1> HIDE DEF z
<1>6. T \subseteq Nat /\ D \subseteq T /\ S \subseteq T /\ C \subseteq D
  BY <1>1
<1>7. ASSUME NEW i \in DOMAIN n, n[i].b = None PROVE n[i].e \in M /\ n[i].call = None
  <2>1. CASE i = z
    <3>1. v.b \notin Nat
      BY <1>5, <1>7, <2>1, NoneFacts
    <3> QED
      BY <1>1, <1>5, <2>1, <3>1
  <2>2. CASE i # z
    <3>1. i \in DOMAIN o /\ n[i] = o[i]
      BY <1>3, <2>2
    <3> QED
      BY <1>7, <3>1 DEF Log
  <2> QED
    BY <2>1, <2>2
<1>8. \A i \in DOMAIN n : n[i].b # None => n[i].b \in T /\ n[i].e \in BlockNames
  BY <1>3, <1>5, <1>6 DEF Log, BlockNames
<1>9. \A i \in DOMAIN n : n[i].e = "close" => n[i].b \in D
  BY <1>1, <1>3, <1>5, <1>6 DEF Log, BlockNames
<1>10. ASSUME NEW b \in T PROVE \E i \in DOMAIN n : n[i].e = "open" /\ n[i].b = b
  <2>1. CASE b \in S
    <3>1. PICK i \in DOMAIN o : o[i].e = "open" /\ o[i].b = b
      BY <2>1 DEF Log
    <3> QED
      BY <1>4, <3>1
  <2>2. CASE b \notin S
    BY <1>5, <2>2
  <2> QED
    BY <2>1, <2>2
<1>11. ASSUME NEW b \in D PROVE \E i \in DOMAIN n : n[i].e = "close" /\ n[i].b = b
  <2>1. CASE b \in C
    <3>1. PICK i \in DOMAIN o : o[i].e = "close" /\ o[i].b = b
      BY <2>1 DEF Log
    <3> QED
      BY <1>4, <3>1
  <2>2. CASE b \notin C
    BY <1>5, <2>2
  <2> QED
    BY <2>1, <2>2
<1>12. \A i \in DOMAIN o : o[i].b # None => o[i].b \in S
  BY DEF Log
<1>13. \A i \in DOMAIN o : o[i].e \in BlockNames => o[i].b # None
  BY DEF Log
<1>14. ASSUME NEW i \in DOMAIN n, NEW j \in DOMAIN n, n[i].e = "open", n[i].b = n[j].b
       PROVE  (n[j].e = "open" => i = j) /\ (n[j].e = "delta" => i < j)
  <2>1. CASE i = z
    <3>1. v.e = "open" /\ v.b \notin S /\ v.b # None
      BY <1>1, <1>5, <1>14, <2>1, NoneFacts DEF BlockNames
    <3> QED
      BY <1>3, <1>5, <1>12, <1>14, <2>1, <3>1
  <2>2. CASE i # z
    <3>1. i \in DOMAIN o /\ i < z /\ n[i] = o[i]
      BY <1>3, <2>2
    <3>2. CASE j = z
      <4>1. v.e # "open"
        BY <1>5, <1>12, <1>13, <1>14, <3>1, <3>2 DEF BlockNames
      <4> QED
        BY <1>5, <3>1, <3>2, <4>1
    <3>3. CASE j # z
      <4>1. j \in DOMAIN o /\ n[j] = o[j]
        BY <1>3, <3>3
      <4> QED
        BY <1>14, <3>1, <4>1 DEF Log
    <3> QED
      BY <3>2, <3>3
  <2> QED
    BY <2>1, <2>2
<1>15. ASSUME NEW i \in DOMAIN n, NEW j \in DOMAIN n, n[i].e = "close", n[i].b = n[j].b
       PROVE  (n[j].e = "close" => i = j) /\ (n[j].e = "delta" => j < i)
  <2>1. \A l \in DOMAIN o : o[l].e = "close" => o[l].b \in C
    BY DEF Log
  <2>2. CASE i = z
    <3>1. v.b \notin C
      BY <1>1, <1>5, <1>15, <2>2 DEF BlockNames
    <3> QED
      BY <1>3, <1>5, <1>15, <2>1, <2>2, <3>1
  <2>3. CASE i # z
    <3>1. i \in DOMAIN o /\ i < z /\ n[i] = o[i]
      BY <1>3, <2>3
    <3>2. CASE j = z
      <4>1. v.b \in C /\ v.b # None
        BY <1>5, <1>13, <1>15, <2>1, <3>1, <3>2 DEF BlockNames
      <4>2. v.e = "open"
        BY <1>1, <4>1
      <4> QED
        BY <1>1, <4>1, <4>2
    <3>3. CASE j # z
      <4>1. j \in DOMAIN o /\ n[j] = o[j]
        BY <1>3, <3>3
      <4> QED
        BY <1>15, <3>1, <4>1 DEF Log
    <3> QED
      BY <3>2, <3>3
  <2> QED
    BY <2>2, <2>3
<1>16. Log(n, T, D, M)
  BY <1>1, <1>2, <1>6, <1>7, <1>8, <1>9, <1>10, <1>11, <1>14, <1>15 DEF Log
<1> QED
  BY <1>16 DEF n

LEMMA LogMark ==
  ASSUME NEW o, NEW S, NEW C, NEW M, Log(o, S, C, M), NEW e \in M
  PROVE  Log(Append(o, Mark(e)), S, C, M) /\ Mark(e) \in Events
<1>1. e \in EventNames
  BY DEF Log
<1>2. Mark(e) \in Events /\ Mark(e).e = e /\ Mark(e).b = None /\ Mark(e).call = None
  BY <1>1, MarkFacts
<1> QED
  BY <1>2, LogAppend

LEMMA LogOpen ==
  ASSUME NEW o, NEW S, NEW C, NEW M, Log(o, S, C, M), NEW b \in Nat \ S,
         NEW k \in Calls \cup {None}
  PROVE  Log(Append(o, Event("open", b, k)), S \cup {b}, C, M) /\ Event("open", b, k) \in Events
<1>1. "open" \in EventNames /\ b \in Nat \cup {None}
  BY DEF EventNames
<1>2. Event("open", b, k) \in Events /\ Event("open", b, k).e = "open" /\ Event("open", b, k).b = b
  BY <1>1, EventFacts
<1> QED
  BY <1>2, LogAppend

LEMMA LogDelta ==
  ASSUME NEW o, NEW S, NEW C, NEW M, Log(o, S, C, M), NEW b \in S \ C,
         NEW k \in Calls \cup {None}
  PROVE  Log(Append(o, Event("delta", b, k)), S, C, M) /\ Event("delta", b, k) \in Events
<1>1. "delta" \in EventNames /\ b \in Nat \cup {None}
  BY DEF EventNames, Log
<1>2. Event("delta", b, k) \in Events /\ Event("delta", b, k).e = "delta" /\ Event("delta", b, k).b = b
  BY <1>1, EventFacts
<1> QED
  BY <1>2, LogAppend

LEMMA LogClose ==
  ASSUME NEW o, NEW S, NEW C, NEW M, Log(o, S, C, M), NEW b \in S \ C,
         NEW k \in Calls \cup {None}
  PROVE  Log(Append(o, Event("close", b, k)), S, C \cup {b}, M) /\ Event("close", b, k) \in Events
<1>1. "close" \in EventNames /\ b \in Nat \cup {None}
  BY DEF EventNames, Log
<1>2. Event("close", b, k) \in Events /\ Event("close", b, k).e = "close" /\ Event("close", b, k).b = b
  BY <1>1, EventFacts
<1> QED
  BY <1>2, LogAppend

LEMMA LogMarks ==
  ASSUME NEW o, NEW S, NEW C, NEW M, Log(o, S, C, M), NEW N, M \subseteq N,
         N \subseteq EventNames \ BlockNames
  PROVE  Log(o, S, C, N)
BY DEF Log

LEMMA LogEmpty ==
  ASSUME NEW M, M \subseteq EventNames \ BlockNames
  PROVE  Log(<<>>, {}, {}, M)
<1>1. <<>> \in Seq(Events) /\ DOMAIN <<>> = {}
  OBVIOUS
<1> QED
  BY <1>1 DEF Log

LEMMA ConcatFacts ==
  ASSUME NEW o \in Seq(Events), NEW z \in Seq(Events)
  PROVE  /\ o \o z \in Seq(Events) /\ Len(o) \in Nat /\ Len(z) \in Nat
         /\ DOMAIN o = 1 .. Len(o) /\ DOMAIN z = 1 .. Len(z)
         /\ DOMAIN (o \o z) = 1 .. (Len(o) + Len(z)) /\ Len(o \o z) = Len(o) + Len(z)
         /\ \A i \in DOMAIN o : i \in DOMAIN (o \o z) /\ (o \o z)[i] = o[i]
         /\ \A i \in DOMAIN z : Len(o) + i \in DOMAIN (o \o z) /\ (o \o z)[Len(o) + i] = z[i]
         /\ \A i \in DOMAIN (o \o z) :
              \/ i \in DOMAIN o /\ (o \o z)[i] = o[i]
              \/ \E j \in DOMAIN z : i = Len(o) + j /\ (o \o z)[i] = z[j]
<1>1. /\ o \o z \in Seq(Events) /\ Len(o \o z) = Len(o) + Len(z)
      /\ \A i \in 1 .. Len(o) + Len(z) :
           (o \o z)[i] = IF i <= Len(o) THEN o[i] ELSE z[i - Len(o)]
  BY ConcatProperties
<1>2. /\ Len(o) \in Nat /\ Len(z) \in Nat /\ DOMAIN o = 1 .. Len(o) /\ DOMAIN z = 1 .. Len(z)
      /\ DOMAIN (o \o z) = 1 .. (Len(o) + Len(z))
  BY <1>1, LenProperties
<1>3. \A i \in DOMAIN o : i \in DOMAIN (o \o z) /\ (o \o z)[i] = o[i]
  BY <1>1, <1>2
<1>4. ASSUME NEW i \in DOMAIN z
      PROVE  Len(o) + i \in DOMAIN (o \o z) /\ (o \o z)[Len(o) + i] = z[i]
  <2>1. Len(o) + i \in 1 .. Len(o) + Len(z) /\ ~(Len(o) + i <= Len(o)) /\ (Len(o) + i) - Len(o) = i
    BY <1>2
  <2> QED
    BY <1>1, <1>2, <2>1
<1>5. ASSUME NEW i \in DOMAIN (o \o z), i \notin DOMAIN o
      PROVE  \E j \in DOMAIN z : i = Len(o) + j /\ (o \o z)[i] = z[j]
  <2>1. i - Len(o) \in DOMAIN z /\ i = Len(o) + (i - Len(o)) /\ (o \o z)[i] = z[i - Len(o)]
    BY <1>1, <1>2, <1>5
  <2> QED
    BY <2>1
<1> QED
  BY <1>1, <1>2, <1>3, <1>4, <1>5

\* A sequence of closing events, one for each block of D.
Closes(z, D) ==
  /\ z \in Seq(Events)
  /\ \A i \in DOMAIN z : z[i].e = "close" /\ z[i].b \in D /\ z[i].call = None
  /\ \A b \in D : \E i \in DOMAIN z : z[i].b = b
  /\ \A i, j \in DOMAIN z : z[i].b = z[j].b => i = j

LEMMA LogCloses ==
  ASSUME NEW o, NEW S, NEW C, NEW M, Log(o, S, C, M), NEW z, NEW D, D \subseteq S \ C, Closes(z, D)
  PROVE  Log(o \o z, S, C \cup D, M)
<1> DEFINE n == o \o z
<1>1. /\ o \in Seq(Events) /\ S \subseteq Nat /\ C \subseteq S
      /\ M \subseteq EventNames \ BlockNames
  BY DEF Log
<1>2. z \in Seq(Events)
  BY DEF Closes
<1>3. /\ n \in Seq(Events) /\ Len(o) \in Nat /\ DOMAIN o = 1 .. Len(o) /\ DOMAIN z = 1 .. Len(z)
      /\ Len(z) \in Nat
      /\ \A i \in DOMAIN o : i \in DOMAIN n /\ n[i] = o[i]
      /\ \A i \in DOMAIN z : Len(o) + i \in DOMAIN n /\ n[Len(o) + i] = z[i]
      /\ \A i \in DOMAIN n :
           \/ i \in DOMAIN o /\ n[i] = o[i]
           \/ \E j \in DOMAIN z : i = Len(o) + j /\ n[i] = z[j]
  BY <1>1, <1>2, ConcatFacts
<1> HIDE DEF n
<1>4. \A j \in DOMAIN z : z[j].e = "close" /\ z[j].b \in D /\ z[j].b # None /\ z[j].b \in S \ C
  <2>1. \A b \in D : b \in Nat /\ b # None
    BY <1>1, NoneFacts
  <2>2. \A j \in DOMAIN z : z[j].e = "close" /\ z[j].b \in D
    BY DEF Closes
  <2> QED
    BY <2>1, <2>2
<1>5. \A i \in DOMAIN n : i \in DOMAIN o \/ (n[i].e = "close" /\ n[i].b \in D /\ n[i].b # None)
  BY <1>3, <1>4
<1>6. \A i \in DOMAIN n : n[i].b = None => n[i].e \in M /\ n[i].call = None
  BY <1>3, <1>5 DEF Log
<1>7. \A i \in DOMAIN n : n[i].b # None => n[i].b \in S /\ n[i].e \in BlockNames
  BY <1>3, <1>5 DEF Log, BlockNames
<1>8. \A i \in DOMAIN n : n[i].e = "close" => n[i].b \in C \cup D
  BY <1>3, <1>5 DEF Log
<1>9. ASSUME NEW b \in S PROVE \E i \in DOMAIN n : n[i].e = "open" /\ n[i].b = b
  <2>1. PICK i \in DOMAIN o : o[i].e = "open" /\ o[i].b = b
    BY DEF Log
  <2> QED
    BY <1>3, <2>1
<1>10. ASSUME NEW b \in C \cup D PROVE \E i \in DOMAIN n : n[i].e = "close" /\ n[i].b = b
  <2>1. CASE b \in C
    <3>1. PICK i \in DOMAIN o : o[i].e = "close" /\ o[i].b = b
      BY <2>1 DEF Log
    <3> QED
      BY <1>3, <3>1
  <2>2. CASE b \in D
    <3>1. PICK i \in DOMAIN z : z[i].b = b
      BY <2>2 DEF Closes
    <3> QED
      BY <1>3, <1>4, <3>1
  <2> QED
    BY <2>1, <2>2
<1>11. ASSUME NEW i \in DOMAIN n, NEW j \in DOMAIN n, n[i].e = "open", n[i].b = n[j].b
       PROVE  (n[j].e = "open" => i = j) /\ (n[j].e = "delta" => i < j)
  <2>1. i \in DOMAIN o /\ n[i] = o[i]
    BY <1>3, <1>5, <1>11
  <2>2. CASE j \in DOMAIN o
    BY <1>3, <1>11, <2>1, <2>2 DEF Log
  <2>3. CASE j \notin DOMAIN o
    BY <1>5, <2>3
  <2> QED
    BY <2>2, <2>3
<1>12. ASSUME NEW i \in DOMAIN n, NEW j \in DOMAIN n, n[i].e = "close", n[i].b = n[j].b
       PROVE  (n[j].e = "close" => i = j) /\ (n[j].e = "delta" => j < i)
  <2>1. \A l \in DOMAIN o : o[l].e = "close" => o[l].b \in C
    BY DEF Log
  <2>2. CASE i \in DOMAIN o
    <3>1. n[i] = o[i] /\ o[i].b \in C
      BY <1>3, <1>12, <2>1, <2>2
    <3>2. j \in DOMAIN o /\ n[j] = o[j]
      BY <1>3, <1>4, <1>12, <3>1
    <3> QED
      BY <1>12, <2>2, <3>1, <3>2 DEF Log
  <2>3. CASE i \notin DOMAIN o
    <3>1. PICK k \in DOMAIN z : i = Len(o) + k /\ n[i] = z[k]
      BY <1>3, <2>3
    <3>2. CASE j \in DOMAIN o
      BY <1>3, <1>4, <1>12, <2>1, <3>1, <3>2
    <3>3. CASE j \notin DOMAIN o
      <4>1. PICK l \in DOMAIN z : j = Len(o) + l /\ n[j] = z[l]
        BY <1>3, <3>3
      <4>2. k = l
        BY <1>12, <3>1, <4>1 DEF Closes
      <4> QED
        BY <1>4, <3>1, <4>1, <4>2
    <3> QED
      BY <3>2, <3>3
  <2> QED
    BY <2>2, <2>3
<1>13. Log(n, S, C \cup D, M)
  BY <1>1, <1>3, <1>6, <1>7, <1>8, <1>9, <1>10, <1>11, <1>12 DEF Log
<1> QED
  BY <1>13 DEF n

LEMMA CloseAllCloses ==
  ASSUME NEW D, D \subseteq Nat, IsFiniteSet(D)
  PROVE  Closes(CloseAll(D), D)
<1> DEFINE ev(b) == Event("close", b, None)
           T == {ev(b) : b \in D}
           g == [b \in D |-> ev(b)]
<1>1. \A b \in D : ev(b) \in Events /\ ev(b).e = "close" /\ ev(b).b = b /\ ev(b).call = None
  <2> SUFFICES ASSUME NEW b \in D
               PROVE  ev(b) \in Events /\ ev(b).e = "close" /\ ev(b).b = b /\ ev(b).call = None
    OBVIOUS
  <2>1. b \in Nat \cup {None} /\ "close" \in EventNames
    BY DEF EventNames
  <2> QED
    BY <2>1, NoneFacts, EventFacts
<1> HIDE DEF ev
<1>2. g \in Surjection(D, T)
  BY DEF Surjection
<1>3. IsFiniteSet(T)
  BY <1>2, FS_Surjection
<1>4. Cardinality(T) \in Nat /\ ExistsBijection(1 .. Cardinality(T), T)
  BY <1>3, FS_CardinalityType
<1> DEFINE m == Cardinality(T)
           z == SetToSeq(T)
<1>5. \E f \in [1 .. m -> T] : IsInjective(f)
  BY <1>4 DEF ExistsBijection, Bijection, Injection
<1>6. z \in [1 .. m -> T] /\ IsInjective(z)
  BY <1>5 DEF SetToSeq
<1>7. CloseAll(D) = z
  BY DEF CloseAll, ev
<1> HIDE DEF z
<1>8. z \in Injection(1 .. m, T)
  BY <1>6 DEF Injection
<1>9. IsFiniteSet(1 .. m) /\ Cardinality(1 .. m) = m
  BY <1>4, FS_Interval
<1>10. z \in Surjection(1 .. m, T)
  BY <1>3, <1>8, <1>9, FS_Injection
<1> HIDE DEF m
<1>11. DOMAIN z = 1 .. m /\ z \in Seq(T)
  BY <1>4, <1>6, SeqDef DEF m
<1>12. T \subseteq Events
  BY <1>1
<1>13. z \in Seq(Events)
  BY <1>11, <1>12, SeqMonotonic
<1>14. \A i \in DOMAIN z : \E b \in D : z[i] = ev(b)
  BY <1>6, <1>11
<1>15. \A i \in DOMAIN z : z[i].e = "close" /\ z[i].b \in D /\ z[i].call = None /\ z[i] = ev(z[i].b)
  BY <1>1, <1>14
<1>16. ASSUME NEW b \in D PROVE \E i \in DOMAIN z : z[i].b = b
  <2>1. ev(b) \in T
    OBVIOUS
  <2>2. PICK i \in 1 .. m : z[i] = ev(b)
    BY <1>10, <2>1 DEF Surjection
  <2> QED
    BY <1>1, <1>11, <2>2
<1>17. \A i, j \in DOMAIN z : z[i].b = z[j].b => i = j
  <2> SUFFICES ASSUME NEW i \in DOMAIN z, NEW j \in DOMAIN z, z[i].b = z[j].b PROVE i = j
    OBVIOUS
  <2>1. z[i] = z[j]
    BY <1>15
  <2> QED
    BY <1>6, <2>1 DEF IsInjective
<1>18. Closes(z, D)
  BY <1>13, <1>15, <1>16, <1>17 DEF Closes
<1> QED
  BY <1>7, <1>18

\* What the client got, as properties of a sequence of events.
EventsAt(o, e, b) == {i \in DOMAIN o : o[i].e = e /\ o[i].b = b}
SentIn(o, e) == \E i \in DOMAIN o : o[i].e = e
FinalsOf(o) == {i \in DOMAIN o : o[i].e \in {"final", "final_usage"}}
BracketedOf(o) ==
  \A b \in {o[i].b : i \in DOMAIN o} \ {None} :
    /\ Cardinality(EventsAt(o, "open", b)) = 1 /\ Cardinality(EventsAt(o, "close", b)) <= 1
    /\ \A i \in EventsAt(o, "open", b), j \in EventsAt(o, "delta", b) : i < j
    /\ \A i \in EventsAt(o, "close", b), j \in EventsAt(o, "delta", b) : j < i
    /\ SentIn(o, "stop") \/ SentIn(o, "completed") => Cardinality(EventsAt(o, "close", b)) = 1
EndsOnce(o) == \A i \in DOMAIN o : o[i].e \in {"stop", "done"} => i = Len(o)

LEMMA LogNames ==
  ASSUME NEW o, NEW S, NEW C, NEW M, Log(o, S, C, M), NEW i \in DOMAIN o
  PROVE  o[i].e \in M \cup BlockNames
BY DEF Log

LEMMA AtMostOne ==
  ASSUME NEW A, \A i, j \in A : i = j
  PROVE  Cardinality(A) <= 1 /\ (A # {} => Cardinality(A) = 1)
<1>1. CASE A = {}
  BY <1>1, FS_EmptySet
<1>2. CASE A # {}
  <2>1. PICK x : A = {x}
    BY <1>2
  <2>2. Cardinality({x}) = 1
    BY FS_Singleton, Zenon
  <2> QED
    BY <2>1, <2>2
<1> QED
  BY <1>1, <1>2

LEMMA LogBracketed ==
  ASSUME NEW o, NEW S, NEW C, NEW M, Log(o, S, C, M), C = S \/ {"stop", "completed"} \cap M = {}
  PROVE  BracketedOf(o)
<1> SUFFICES ASSUME NEW b \in {o[i].b : i \in DOMAIN o} \ {None}
             PROVE  /\ Cardinality(EventsAt(o, "open", b)) = 1
                    /\ Cardinality(EventsAt(o, "close", b)) <= 1
                    /\ \A i \in EventsAt(o, "open", b), j \in EventsAt(o, "delta", b) : i < j
                    /\ \A i \in EventsAt(o, "close", b), j \in EventsAt(o, "delta", b) : j < i
                    /\ SentIn(o, "stop") \/ SentIn(o, "completed") =>
                         Cardinality(EventsAt(o, "close", b)) = 1
  BY DEF BracketedOf
<1>1. b \in S
  BY DEF Log
<1>2. /\ \A i, j \in EventsAt(o, "open", b) : i = j
      /\ \A i, j \in EventsAt(o, "close", b) : i = j
      /\ \A i \in EventsAt(o, "open", b), j \in EventsAt(o, "delta", b) : i < j
      /\ \A i \in EventsAt(o, "close", b), j \in EventsAt(o, "delta", b) : j < i
  BY DEF Log, EventsAt
<1>3. EventsAt(o, "open", b) # {}
  BY <1>1 DEF Log, EventsAt
<1>4. CASE C = S
  <2>1. EventsAt(o, "close", b) # {}
    BY <1>1, <1>4 DEF Log, EventsAt
  <2> QED
    BY <1>2, <1>3, <2>1, AtMostOne
<1>5. CASE {"stop", "completed"} \cap M = {}
  <2>1. ~SentIn(o, "stop") /\ ~SentIn(o, "completed")
    BY <1>5, LogNames DEF SentIn, BlockNames
  <2> QED
    BY <1>2, <1>3, <2>1, AtMostOne
<1> QED
  BY <1>4, <1>5

LEMMA LogEndsOnce ==
  ASSUME NEW o, NEW S, NEW C, NEW M, Log(o, S, C, M), {"stop", "done"} \cap M = {}, NEW v \in Events
  PROVE  /\ EndsOnce(o) /\ EndsOnce(Append(o, v))
         /\ ~SentIn(o, "stop") /\ ~SentIn(o, "done")
<1>1. \A i \in DOMAIN o : o[i].e \notin {"stop", "done"}
  BY LogNames DEF BlockNames
<1>2. o \in Seq(Events)
  BY DEF Log
<1>3. /\ Len(Append(o, v)) = Len(o) + 1 /\ Len(o) \in Nat /\ DOMAIN o = 1 .. Len(o)
      /\ DOMAIN Append(o, v) = 1 .. (Len(o) + 1)
      /\ \A i \in 1 .. Len(o) : Append(o, v)[i] = o[i]
  BY <1>2, AppendFacts
<1>4. EndsOnce(Append(o, v))
  BY <1>1, <1>3 DEF EndsOnce
<1> QED
  BY <1>1, <1>4 DEF EndsOnce, SentIn

LEMMA LogNoFinals ==
  ASSUME NEW o, NEW S, NEW C, NEW M, Log(o, S, C, M), {"final", "final_usage"} \cap M = {}
  PROVE  FinalsOf(o) = {} /\ Cardinality(FinalsOf(o)) = 0
<1>1. FinalsOf(o) = {}
  BY LogNames DEF FinalsOf, BlockNames
<1> QED
  BY <1>1, FS_EmptySet

LEMMA AppendSent ==
  ASSUME NEW o \in Seq(Events), NEW v \in Events, NEW e
  PROVE  SentIn(Append(o, v), e) <=> SentIn(o, e) \/ v.e = e
<1>1. /\ Len(o) \in Nat /\ DOMAIN o = 1 .. Len(o) /\ DOMAIN Append(o, v) = 1 .. (Len(o) + 1)
      /\ \A i \in 1 .. Len(o) : Append(o, v)[i] = o[i]
      /\ Append(o, v)[Len(o) + 1] = v
  BY AppendFacts
<1>2. Len(o) + 1 \in DOMAIN Append(o, v) /\ DOMAIN o \subseteq DOMAIN Append(o, v)
  BY <1>1
<1>3. \A i \in DOMAIN Append(o, v) : i \in DOMAIN o \/ i = Len(o) + 1
  BY <1>1
<1> QED
  BY <1>1, <1>2, <1>3 DEF SentIn

----------------------------------------------------------------------------
\* The Claude converter: every block it knows was started, with an index below
\* the next one, and no two calls have one index.
BlockRecord == {"next", "think", "text", "tools"}
BlocksOf(c) == ({c.think, c.text} \ {None}) \cup {c.tools[x] : x \in DOMAIN c.tools}
ClaudeOK(c, o) ==
  /\ DOMAIN c = BlockRecord /\ c.next \in Nat /\ BlocksOf(c) \subseteq 0 .. (c.next - 1)
  /\ \A x, y \in DOMAIN c.tools : c.tools[x] = c.tools[y] => x = y
  /\ Log(o, BlocksOf(c), {}, ClaudeMarks)

\* With ids that are repeated, each call has the block of its id.
ClaudeCalls(c, o) ==
  \A i \in DOMAIN o : o[i].call # None =>
    <<"up", o[i].call>> \in DOMAIN c.tools /\ o[i].b = c.tools[<<"up", o[i].call>>]

\* A block is started with the next index.
LEMMA OpenBlock ==
  ASSUME NEW c, NEW o, ClaudeOK(c, o), NEW d, NEW k \in Calls \cup {None},
         DOMAIN d = BlockRecord, d.next = c.next + 1, BlocksOf(d) = BlocksOf(c) \cup {c.next},
         \A x, y \in DOMAIN d.tools : d.tools[x] = d.tools[y] => x = y
  PROVE  ClaudeOK(d, Append(o, Event("open", c.next, k))) /\ Event("open", c.next, k) \in Events
<1>1. c.next \in Nat /\ BlocksOf(c) \subseteq 0 .. (c.next - 1) /\ Log(o, BlocksOf(c), {}, ClaudeMarks)
  BY DEF ClaudeOK
<1>2. c.next \in Nat \ BlocksOf(c)
  BY <1>1
<1>3. /\ Log(Append(o, Event("open", c.next, k)), BlocksOf(c) \cup {c.next}, {}, ClaudeMarks)
      /\ Event("open", c.next, k) \in Events
  BY <1>1, <1>2, LogOpen
<1>4. d.next \in Nat /\ BlocksOf(d) \subseteq 0 .. (d.next - 1)
  BY <1>1
<1> QED
  BY <1>3, <1>4 DEF ClaudeOK

LEMMA DeltaBlock ==
  ASSUME NEW c, NEW o, ClaudeOK(c, o), NEW b \in BlocksOf(c), NEW k \in Calls \cup {None}
  PROVE  ClaudeOK(c, Append(o, Event("delta", b, k))) /\ Event("delta", b, k) \in Events
<1>1. Log(o, BlocksOf(c), {}, ClaudeMarks)
  BY DEF ClaudeOK
<1>2. /\ Log(Append(o, Event("delta", b, k)), BlocksOf(c), {}, ClaudeMarks)
      /\ Event("delta", b, k) \in Events
  BY <1>1, LogDelta
<1> QED
  BY <1>2 DEF ClaudeOK

\* An event of no call, or of a call in the call's block.
LEMMA CallsAppend ==
  ASSUME NEW c, NEW o \in Seq(Events), ClaudeCalls(c, o), NEW v \in Events,
         v.call # None => <<"up", v.call>> \in DOMAIN c.tools /\ v.b = c.tools[<<"up", v.call>>]
  PROVE  ClaudeCalls(c, Append(o, v))
BY AppendFacts DEF ClaudeCalls

LEMMA BlockDeltaOK ==
  ASSUME NEW c, NEW o, ClaudeOK(c, o), NEW f \in {"think", "text"}, NEW s, s = [c |-> c, o |-> o],
         NEW r, r = BlockDelta(s, f)
  PROVE  /\ ClaudeOK(r.c, r.o) /\ r = [c |-> r.c, o |-> r.o]
         /\ ClaudeCalls(c, o) => ClaudeCalls(r.c, r.o)
<1>0. s.c = c /\ s.o = o
  OBVIOUS
<1>1. /\ DOMAIN c = BlockRecord
      /\ c.next \in Nat /\ BlocksOf(c) \subseteq 0 .. (c.next - 1)
      /\ \A x, y \in DOMAIN c.tools : c.tools[x] = c.tools[y] => x = y
      /\ o \in Seq(Events)
  BY DEF ClaudeOK, Log
<1>2. c.next \in Nat \cup {None} /\ None \in Calls \cup {None}
  BY <1>1, NoneFacts
<1>3. CASE c[f] = None
  <2> DEFINE d == [c EXCEPT ![f] = c.next, !.next = @ + 1]
             u == Event("open", c.next, None)
             v == Event("delta", c.next, None)
  <2>1. r = [c |-> d, o |-> o \o <<u, v>>]
    BY <1>0, <1>3 DEF BlockDelta
  <2>2. /\ DOMAIN d = BlockRecord /\ d.next = c.next + 1 /\ d.tools = c.tools
        /\ \/ d.think = c.next /\ d.text = c.text /\ c.think = None
           \/ d.text = c.next /\ d.think = c.think /\ c.text = None
    BY <1>1, <1>3 DEF BlockRecord
  <2> HIDE DEF d
  <2>3. BlocksOf(d) = BlocksOf(c) \cup {c.next}
    <3>1. c.next # None
      BY <1>1, NoneFacts
    <3> QED
      BY <2>2, <3>1 DEF BlocksOf
  <2>4. ClaudeOK(d, Append(o, u)) /\ u \in Events
    BY <1>1, <1>2, <2>2, <2>3, OpenBlock
  <2>5. ClaudeOK(d, Append(Append(o, u), v)) /\ v \in Events
    BY <1>2, <2>3, <2>4, DeltaBlock
  <2>6. u.call = None /\ v.call = None
    BY DEF Event
  <2> HIDE DEF u, v
  <2>7. o \o <<u, v>> = Append(Append(o, u), v) /\ Append(o, u) \in Seq(Events)
    BY <1>1, <2>4, <2>5, AppendTwo, AppendFacts
  <2>8. ClaudeCalls(c, o) => ClaudeCalls(d, o)
    BY <2>2 DEF ClaudeCalls
  <2>9. ClaudeCalls(d, o) => ClaudeCalls(d, Append(o, u))
    BY <1>1, <2>4, <2>6, CallsAppend
  <2>10. ClaudeCalls(d, Append(o, u)) => ClaudeCalls(d, Append(Append(o, u), v))
    BY <2>5, <2>6, <2>7, CallsAppend
  <2>11. r.c = d /\ r.o = Append(Append(o, u), v)
    BY <2>1, <2>7
  <2> QED
    BY <2>1, <2>5, <2>7, <2>8, <2>9, <2>10, <2>11
<1>4. CASE c[f] # None
  <2> DEFINE v == Event("delta", c[f], None)
  <2>1. r = [c |-> c, o |-> Append(o, v)]
    BY <1>0, <1>4 DEF BlockDelta
  <2>2. c[f] \in BlocksOf(c)
    BY <1>4 DEF BlocksOf
  <2>3. ClaudeOK(c, Append(o, v)) /\ v \in Events
    BY <1>2, <2>2, DeltaBlock
  <2>4. v.call = None
    BY DEF Event
  <2> HIDE DEF v
  <2>5. ClaudeCalls(c, o) => ClaudeCalls(c, Append(o, v))
    BY <1>1, <2>3, <2>4, CallsAppend
  <2>6. r.c = c /\ r.o = Append(o, v)
    BY <2>1
  <2> QED
    BY <2>1, <2>3, <2>5, <2>6
<1> QED
  BY <1>3, <1>4

LEMMA ToolBlockOK ==
  ASSUME NEW c, NEW o, ClaudeOK(c, o), NEW s, s = [c |-> c, o |-> o], NEW t, NEW id,
         t.call \in Calls, t.args \in BOOLEAN, NEW r, r = ToolBlock(s, t, id)
  PROVE  /\ ClaudeOK(r.c, r.o)
         /\ ClaudeCalls(c, o) /\ id = <<"up", t.call>> => ClaudeCalls(r.c, r.o)
<1> DEFINE new == id \notin DOMAIN c.tools
           idx == IF new THEN c.next ELSE c.tools[id]
           d == IF new THEN [c EXCEPT !.next = @ + 1, !.tools = With(@, id, idx)] ELSE c
           u == Event("open", idx, t.call)
           v == Event("delta", idx, t.call)
           p == IF new THEN Append(o, u) ELSE o
           q == IF t.args THEN Append(p, v) ELSE p
<1>0. s.c = c /\ s.o = o
  OBVIOUS
<1>1. /\ DOMAIN c = BlockRecord
      /\ c.next \in Nat /\ BlocksOf(c) \subseteq 0 .. (c.next - 1)
      /\ \A x, y \in DOMAIN c.tools : c.tools[x] = c.tools[y] => x = y
      /\ \A x \in DOMAIN c.tools : c.tools[x] \in BlocksOf(c)
      /\ o \in Seq(Events)
  BY DEF ClaudeOK, Log, BlocksOf
<1>2. idx \in Nat \cup {None} /\ t.call \in Calls \cup {None}
  BY <1>1
<1>3. u \in Events /\ v \in Events /\ u.call = t.call /\ v.call = t.call /\ u.b = idx /\ v.b = idx
  <2>1. "open" \in EventNames /\ "delta" \in EventNames
    BY DEF EventNames
  <2>2. \A e \in EventNames, b \in Nat \cup {None}, k \in Calls \cup {None} :
          Event(e, b, k) \in Events /\ Event(e, b, k).b = b /\ Event(e, b, k).call = k
    BY EventFacts
  <2> HIDE DEF idx
  <2> QED
    BY <1>2, <2>1, <2>2
<1>4. /\ id \in DOMAIN d.tools /\ d.tools[id] = idx /\ idx \in BlocksOf(d)
      /\ \A x \in DOMAIN c.tools : x \in DOMAIN d.tools /\ d.tools[x] = c.tools[x]
      /\ ClaudeOK(d, p)
  <2>1. CASE new
    <3>1. /\ DOMAIN d = BlockRecord /\ d.next = c.next + 1 /\ d.think = c.think /\ d.text = c.text
          /\ d.tools = With(c.tools, id, c.next)
      BY <1>1, <2>1 DEF BlockRecord
    <3> HIDE DEF d
    <3>2. /\ DOMAIN d.tools = DOMAIN c.tools \cup {id} /\ d.tools[id] = c.next
          /\ \A x \in DOMAIN c.tools : d.tools[x] = c.tools[x]
      <4> DEFINE g == c.tools
                 m == c.next
                 w == With(g, id, m)
      <4>1. d.tools = w /\ id \notin DOMAIN g
        BY <2>1, <3>1
      <4> HIDE DEF g, m
      <4>2. DOMAIN w = DOMAIN g \cup {id} /\ w[id] = m /\ \A z \in DOMAIN g : z # id => w[z] = g[z]
        BY DEF With
      <4> HIDE DEF w
      <4>3. /\ DOMAIN d.tools = DOMAIN g \cup {id} /\ d.tools[id] = m
            /\ \A x \in DOMAIN g : d.tools[x] = g[x]
        BY <4>1, <4>2
      <4> QED
        BY <4>3 DEF g, m
    <3>3. BlocksOf(d) = BlocksOf(c) \cup {c.next}
      <4>1. {d.tools[x] : x \in DOMAIN d.tools} = {c.tools[x] : x \in DOMAIN c.tools} \cup {c.next}
        BY <3>2
      <4>2. BlocksOf(d) = ({c.think, c.text} \ {None}) \cup {d.tools[x] : x \in DOMAIN d.tools}
        BY <3>1 DEF BlocksOf
      <4> QED
        BY <4>1, <4>2 DEF BlocksOf
    <3>4. ASSUME NEW x \in DOMAIN d.tools, NEW y \in DOMAIN d.tools, d.tools[x] = d.tools[y]
          PROVE  x = y
      <4>1. \A z \in DOMAIN c.tools : d.tools[z] \in 0 .. (c.next - 1) /\ d.tools[z] # c.next
        BY <1>1, <3>2
      <4> QED
        BY <1>1, <3>2, <3>4, <4>1
    <3>5. ClaudeOK(d, Append(o, Event("open", c.next, t.call)))
      BY <1>2, <3>1, <3>3, <3>4, OpenBlock
    <3> QED
      BY <2>1, <3>2, <3>3, <3>5
  <2>2. CASE ~new
    BY <1>1, <2>2
  <2> QED
    BY <2>1, <2>2
<1>5. p \in Seq(Events)
  BY <1>1, <1>3, AppendFacts
<1>6. r.c = d /\ r.o = q
  <2> DEFINE w == IF t.args THEN <<v>> ELSE <<>>
             y == IF new THEN <<u>> ELSE <<>>
  <2>1. r = [c |-> d, o |-> (o \o y) \o w]
    BY <1>0 DEF ToolBlock
  <2>2. o \o y = p
    <3> HIDE DEF u
    <3> QED
      BY <1>1, <1>3, AppendOne
  <2>3. p \o w = q
    <3> HIDE DEF p, v
    <3> QED
      BY <1>3, <1>5, AppendOne
  <2> HIDE DEF w, y, p, q, d
  <2> QED
    BY <2>1, <2>2, <2>3
<1>7. ClaudeOK(d, q)
  <2>1. CASE t.args
    <3>1. ClaudeOK(d, Append(p, v))
      <4> HIDE DEF d, p, idx
      <4> QED
        BY <1>2, <1>4, DeltaBlock
    <3> QED
      BY <2>1, <3>1
  <2>2. CASE ~t.args
    BY <1>4, <2>2
  <2> QED
    BY <2>1, <2>2
<1>8. ASSUME ClaudeCalls(c, o), id = <<"up", t.call>> PROVE ClaudeCalls(d, q)
  <2> HIDE DEF d, u, v, idx
  <2>1. ClaudeCalls(d, o)
    BY <1>4, <1>8 DEF ClaudeCalls
  <2>2. ClaudeCalls(d, Append(o, u))
    BY <1>1, <1>3, <1>4, <1>8, <2>1, CallsAppend
  <2>3. ClaudeCalls(d, p)
    BY <2>1, <2>2
  <2> HIDE DEF p
  <2>4. ClaudeCalls(d, Append(p, v))
    BY <1>3, <1>4, <1>5, <1>8, <2>3, CallsAppend
  <2> QED
    BY <2>3, <2>4
<1> QED
  BY <1>6, <1>7, <1>8

----------------------------------------------------------------------------
\* The bridge's tables: the ids in order and the map from ids to positions are
\* inverse to each other, and an id the bridge made up tells its position.
CallIds == {<<"up", k>> : k \in Calls} \cup {<<"call", i>> : i \in Nat}
BridgeRecord == {"started", "calls", "byIndex", "order", "states"}
Table(b) ==
  /\ DOMAIN b = BridgeRecord /\ b.started \in BOOLEAN
  /\ b.order \in Seq(CallIds) /\ b.states \in Seq([id : CallIds, index : Nat])
  /\ Len(b.states) = Len(b.order)
  /\ \A i \in 1 .. Len(b.order) :
       /\ b.order[i] \in DOMAIN b.calls /\ b.calls[b.order[i]] = i
       /\ b.states[i].id = b.order[i] /\ b.states[i].index = i
       /\ \A j \in Nat : b.order[i] = <<"call", j>> => j = i
  /\ \A x \in DOMAIN b.calls : b.calls[x] \in 1 .. Len(b.order) /\ b.order[b.calls[x]] = x
  /\ \A x \in DOMAIN b.byIndex : x \in Nat /\ b.byIndex[x] \in 1 .. Len(b.order)
  /\ b.started \/ b.order = <<>>

\* The items that were started: the message, and one for each call.
Items(b) == IF b.started THEN 0 .. Len(b.order) ELSE {}
BridgeOK(b, o) == Table(b) /\ Log(o, Items(b), {}, BridgeMarks)

LEMMA TableFacts ==
  ASSUME NEW b, Table(b)
  PROVE  /\ Len(b.order) \in Nat /\ DOMAIN b.order = 1 .. Len(b.order)
         /\ DOMAIN b.states = 1 .. Len(b.order)
         /\ \A i \in 1 .. Len(b.order) : b.order[i] \in CallIds
         /\ DOMAIN b.calls \subseteq CallIds /\ NoId \notin DOMAIN b.calls
<1>1. b.order \in Seq(CallIds) /\ b.states \in Seq([id : CallIds, index : Nat])
  BY DEF Table
<1>2. Len(b.order) \in Nat /\ DOMAIN b.order = 1 .. Len(b.order) /\ DOMAIN b.states = 1 .. Len(b.states)
  BY <1>1, LenProperties
<1>3. \A i \in 1 .. Len(b.order) : b.order[i] \in CallIds
  BY <1>1, ElementOfSeq
<1>4. DOMAIN b.calls \subseteq CallIds
  BY <1>3 DEF Table
<1>5. NoId \notin CallIds
  BY DEF NoId, CallIds
<1> QED
  BY <1>2, <1>3, <1>4, <1>5 DEF Table

LEMMA FindFacts ==
  ASSUME NEW b, Table(b), NEW t, t.idx \in Nat \/ t.idx = None
  PROVE  /\ FindCall(b, t) \in 0 .. Len(b.order)
         /\ t.id \in DOMAIN b.calls =>
              FindCall(b, t) = b.calls[t.id] /\ FindCall(b, t) # 0 /\ b.order[FindCall(b, t)] = t.id
<1>1. Len(b.order) \in Nat /\ DOMAIN b.order = 1 .. Len(b.order)
  BY TableFacts
<1>2. /\ \A x \in DOMAIN b.calls : b.calls[x] \in 1 .. Len(b.order) /\ b.order[b.calls[x]] = x
      /\ \A x \in DOMAIN b.byIndex : b.byIndex[x] \in 1 .. Len(b.order)
  BY DEF Table
<1>3. CASE t.id \in DOMAIN b.calls
  BY <1>1, <1>2, <1>3 DEF FindCall
<1>4. CASE t.id \notin DOMAIN b.calls
  BY <1>1, <1>2, <1>4 DEF FindCall
<1> QED
  BY <1>3, <1>4

\* n is b with a call at position q under id: a new one, or one that had the
\* id old.
Recorded(b, n, q, id, old) ==
  LET l == Len(b.order)
      m == Len(n.order)
  IN /\ DOMAIN n = BridgeRecord /\ n.started = TRUE /\ n.order \in Seq(CallIds)
     /\ n.states \in Seq([id : CallIds, index : Nat]) /\ Len(n.states) = m
     /\ q \in 1 .. m /\ l <= m /\ \A i \in 1 .. m : i = q \/ i \in 1 .. l
     /\ n.order[q] = id /\ n.states[q].id = id /\ n.states[q].index = q
     /\ \A i \in 1 .. l : i # q => n.order[i] = b.order[i] /\ n.states[i] = b.states[i]
     /\ q \in 1 .. l => old = b.order[q]
     /\ q \notin 1 .. l => old \notin DOMAIN b.calls
     /\ id \notin DOMAIN b.calls \/ id = old
     /\ \A j \in Nat : id = <<"call", j>> => j = q
     /\ DOMAIN n.calls = (DOMAIN b.calls \ {old}) \cup {id} /\ n.calls[id] = q
     /\ \A x \in DOMAIN b.calls : x # old /\ x # id => n.calls[x] = b.calls[x]
     /\ \A x \in DOMAIN n.byIndex :
          x \in Nat /\ (n.byIndex[x] = q \/ (x \in DOMAIN b.byIndex /\ n.byIndex[x] = b.byIndex[x]))

LEMMA TableStep ==
  ASSUME NEW b, NEW n, NEW q, NEW id, NEW old, Table(b), Recorded(b, n, q, id, old)
  PROVE  Table(n)
<1> DEFINE l == Len(b.order)
           m == Len(n.order)
<1>0. /\ DOMAIN n = BridgeRecord /\ n.started = TRUE /\ n.order \in Seq(CallIds)
      /\ n.states \in Seq([id : CallIds, index : Nat]) /\ Len(n.states) = m
      /\ q \in 1 .. m /\ l <= m /\ \A i \in 1 .. m : i = q \/ i \in 1 .. l
      /\ n.order[q] = id /\ n.states[q].id = id /\ n.states[q].index = q
      /\ \A i \in 1 .. l : i # q => n.order[i] = b.order[i] /\ n.states[i] = b.states[i]
      /\ q \in 1 .. l => old = b.order[q]
      /\ q \notin 1 .. l => old \notin DOMAIN b.calls
      /\ id \notin DOMAIN b.calls \/ id = old
      /\ \A j \in Nat : id = <<"call", j>> => j = q
      /\ DOMAIN n.calls = (DOMAIN b.calls \ {old}) \cup {id} /\ n.calls[id] = q
      /\ \A x \in DOMAIN b.calls : x # old /\ x # id => n.calls[x] = b.calls[x]
      /\ \A x \in DOMAIN n.byIndex :
           x \in Nat /\ (n.byIndex[x] = q \/ (x \in DOMAIN b.byIndex /\ n.byIndex[x] = b.byIndex[x]))
  BY DEF Recorded
<1>1. l \in Nat /\ m \in Nat
  <2>1. l \in Nat
    BY TableFacts
  <2>2. Len(n.order) \in Nat
    BY <1>0, LenProperties
  <2> QED
    BY <2>1, <2>2
<1>2. \A x \in DOMAIN n.byIndex : x \in Nat /\ n.byIndex[x] \in 1 .. m
  <2>1. \A x \in DOMAIN b.byIndex : b.byIndex[x] \in 1 .. m
    BY <1>0, <1>1 DEF Table
  <2> QED
    BY <1>0, <2>1
<1>3. ASSUME NEW i \in 1 .. l, i # q
      PROVE  /\ b.order[i] \in DOMAIN b.calls /\ b.order[i] # old /\ b.order[i] # id
             /\ b.calls[b.order[i]] = i /\ b.states[i].id = b.order[i] /\ b.states[i].index = i
             /\ \A j \in Nat : b.order[i] = <<"call", j>> => j = i
  <2>1. /\ b.order[i] \in DOMAIN b.calls /\ b.calls[b.order[i]] = i
        /\ b.states[i].id = b.order[i] /\ b.states[i].index = i
        /\ \A j \in Nat : b.order[i] = <<"call", j>> => j = i
    BY DEF Table
  <2>2. q \in 1 .. l => b.calls[b.order[q]] = q
    BY DEF Table
  <2> QED
    BY <1>0, <1>3, <2>1, <2>2
<1>4. ASSUME NEW i \in 1 .. m
      PROVE  /\ n.order[i] \in DOMAIN n.calls /\ n.calls[n.order[i]] = i
             /\ n.states[i].id = n.order[i] /\ n.states[i].index = i
             /\ \A j \in Nat : n.order[i] = <<"call", j>> => j = i
  <2>1. CASE i = q
    BY <1>0, <2>1
  <2>2. CASE i # q
    <3>1. i \in 1 .. l /\ n.order[i] = b.order[i] /\ n.states[i] = b.states[i]
      BY <1>0, <2>2
    <3> QED
      BY <1>0, <1>3, <2>2, <3>1
  <2> QED
    BY <2>1, <2>2
<1>5. ASSUME NEW x \in DOMAIN n.calls PROVE n.calls[x] \in 1 .. m /\ n.order[n.calls[x]] = x
  <2>1. CASE x = id
    BY <1>0, <2>1
  <2>2. CASE x # id
    <3>1. x \in DOMAIN b.calls /\ x # old /\ n.calls[x] = b.calls[x]
      BY <1>0, <2>2
    <3>2. b.calls[x] \in 1 .. l /\ b.order[b.calls[x]] = x
      BY <3>1 DEF Table
    <3>3. b.calls[x] # q
      BY <1>0, <3>1, <3>2
    <3>4. n.order[b.calls[x]] = x
      BY <1>0, <3>2, <3>3
    <3>5. b.calls[x] \in 1 .. m
      <4>1. l \in Nat /\ m \in Nat /\ l <= m
        BY <1>0, <1>1
      <4> QED
        BY <3>2, <4>1
    <3> QED
      BY <3>1, <3>4, <3>5
  <2> QED
    BY <2>1, <2>2
<1> QED
  BY <1>0, <1>2, <1>4, <1>5 DEF Table

LEMMA WithoutFacts ==
  ASSUME NEW g, NEW old, NEW w, w = [z \in DOMAIN g \ {old} |-> g[z]]
  PROVE  DOMAIN w = DOMAIN g \ {old} /\ \A z \in DOMAIN g : z # old => w[z] = g[z]
OBVIOUS

UpIds == {<<"up", k>> : k \in Calls}

\* What ensureToolCallState does with the delta t, whose state is at p (0: there
\* is none), and is then at q under id.
Ensured(b, o, t, e, p, q, id) ==
  /\ Table(e.b) /\ e.b.started /\ q \in 1 .. Len(e.b.order)
  /\ Len(e.b.order) = IF p = 0 THEN Len(b.order) + 1 ELSE Len(b.order)
  /\ e.b.order[q] = id
  /\ \A i \in 1 .. Len(b.order) : i # q => e.b.order[i] = b.order[i]
  /\ t.idx = None => e.b.byIndex = b.byIndex
  /\ t.idx # None => /\ DOMAIN e.b.byIndex = DOMAIN b.byIndex \cup {t.idx}
                     /\ e.b.byIndex[t.idx] = q
                     /\ \A x \in DOMAIN b.byIndex : x # t.idx => e.b.byIndex[x] = b.byIndex[x]
  /\ e.o = o \o (IF p = 0 THEN <<Event("open", q, t.call)>> ELSE <<>>) \o <<Mark("action")>>
  /\ e = [b |-> e.b, o |-> e.o]

\* The place p of the call of a delta, 0 if there is none, the place q it gets,
\* and its id.
Placed(b, t, p, q, id) ==
  /\ p = FindCall(b, t) /\ q = (IF p = 0 THEN Len(b.order) + 1 ELSE p)
  /\ id = (IF t.id # NoId THEN t.id ELSE IF p = 0 THEN <<"call", q>> ELSE b.order[q])

EnsuredAs(e, b, o, t, p, q, id) ==
  e = [b |-> [b EXCEPT
                !.calls   = With(IF p = 0 THEN b.calls
                                 ELSE [x \in DOMAIN b.calls \ {b.states[p].id} |-> b.calls[x]], id, q),
                !.byIndex = IF t.idx = None THEN b.byIndex ELSE With(b.byIndex, t.idx, q),
                !.order   = IF p = 0 THEN Append(b.order, id) ELSE [b.order EXCEPT ![q] = id],
                !.states  = IF p = 0 THEN Append(b.states, [id |-> id, index |-> q])
                            ELSE [b.states EXCEPT ![q].id = id]],
       o |-> o \o (IF p = 0 THEN <<Event("open", q, t.call)>> ELSE <<>>) \o <<Mark("action")>>]

LEMMA EnsureRecord ==
  ASSUME NEW b, NEW o, NEW t, NEW p, NEW q, NEW id, Placed(b, t, p, q, id),
         Len(b.states) = Len(b.order), p # 0 => b.states[p].id = b.order[p] /\ q = p
  PROVE  EnsuredAs(ensureToolCallState([b |-> b, o |-> o], t), b, o, t, p, q, id)
<1>1. /\ p = FindCall(b, t) /\ q = (IF p = 0 THEN Len(b.states) + 1 ELSE p)
      /\ id = (IF t.id # NoId THEN t.id ELSE IF p = 0 THEN <<"call", q>> ELSE b.states[p].id)
  BY DEF Placed
<1>2. CASE p = 0
  BY <1>1, <1>2 DEF ensureToolCallState, Renamed, EnsuredAs
<1>3. CASE p # 0
  BY <1>1, <1>3 DEF ensureToolCallState, Renamed, EnsuredAs
<1> QED
  BY <1>2, <1>3

LEMMA EnsureTable ==
  ASSUME NEW b, NEW o, Table(b), b.started, NEW t,
         t.id \in UpIds \cup {NoId}, t.idx \in Nat \/ t.idx = None,
         NEW e, e = ensureToolCallState([b |-> b, o |-> o], t), NEW p, p = FindCall(b, t),
         NEW q, q = IF p = 0 THEN Len(b.order) + 1 ELSE p,
         NEW id, id = IF t.id # NoId THEN t.id ELSE IF p = 0 THEN <<"call", q>> ELSE b.order[q]
  PROVE  Ensured(b, o, t, e, p, q, id)
<1> DEFINE l == Len(b.order)
           old == IF p = 0 THEN id ELSE b.order[q]
           C == With(IF p = 0 THEN b.calls ELSE [x \in DOMAIN b.calls \ {b.states[p].id} |-> b.calls[x]], id, q)
           B == IF t.idx = None THEN b.byIndex ELSE With(b.byIndex, t.idx, q)
           O == IF p = 0 THEN Append(b.order, id) ELSE [b.order EXCEPT ![q] = id]
           S == IF p = 0 THEN Append(b.states, [id |-> id, index |-> q])
                ELSE [b.states EXCEPT ![q].id = id]
           n == [b EXCEPT !.calls = C, !.byIndex = B, !.order = O, !.states = S]
<1>1. /\ l \in Nat /\ b.order \in Seq(CallIds) /\ Len(b.states) = l
      /\ b.states \in Seq([id : CallIds, index : Nat]) /\ DOMAIN b = BridgeRecord
      /\ \A i \in 1 .. l : b.states[i].id = b.order[i] /\ b.states[i].index = i /\ b.order[i] \in CallIds
  BY TableFacts DEF Table
<1>2. /\ p \in 0 .. l
      /\ t.id \in DOMAIN b.calls => p # 0 /\ b.order[p] = t.id
  BY FindFacts
<1>3. p # 0 => p \in 1 .. l /\ q = p /\ b.states[p].id = b.order[p] /\ b.states[p].index = p
  BY <1>1, <1>2
<1>4. e = [b |-> n, o |-> o \o (IF p = 0 THEN <<Event("open", q, t.call)>> ELSE <<>>) \o <<Mark("action")>>]
  <2>1. Placed(b, t, p, q, id)
    BY DEF Placed
  <2>2. Len(b.states) = Len(b.order) /\ (p # 0 => b.states[p].id = b.order[p] /\ q = p)
    BY <1>1, <1>3
  <2>3. EnsuredAs(e, b, o, t, p, q, id)
    BY <2>1, <2>2, EnsureRecord
  <2> QED
    BY <2>3 DEF EnsuredAs
<1>5. id \in CallIds /\ (\A j \in Nat : id = <<"call", j>> => j = q) /\ (id \notin DOMAIN b.calls \/ id = old)
  <2>1. CASE t.id # NoId
    <3>1. t.id \in UpIds /\ id = t.id
      BY <2>1
    <3>2. id \in CallIds /\ \A j \in Nat : id # <<"call", j>>
      BY <3>1 DEF UpIds, CallIds
    <3>3. id \notin DOMAIN b.calls \/ id = old
      BY <1>2, <1>3, <3>1
    <3> QED
      BY <3>2, <3>3
  <2>2. CASE t.id = NoId /\ p = 0
    <3>1. id = <<"call", q>> /\ q \in Nat /\ q = l + 1
      BY <1>1, <2>2
    <3>2. id \in CallIds
      BY <3>1 DEF CallIds
    <3>3. old = id
      BY <2>2
    <3> QED
      BY <3>1, <3>2, <3>3
  <2>3. CASE t.id = NoId /\ p # 0
    <3>1. id = b.order[q] /\ q \in 1 .. l /\ old = id
      BY <1>3, <2>3
    <3>2. \A j \in Nat : b.order[q] = <<"call", j>> => j = q
      BY <3>1 DEF Table
    <3> QED
      BY <1>1, <3>1, <3>2
  <2> QED
    BY <2>1, <2>2, <2>3
<1> HIDE DEF C, B, O, S
<1>6. /\ DOMAIN n = BridgeRecord /\ n.started = b.started /\ n.calls = C /\ n.byIndex = B
      /\ n.order = O /\ n.states = S
  BY <1>1 DEF BridgeRecord
<1>7. e.b = n /\ e.o = o \o (IF p = 0 THEN <<Event("open", q, t.call)>> ELSE <<>>) \o <<Mark("action")>>
      /\ e = [b |-> e.b, o |-> e.o]
  <2> DEFINE z == o \o (IF p = 0 THEN <<Event("open", q, t.call)>> ELSE <<>>) \o <<Mark("action")>>
  <2> HIDE DEF n
  <2>1. e = [b |-> n, o |-> z]
    BY <1>4
  <2> HIDE DEF z
  <2>2. e.b = n /\ e.o = z /\ e = [b |-> e.b, o |-> e.o]
    BY <2>1
  <2> QED
    BY <2>2 DEF z
<1> HIDE DEF n, old
<1>8. /\ O \in Seq(CallIds) /\ Len(O) = (IF p = 0 THEN l + 1 ELSE l) /\ O[q] = id
      /\ \A i \in 1 .. l : i # q => O[i] = b.order[i]
  <2>1. CASE p = 0
    BY <1>1, <1>5, <2>1, AppendProperties DEF O
  <2>2. CASE p # 0
    BY <1>1, <1>3, <1>5, <2>2, ExceptSeq DEF O
  <2> QED
    BY <2>1, <2>2
<1>9. /\ S \in Seq([id : CallIds, index : Nat]) /\ Len(S) = (IF p = 0 THEN l + 1 ELSE l)
      /\ S[q].id = id /\ S[q].index = q /\ \A i \in 1 .. l : i # q => S[i] = b.states[i]
  <2>1. CASE p = 0
    <3> DEFINE y == [id |-> id, index |-> q]
    <3>1. y \in [id : CallIds, index : Nat] /\ y.id = id /\ y.index = q
      BY <1>1, <1>5, <2>1
    <3>2. S = Append(b.states, y) /\ q = Len(b.states) + 1
      BY <1>1, <2>1 DEF S
    <3> HIDE DEF y
    <3>3. /\ S \in Seq([id : CallIds, index : Nat]) /\ Len(S) = l + 1 /\ S[q] = y
          /\ \A i \in 1 .. l : S[i] = b.states[i]
      BY <1>1, <3>1, <3>2, AppendProperties
    <3> QED
      BY <2>1, <3>1, <3>3
  <2>2. CASE p # 0
    <3> DEFINE y == [b.states[q] EXCEPT !.id = id]
    <3>1. b.states[q] \in [id : CallIds, index : Nat]
      BY <1>1, <1>3, <2>2, ElementOfSeq
    <3>2. y \in [id : CallIds, index : Nat] /\ y.id = id /\ y.index = b.states[q].index
      BY <1>5, <3>1
    <3>3. S = [b.states EXCEPT ![q] = y] /\ b.states[q].index = q /\ q \in 1 .. Len(b.states)
      BY <1>1, <1>3, <2>2 DEF S
    <3> HIDE DEF y
    <3> DEFINE R == [id : CallIds, index : Nat]
    <3>4. b.states \in Seq(R) /\ y \in R
      BY <1>1, <3>2
    <3> HIDE DEF R
    <3>5. S \in Seq(R) /\ Len(S) = Len(b.states)
          /\ \A j \in 1 .. Len(b.states) : S[j] = IF j = q THEN y ELSE b.states[j]
      BY <3>3, <3>4, ExceptSeq
    <3> QED
      BY <1>1, <2>2, <3>2, <3>3, <3>5 DEF R
  <2> QED
    BY <2>1, <2>2
<1>10. /\ DOMAIN C = (DOMAIN b.calls \ {old}) \cup {id} /\ C[id] = q
       /\ \A x \in DOMAIN b.calls : x # old /\ x # id => C[x] = b.calls[x]
  <2> DEFINE g == b.calls
             f == IF p = 0 THEN g ELSE [x \in DOMAIN g \ {old} |-> g[x]]
  <2>1. C = With(f, id, q)
    BY <1>3 DEF C, old
  <2>2. p = 0 => old = id
    BY DEF old
  <2> HIDE DEF g
  <2>3. /\ p # 0 => DOMAIN f = DOMAIN g \ {old} /\ \A z \in DOMAIN g : z # old => f[z] = g[z]
        /\ p = 0 => f = g
    <3>1. p = 0 => f = g
      OBVIOUS
    <3>2. CASE p # 0
      <4>1. f = [x \in DOMAIN g \ {old} |-> g[x]]
        BY <3>2
      <4> HIDE DEF f
      <4> QED
        BY <3>2, <4>1, WithoutFacts
    <3> QED
      BY <3>1, <3>2
  <2> HIDE DEF f
  <2>4. DOMAIN C = DOMAIN f \cup {id} /\ C[id] = q /\ \A z \in DOMAIN f : z # id => C[z] = f[z]
    BY <2>1 DEF With
  <2>5. DOMAIN C = (DOMAIN g \ {old}) \cup {id} /\ C[id] = q
        /\ \A x \in DOMAIN g : x # old /\ x # id => C[x] = g[x]
    BY <2>2, <2>3, <2>4
  <2> QED
    BY <2>5 DEF g
<1>11. /\ t.idx = None => B = b.byIndex
       /\ t.idx # None => /\ DOMAIN B = DOMAIN b.byIndex \cup {t.idx} /\ B[t.idx] = q
                          /\ \A x \in DOMAIN b.byIndex : x # t.idx => B[x] = b.byIndex[x]
  <2>1. t.idx = None => B = b.byIndex
    BY DEF B
  <2>2. CASE t.idx # None
    <3> DEFINE g == b.byIndex
               x == t.idx
    <3>1. B = With(g, x, q)
      BY <2>2 DEF B
    <3> HIDE DEF g, x
    <3>2. DOMAIN B = DOMAIN g \cup {x} /\ B[x] = q /\ \A z \in DOMAIN g : z # x => B[z] = g[z]
      BY <3>1 DEF With
    <3> QED
      BY <2>2, <3>2 DEF g, x
  <2> QED
    BY <2>1, <2>2
<1>12. \A x \in DOMAIN B :
         x \in Nat /\ (B[x] = q \/ (x \in DOMAIN b.byIndex /\ B[x] = b.byIndex[x]))
  <2>1. \A x \in DOMAIN b.byIndex : x \in Nat
    BY DEF Table
  <2> QED
    BY <1>11, <2>1
<1>13. q \in 1 .. Len(O) /\ l <= Len(O) /\ (\A i \in 1 .. Len(O) : i = q \/ i \in 1 .. l)
       /\ (q \in 1 .. l => p # 0) /\ (q \notin 1 .. l => p = 0)
  BY <1>1, <1>3, <1>8
<1>14. (q \in 1 .. l => old = b.order[q]) /\ (q \notin 1 .. l => old \notin DOMAIN b.calls)
  <2>1. p = 0 => old = id
    BY DEF old
  <2>2. p = 0 => id \notin DOMAIN b.calls
    <3>1. NoId \notin DOMAIN b.calls
      BY TableFacts
    <3>2. CASE p = 0 /\ t.id # NoId
      BY <1>2, <3>2
    <3>3. CASE p = 0 /\ t.id = NoId
      <4>1. id = <<"call", q>> /\ q = l + 1 /\ q \in Nat
        BY <1>1, <3>3
      <4>2. \A x \in DOMAIN b.calls : b.calls[x] \in 1 .. l /\ b.order[b.calls[x]] = x
        BY DEF Table
      <4>3. \A i \in 1 .. l : \A j \in Nat : b.order[i] = <<"call", j>> => j = i
        BY DEF Table
      <4> SUFFICES ASSUME id \in DOMAIN b.calls PROVE FALSE
        BY <3>3
      <4>4. b.calls[id] \in 1 .. l /\ b.order[b.calls[id]] = <<"call", q>>
        BY <4>1, <4>2
      <4>5. q = b.calls[id]
        BY <4>1, <4>3, <4>4
      <4>6. l + 1 \in 1 .. l /\ l \in Nat
        BY <1>1, <4>1, <4>4, <4>5
      <4> QED
        BY <4>6
    <3> QED
      BY <3>2, <3>3
  <2>3. p # 0 => old = b.order[q]
    BY DEF old
  <2> QED
    BY <1>13, <2>1, <2>2, <2>3
<1>15. Table(n)
  <2>1. n.started = TRUE
    BY <1>6
  <2>2. /\ n.order \in Seq(CallIds) /\ n.states \in Seq([id : CallIds, index : Nat])
        /\ Len(n.states) = Len(n.order) /\ l <= Len(n.order) /\ q \in 1 .. Len(n.order)
        /\ \A i \in 1 .. Len(n.order) : i = q \/ i \in 1 .. l
        /\ n.order[q] = id /\ n.states[q].id = id /\ n.states[q].index = q
        /\ \A i \in 1 .. l : i # q => n.order[i] = b.order[i] /\ n.states[i] = b.states[i]
    BY <1>6, <1>8, <1>9, <1>13
  <2>3. /\ DOMAIN n.calls = (DOMAIN b.calls \ {old}) \cup {id} /\ n.calls[id] = q
        /\ \A x \in DOMAIN b.calls : x # old /\ x # id => n.calls[x] = b.calls[x]
        /\ \A x \in DOMAIN n.byIndex :
             x \in Nat /\ (n.byIndex[x] = q \/ (x \in DOMAIN b.byIndex /\ n.byIndex[x] = b.byIndex[x]))
    BY <1>6, <1>10, <1>12
  <2> QED
    <3>1. Recorded(b, n, q, id, old)
      BY <1>5, <1>6, <1>14, <2>1, <2>2, <2>3 DEF Recorded
    <3> QED
      BY <3>1, TableStep
<1> QED
  BY <1>6, <1>7, <1>8, <1>11, <1>13, <1>15 DEF Ensured

\* The calls begin in order, call k has position k + 1, and its events the item
\* of this position.
Numbering(b, begun, d) ==
  /\ begun = 0 .. (Len(b.order) - 1)
  /\ \A i \in 1 .. Len(b.order) : b.order[i] \in {<<"up", i - 1>>, <<"call", i>>}
  /\ IF d = "repeated"
     THEN DOMAIN b.byIndex = {} /\ \A i \in 1 .. Len(b.order) : b.order[i] = <<"up", i - 1>>
     ELSE DOMAIN b.byIndex = begun /\ \A k \in begun : b.byIndex[k] = k + 1
ItemOfCall(o, begun) ==
  \A i \in DOMAIN o : o[i].call # None => o[i].call \in begun /\ o[i].b = o[i].call + 1
BridgeCalls(b, o, begun, d) == Numbering(b, begun, d) /\ ItemOfCall(o, begun)

LEMMA ItemAppend ==
  ASSUME NEW o \in Seq(Events), NEW begun, ItemOfCall(o, begun), NEW more, begun \subseteq more,
         NEW v \in Events, v.call # None => v.call \in more /\ v.b = v.call + 1
  PROVE  ItemOfCall(Append(o, v), more)
BY AppendFacts DEF ItemOfCall

LEMMA BridgeMarked ==
  ASSUME NEW b, NEW o, BridgeOK(b, o), NEW e \in BridgeMarks
  PROVE  /\ BridgeOK(b, Append(o, Mark(e))) /\ Mark(e) \in Events
         /\ \A begun, d : BridgeCalls(b, o, begun, d) => BridgeCalls(b, Append(o, Mark(e)), begun, d)
<1>1. Log(Append(o, Mark(e)), Items(b), {}, BridgeMarks) /\ Mark(e) \in Events
  BY LogMark DEF BridgeOK
<1>2. o \in Seq(Events) /\ Mark(e).call = None
  BY DEF BridgeOK, Log, Mark, Event
<1> QED
  BY <1>1, <1>2, ItemAppend DEF BridgeOK, BridgeCalls

LEMMA EnsureInitialized ==
  ASSUME NEW b, NEW o, BridgeOK(b, o), NEW e, e = ensureInitialized([b |-> b, o |-> o])
  PROVE  /\ BridgeOK(e.b, e.o) /\ e.b.started /\ e = [b |-> e.b, o |-> e.o]
         /\ e.b.order = b.order
         /\ \A begun, d : BridgeCalls(b, o, begun, d) => BridgeCalls(e.b, e.o, begun, d)
<1>1. Table(b) /\ Log(o, Items(b), {}, BridgeMarks) /\ o \in Seq(Events) /\ DOMAIN b = BridgeRecord
  BY DEF BridgeOK, Log, Table
<1>2. CASE b.started
  <2>1. e = [b |-> b, o |-> o]
    BY <1>2 DEF ensureInitialized
  <2> QED
    BY <1>2, <2>1
<1>3. CASE ~b.started
  <2> DEFINE n == [b EXCEPT !.started = TRUE]
             u == Mark("created")
             v == Event("open", 0, None)
  <2>1. e = [b |-> n, o |-> o \o <<u, v>>]
    BY <1>3 DEF ensureInitialized
  <2>2. /\ DOMAIN n = BridgeRecord /\ n.started /\ n.started \in BOOLEAN /\ n.order = b.order
        /\ n.calls = b.calls /\ n.byIndex = b.byIndex /\ n.states = b.states
    BY <1>1 DEF BridgeRecord
  <2> HIDE DEF n
  <2>3. Table(n)
    BY <1>1, <2>2 DEF Table
  <2>4. b.order = <<>> /\ Len(b.order) = 0
    BY <1>1, <1>3 DEF Table
  <2>5. Items(b) = {} /\ Items(n) = Items(b) \cup {0}
    BY <1>3, <2>2, <2>4 DEF Items
  <2>6. Log(Append(o, u), Items(b), {}, BridgeMarks) /\ u \in Events
    <3>1. "created" \in BridgeMarks
      BY DEF BridgeMarks
    <3> QED
      BY <1>1, <3>1, LogMark
  <2>7. Log(Append(Append(o, u), v), Items(n), {}, BridgeMarks) /\ v \in Events
    <3>1. 0 \in Nat \ Items(b)
      BY <2>5
    <3> QED
      BY <2>5, <2>6, <3>1, NoneFacts, LogOpen
  <2>8. u.call = None /\ v.call = None
    BY DEF Mark, Event
  <2> HIDE DEF u, v
  <2>9. o \o <<u, v>> = Append(Append(o, u), v) /\ Append(o, u) \in Seq(Events)
    BY <1>1, <2>6, <2>7, AppendTwo, AppendFacts
  <2>10. e.b = n /\ e.o = Append(Append(o, u), v) /\ e = [b |-> e.b, o |-> e.o]
    BY <2>1, <2>9
  <2>11. BridgeOK(n, Append(Append(o, u), v))
    BY <2>3, <2>7 DEF BridgeOK
  <2>12. ASSUME NEW begun, NEW d, BridgeCalls(b, o, begun, d)
         PROVE  BridgeCalls(n, Append(Append(o, u), v), begun, d)
    <3>1. Numbering(n, begun, d)
      BY <2>2, <2>12 DEF BridgeCalls, Numbering
    <3>2. ItemOfCall(Append(o, u), begun)
      BY <1>1, <2>6, <2>8, <2>12, ItemAppend DEF BridgeCalls
    <3>3. ItemOfCall(Append(Append(o, u), v), begun)
      BY <2>7, <2>8, <2>9, <3>2, ItemAppend
    <3> QED
      BY <3>1, <3>3 DEF BridgeCalls
  <2> QED
    BY <2>2, <2>10, <2>11, <2>12
<1> QED
  BY <1>2, <1>3

LEMMA FindAgain ==
  ASSUME NEW n, Table(n), NEW t, t.id \in UpIds \cup {NoId}, t.id # NoId \/ t.idx # None,
         NEW q \in 1 .. Len(n.order), t.id # NoId => n.order[q] = t.id,
         t.idx # None => t.idx \in DOMAIN n.byIndex /\ n.byIndex[t.idx] = q
  PROVE  FindCall(n, t) = q /\ n.states[q].index = q
<1>1. n.states[q].index = q /\ n.order[q] \in DOMAIN n.calls /\ n.calls[n.order[q]] = q
  BY DEF Table
<1>2. CASE t.id # NoId
  BY <1>1, <1>2 DEF FindCall
<1>3. CASE t.id = NoId
  <2>1. t.id \notin DOMAIN n.calls
    BY <1>3, TableFacts
  <2> QED
    BY <1>1, <1>3, <2>1 DEF FindCall
<1> QED
  BY <1>2, <1>3

\* A delta of a call: its item is started if it is new.
LEMMA HandleCall ==
  ASSUME NEW b, NEW o, BridgeOK(b, o), b.started, NEW t, t.call \in Calls, t.args \in BOOLEAN,
         t.id \in UpIds \cup {NoId}, t.idx \in Nat \/ t.idx = None, t.id # NoId \/ t.idx # None,
         NEW r, r = handleToolCalls([b |-> b, o |-> o], t), NEW p, NEW q, NEW id, Placed(b, t, p, q, id)
  PROVE  /\ BridgeOK(r.b, r.o)
         /\ \E e : r.b = e.b /\ Ensured(b, o, t, e, p, q, id)
         /\ \A begun : ItemOfCall(o, begun) /\ q = t.call + 1 => ItemOfCall(r.o, begun \cup {t.call})
<1>0. /\ p = FindCall(b, t) /\ q = (IF p = 0 THEN Len(b.order) + 1 ELSE p)
      /\ id = (IF t.id # NoId THEN t.id ELSE IF p = 0 THEN <<"call", q>> ELSE b.order[q])
  BY DEF Placed
<1> USE <1>0
<1> DEFINE e == ensureToolCallState([b |-> b, o |-> o], t)
           u == Event("open", q, t.call)
           a == Mark("action")
           v == Event("delta", q, t.call)
           x == IF p = 0 THEN Append(o, u) ELSE o
           y == Append(x, a)
           z == IF t.args THEN Append(Append(y, v), a) ELSE y
<1>1. /\ Table(b) /\ Log(o, Items(b), {}, BridgeMarks) /\ o \in Seq(Events)
      /\ Items(b) = 0 .. Len(b.order) /\ Len(b.order) \in Nat
  BY TableFacts DEF BridgeOK, Log, Items
<1>2. /\ Table(e.b) /\ e.b.started /\ q \in 1 .. Len(e.b.order)
      /\ Len(e.b.order) = IF p = 0 THEN Len(b.order) + 1 ELSE Len(b.order)
      /\ e.b.order[q] = id
      /\ t.idx # None => t.idx \in DOMAIN e.b.byIndex /\ e.b.byIndex[t.idx] = q
      /\ e.o = o \o (IF p = 0 THEN <<u>> ELSE <<>>) \o <<a>>
      /\ e = [b |-> e.b, o |-> e.o] /\ Ensured(b, o, t, e, p, q, id)
  <2> HIDE DEF e
  <2>1. e = ensureToolCallState([b |-> b, o |-> o], t)
    BY DEF e
  <2>2. Ensured(b, o, t, e, p, q, id)
    BY <1>1, <2>1, EnsureTable
  <2> QED
    BY <2>2 DEF Ensured
<1> HIDE DEF e
<1>3. FindCall(e.b, t) = q /\ e.b.states[q].index = q
  <2>1. Table(e.b) /\ q \in 1 .. Len(e.b.order) /\ (t.id # NoId => e.b.order[q] = t.id)
    BY <1>2
  <2>2. t.idx # None => t.idx \in DOMAIN e.b.byIndex /\ e.b.byIndex[t.idx] = q
    BY <1>2
  <2> QED
    BY <2>1, <2>2, FindAgain
<1>4. q \in Nat /\ q \in Nat \cup {None} /\ t.call \in Calls \cup {None} /\ (p = 0 => q \in Nat \ Items(b))
  BY <1>1, <1>2
<1>5. Items(e.b) = IF p = 0 THEN Items(b) \cup {q} ELSE Items(b)
  <2>1. Items(e.b) = 0 .. Len(e.b.order)
    BY <1>2 DEF Items
  <2>2. CASE p = 0
    <3>1. Len(e.b.order) = Len(b.order) + 1 /\ q = Len(b.order) + 1
      BY <1>2, <2>2
    <3>2. 0 .. (Len(b.order) + 1) = (0 .. Len(b.order)) \cup {Len(b.order) + 1}
      BY <1>1
    <3> QED
      BY <1>1, <2>1, <2>2, <3>1, <3>2
  <2>3. CASE p # 0
    BY <1>1, <1>2, <2>1, <2>3
  <2> QED
    BY <2>2, <2>3
<1>6. "action" \in BridgeMarks
  BY DEF BridgeMarks
<1>7. Log(x, Items(e.b), {}, BridgeMarks) /\ (p = 0 => u \in Events)
  <2>1. CASE p = 0
    <3>1. Log(Append(o, u), Items(b) \cup {q}, {}, BridgeMarks) /\ u \in Events
      BY <1>1, <1>4, <2>1, LogOpen
    <3> QED
      BY <1>5, <2>1, <3>1
  <2>2. CASE p # 0
    BY <1>1, <1>5, <2>2
  <2> QED
    BY <2>1, <2>2
<1>8. x \in Seq(Events) /\ a \in Events /\ a.call = None
  <2>1. a \in Events /\ a.call = None
    BY MarkFacts DEF EventNames
  <2> QED
    BY <1>7, <2>1 DEF Log
<1>9. Log(y, Items(e.b), {}, BridgeMarks) /\ y \in Seq(Events)
  <2> HIDE DEF x
  <2>1. Log(y, Items(e.b), {}, BridgeMarks)
    BY <1>6, <1>7, LogMark
  <2> QED
    BY <2>1 DEF Log
<1>10. Log(Append(y, v), Items(e.b), {}, BridgeMarks) /\ v \in Events /\ Append(y, v) \in Seq(Events)
  <2>1. q \in Items(e.b) \ {}
    BY <1>2 DEF Items
  <2> HIDE DEF y
  <2>2. Log(Append(y, v), Items(e.b), {}, BridgeMarks) /\ v \in Events
    BY <1>4, <1>9, <2>1, LogDelta
  <2> QED
    BY <2>2 DEF Log
<1>11. Log(z, Items(e.b), {}, BridgeMarks)
  <2> HIDE DEF y, v
  <2>1. Log(Append(Append(y, v), a), Items(e.b), {}, BridgeMarks)
    BY <1>6, <1>10, LogMark
  <2> QED
    BY <1>9, <2>1
<1>12. e.o = y
  <2> DEFINE w == IF p = 0 THEN <<u>> ELSE <<>>
  <2>1. e.o = (o \o w) \o <<a>>
    BY <1>2
  <2>2. o \o w = x
    <3> HIDE DEF u
    <3> QED
      BY <1>1, <1>7, AppendOne
  <2>3. x \o <<a>> = y
    <3> HIDE DEF x, a
    <3> QED
      BY <1>8, AppendOne
  <2> HIDE DEF w, x, y
  <2> QED
    BY <2>1, <2>2, <2>3
<1>13. r.b = e.b /\ r.o = z
  <2>1. r = IF ~t.args THEN e ELSE [e EXCEPT !.o = @ \o <<Event("delta", e.b.states[FindCall(e.b, t)].index, t.call), a>>]
    BY DEF handleToolCalls, e
  <2>2. r = IF ~t.args THEN e ELSE [e EXCEPT !.o = e.o \o <<v, a>>]
    BY <1>3, <2>1
  <2> HIDE DEF v, a, y
  <2>3. e.o \o <<v, a>> = Append(Append(y, v), a)
    BY <1>8, <1>9, <1>10, <1>12, AppendTwo
  <2>4. DOMAIN e = {"b", "o"}
    BY <1>2
  <2> QED
    BY <1>12, <2>2, <2>3, <2>4
<1>14. BridgeOK(e.b, z)
  BY <1>2, <1>11 DEF BridgeOK
<1>15. ASSUME NEW begun, ItemOfCall(o, begun), q = t.call + 1
       PROVE  ItemOfCall(z, begun \cup {t.call})
  <2> DEFINE more == begun \cup {t.call}
  <2>1. u.call = t.call /\ u.b = q /\ v.call = t.call /\ v.b = q
    BY DEF Event
  <2> HIDE DEF u, v, a
  <2>2. ItemOfCall(x, more)
    <3>1. CASE p = 0
      <4>1. ItemOfCall(Append(o, u), more)
        BY <1>1, <1>7, <1>15, <2>1, <3>1, ItemAppend
      <4> QED
        BY <3>1, <4>1
    <3>2. CASE p # 0
      BY <1>15, <3>2 DEF ItemOfCall
    <3> QED
      BY <3>1, <3>2
  <2> HIDE DEF x, more
  <2>3. ItemOfCall(y, more)
    BY <1>8, <2>2, ItemAppend
  <2> HIDE DEF y
  <2>4. ItemOfCall(Append(y, v), more)
    <3>1. t.call \in more
      BY DEF more
    <3> QED
      BY <1>9, <1>10, <1>15, <2>1, <2>3, <3>1, ItemAppend
  <2>5. ItemOfCall(Append(Append(y, v), a), more)
    BY <1>8, <1>10, <2>4, ItemAppend
  <2> QED
    BY <2>3, <2>5 DEF more
<1> QED
  BY <1>2, <1>13, <1>14, <1>15

LEMMA CallPosition ==
  ASSUME NEW b, Table(b), NEW begun, NEW d, Numbering(b, begun, d), NEW t, t.call \in Nat,
         t.call \in begun \/ t.call = Len(b.order),
         t.idx = IF d = "repeated" THEN None ELSE t.call,
         t.id = NoId \/ t.id = <<"up", t.call>>, d = "repeated" => t.id = <<"up", t.call>>
  PROVE  FindCall(b, t) = IF t.call \in begun THEN t.call + 1 ELSE 0
<1> DEFINE k == t.call
           l == Len(b.order)
<1>1. /\ l \in Nat /\ begun = 0 .. (l - 1) /\ NoId \notin DOMAIN b.calls
      /\ \A i \in 1 .. l : b.order[i] \in DOMAIN b.calls /\ b.calls[b.order[i]] = i
      /\ \A x \in DOMAIN b.calls : b.calls[x] \in 1 .. l /\ b.order[b.calls[x]] = x
      /\ \A i \in 1 .. l : b.order[i] = <<"up", i - 1>> \/ b.order[i] = <<"call", i>>
  BY TableFacts DEF Table, Numbering
<1>2. CASE t.id \in DOMAIN b.calls
  <2> DEFINE i == b.calls[t.id]
  <2>1. t.id = <<"up", k>> /\ i \in 1 .. l /\ b.order[i] = <<"up", k>>
    BY <1>1, <1>2
  <2>2. FindCall(b, t) = i
    BY <1>2 DEF FindCall
  <2> HIDE DEF i
  <2>3. i - 1 = k
    <3>1. <<"up", k>> = <<"up", i - 1>> \/ <<"up", k>> = <<"call", i>>
      BY <1>1, <2>1
    <3> QED
      BY <3>1
  <2> QED
    BY <1>1, <2>1, <2>2, <2>3
<1>3. CASE t.id \notin DOMAIN b.calls
  <2>1. CASE d = "repeated"
    <3>1. t.id = <<"up", k>> /\ t.idx = None /\ DOMAIN b.byIndex = {}
      BY <2>1 DEF Numbering
    <3>2. k \notin begun
      <4> SUFFICES ASSUME k \in begun PROVE FALSE
        OBVIOUS
      <4>1. k + 1 \in 1 .. l /\ (k + 1) - 1 = k
        BY <1>1
      <4>2. b.order[k + 1] = <<"up", (k + 1) - 1>>
        BY <2>1, <4>1 DEF Numbering
      <4>3. b.order[k + 1] = t.id
        BY <3>1, <4>1, <4>2
      <4>4. b.order[k + 1] \in DOMAIN b.calls
        BY <1>1, <4>1
      <4> QED
        BY <1>3, <4>3, <4>4
    <3>3. ~(t.idx >= 0)
      BY <3>1 DEF None
    <3>4. t.idx \notin DOMAIN b.byIndex
      BY <3>1
    <3> QED
      BY <1>3, <3>2, <3>3, <3>4 DEF FindCall
  <2>2. CASE d # "repeated"
    <3>1. t.idx = k /\ DOMAIN b.byIndex = begun /\ \A x \in begun : b.byIndex[x] = x + 1
      BY <2>2 DEF Numbering
    <3>2. CASE k \in begun
      BY <1>3, <3>1, <3>2 DEF FindCall
    <3>3. CASE k \notin begun
      <4>1. ~(t.idx < l)
        BY <1>1, <3>1, <3>3
      <4> QED
        BY <1>3, <3>1, <3>3, <4>1 DEF FindCall
    <3> QED
      BY <3>2, <3>3
  <2> QED
    BY <2>1, <2>2
<1> QED
  BY <1>2, <1>3

LEMMA CallNumbered ==
  ASSUME NEW b, NEW o, Table(b), NEW begun, NEW d, Numbering(b, begun, d), NEW t, t.call \in Nat,
         t.call \in begun \/ t.call = Len(b.order),
         t.idx = IF d = "repeated" THEN None ELSE t.call,
         t.id = NoId \/ t.id = <<"up", t.call>>, d = "repeated" => t.id = <<"up", t.call>>,
         NEW p, NEW q, NEW id, Placed(b, t, p, q, id), NEW e, Ensured(b, o, t, e, p, q, id)
  PROVE  q = t.call + 1 /\ Numbering(e.b, begun \cup {t.call}, d)
<1>0. /\ p = FindCall(b, t) /\ q = (IF p = 0 THEN Len(b.order) + 1 ELSE p)
      /\ id = (IF t.id # NoId THEN t.id ELSE IF p = 0 THEN <<"call", q>> ELSE b.order[q])
  BY DEF Placed
<1> USE <1>0
<1> DEFINE k == t.call
           l == Len(b.order)
           m == Len(e.b.order)
<1>1. /\ l \in Nat /\ begun = 0 .. (l - 1)
      /\ \A i \in 1 .. l : b.order[i] \in {<<"up", i - 1>>, <<"call", i>>}
  BY TableFacts DEF Numbering
<1>2. p = IF k \in begun THEN k + 1 ELSE 0
  BY CallPosition
<1>3. q = k + 1
  BY <1>1, <1>2
<1>4. /\ q \in 1 .. m /\ m = (IF p = 0 THEN l + 1 ELSE l) /\ e.b.order[q] = id
      /\ \A i \in 1 .. l : i # q => e.b.order[i] = b.order[i]
      /\ t.idx = None => e.b.byIndex = b.byIndex
      /\ t.idx # None => /\ DOMAIN e.b.byIndex = DOMAIN b.byIndex \cup {t.idx}
                         /\ e.b.byIndex[t.idx] = q
                         /\ \A x \in DOMAIN b.byIndex : x # t.idx => e.b.byIndex[x] = b.byIndex[x]
  BY DEF Ensured
<1>5. begun \cup {k} = 0 .. (m - 1)
  BY <1>1, <1>2, <1>4
<1>6. \A i \in 1 .. m : i = q \/ i \in 1 .. l
  BY <1>1, <1>2, <1>3, <1>4
<1>7. id \in {<<"up", q - 1>>, <<"call", q>>} /\ (d = "repeated" => id = <<"up", q - 1>>)
  <2>1. q - 1 = k /\ (p # 0 => q \in 1 .. l)
    BY <1>1, <1>2, <1>3
  <2>2. CASE t.id # NoId
    BY <2>1, <2>2
  <2>3. CASE t.id = NoId
    <3>1. d # "repeated"
      BY <2>3 DEF NoId
    <3> QED
      BY <1>1, <2>1, <2>3, <3>1
  <2> QED
    BY <2>2, <2>3
<1>8. \A i \in 1 .. m : e.b.order[i] \in {<<"up", i - 1>>, <<"call", i>>}
  BY <1>1, <1>4, <1>6, <1>7
<1>9. CASE d = "repeated"
  <2>1. DOMAIN e.b.byIndex = {}
    BY <1>4, <1>9 DEF Numbering
  <2>2. \A i \in 1 .. l : b.order[i] = <<"up", i - 1>>
    BY <1>9 DEF Numbering
  <2>3. \A i \in 1 .. m : e.b.order[i] = <<"up", i - 1>>
    BY <1>4, <1>6, <1>7, <1>9, <2>2
  <2> QED
    BY <1>3, <1>5, <1>8, <1>9, <2>1, <2>3 DEF Numbering
<1>10. CASE d # "repeated"
  <2>1. DOMAIN b.byIndex = begun /\ (\A x \in begun : b.byIndex[x] = x + 1) /\ t.idx = k
    BY <1>10 DEF Numbering
  <2>2. t.idx # None
    BY <2>1, NoneFacts
  <2>3. DOMAIN e.b.byIndex = begun \cup {k} /\ \A x \in begun \cup {k} : e.b.byIndex[x] = x + 1
    BY <1>3, <1>4, <2>1, <2>2
  <2> QED
    BY <1>3, <1>5, <1>8, <1>10, <2>3 DEF Numbering
<1> QED
  BY <1>9, <1>10

\* The Cardinality of the ids: as many as the calls.
LEMMA TableCallTable ==
  ASSUME NEW b, Table(b)
  PROVE  /\ \A i \in DOMAIN b.order : b.order[i] \in DOMAIN b.calls /\ b.calls[b.order[i]] = i
         /\ Cardinality(DOMAIN b.calls) = Len(b.order)
<1> DEFINE l == Len(b.order)
           f == [i \in 1 .. l |-> b.order[i]]
<1>1. /\ l \in Nat /\ DOMAIN b.order = 1 .. l
      /\ \A i \in 1 .. l : b.order[i] \in DOMAIN b.calls /\ b.calls[b.order[i]] = i
      /\ \A x \in DOMAIN b.calls : b.calls[x] \in 1 .. l /\ b.order[b.calls[x]] = x
  BY TableFacts DEF Table
<1>2. f \in [1 .. l -> DOMAIN b.calls]
  BY <1>1
<1>3. f \in Bijection(1 .. l, DOMAIN b.calls)
  <2>1. f \in Injection(1 .. l, DOMAIN b.calls)
    BY <1>1, <1>2 DEF Injection, IsInjective
  <2>2. f \in Surjection(1 .. l, DOMAIN b.calls)
    BY <1>1, <1>2 DEF Surjection
  <2> QED
    BY <2>1, <2>2 DEF Bijection
<1>4. IsFiniteSet(1 .. l) /\ Cardinality(1 .. l) = l
  BY <1>1, FS_Interval
<1>5. ExistsBijection(1 .. l, DOMAIN b.calls)
  BY <1>3 DEF ExistsBijection
<1>6. Cardinality(DOMAIN b.calls) = Cardinality(1 .. l)
  BY <1>4, <1>5, FS_Bijection
<1> QED
  BY <1>1, <1>4, <1>6

----------------------------------------------------------------------------
\* The ends of streams.  What is true of every one of them:
Clean(o) == BracketedOf(o) /\ EndsOnce(o) /\ FinalsOf(o) = {} /\ o \in Seq(Events)
CallsApart(o) ==
  \A i, j \in DOMAIN o : o[i].call # None /\ o[j].call # None =>
    (o[i].call = o[j].call <=> o[i].b = o[j].b)
EndMarks == {"stop", "done", "final", "final_usage"}

LEMMA CleanLog ==
  ASSUME NEW o, NEW S, NEW C, NEW M, Log(o, S, C, M), M \cap EndMarks = {},
         C = S \/ "completed" \notin M
  PROVE  Clean(o) /\ ~SentIn(o, "stop") /\ ~SentIn(o, "done")
<1>1. "raw" \in EventNames
  BY DEF EventNames
<1>2. Mark("raw") \in Events
  BY <1>1, MarkFacts
<1>3. EndsOnce(o) /\ ~SentIn(o, "stop") /\ ~SentIn(o, "done")
  BY <1>2, LogEndsOnce DEF EndMarks
<1>4. FinalsOf(o) = {}
  BY LogNoFinals DEF EndMarks
<1>5. BracketedOf(o)
  BY LogBracketed DEF EndMarks
<1> QED
  BY <1>3, <1>4, <1>5 DEF Clean, Log

LEMMA CleanEnd ==
  ASSUME NEW o, NEW S, NEW C, NEW M, Log(o, S, C, M), M \cap EndMarks = {}, NEW e \in {"stop", "done"},
         C = S \/ ("completed" \notin M /\ e = "done")
  PROVE  /\ Clean(Append(o, Mark(e))) /\ SentIn(Append(o, Mark(e)), e) /\ Mark(e) \in Events
         /\ o \in Seq(Events)
<1> DEFINE N == M \cup {e}
<1>1. M \subseteq EventNames \ BlockNames /\ o \in Seq(Events)
  BY DEF Log
<1>2. N \subseteq EventNames \ BlockNames
  BY <1>1 DEF EventNames, BlockNames
<1>3. Log(o, S, C, N)
  BY <1>2, LogMarks
<1>4. Log(Append(o, Mark(e)), S, C, N) /\ Mark(e) \in Events
  BY <1>3, LogMark
<1>5. EndsOnce(Append(o, Mark(e)))
  BY <1>4, LogEndsOnce DEF EndMarks
<1>6. FinalsOf(Append(o, Mark(e))) = {}
  BY <1>4, LogNoFinals DEF EndMarks
<1>7. BracketedOf(Append(o, Mark(e)))
  BY <1>4, LogBracketed DEF EndMarks
<1>8. SentIn(Append(o, Mark(e)), e)
  <2>1. Mark(e).e = e
    BY DEF Mark, Event
  <2> QED
    BY <1>1, <1>4, <2>1, AppendSent
<1> QED
  BY <1>1, <1>4, <1>5, <1>6, <1>7, <1>8 DEF Clean, Log

\* An error and [DONE].
LEMMA CleanError ==
  ASSUME NEW o, NEW S, NEW C, NEW M, Log(o, S, C, M), M \cap EndMarks = {}, "completed" \notin M
  PROVE  /\ Clean(o \o <<Mark("error"), Mark("done")>>)
         /\ SentIn(o \o <<Mark("error"), Mark("done")>>, "error")
         /\ o \o <<Mark("error"), Mark("done")>> = Append(Append(o, Mark("error")), Mark("done"))
         /\ Log(Append(o, Mark("error")), S, C, M \cup {"error"})
<1> DEFINE N == M \cup {"error"}
           u == Mark("error")
           v == Mark("done")
<1>1. M \subseteq EventNames \ BlockNames /\ o \in Seq(Events)
  BY DEF Log
<1>2. N \subseteq EventNames \ BlockNames
  BY <1>1 DEF EventNames, BlockNames
<1>3. Log(o, S, C, N)
  BY <1>2, LogMarks
<1>4. Log(Append(o, u), S, C, N) /\ u \in Events
  BY <1>3, LogMark
<1>5. Clean(Append(Append(o, u), v)) /\ v \in Events /\ Append(o, u) \in Seq(Events)
  <2>1. N \cap EndMarks = {} /\ "completed" \notin N
    BY DEF EndMarks
  <2> QED
    BY <1>4, <2>1, CleanEnd
<1>6. u.e = "error"
  BY DEF Mark, Event
<1>7. SentIn(Append(Append(o, u), v), "error")
  BY <1>1, <1>4, <1>5, <1>6, AppendSent
<1>8. o \o <<u, v>> = Append(Append(o, u), v)
  BY <1>1, <1>4, <1>5, AppendTwo
<1> QED
  BY <1>4, <1>5, <1>7, <1>8

LEMMA ClaudeApart ==
  ASSUME NEW c, NEW o, ClaudeCalls(c, o), \A x, y \in DOMAIN c.tools : c.tools[x] = c.tools[y] => x = y
  PROVE  CallsApart(o)
<1> SUFFICES ASSUME NEW i \in DOMAIN o, NEW j \in DOMAIN o, o[i].call # None, o[j].call # None
             PROVE  o[i].call = o[j].call <=> o[i].b = o[j].b
  BY DEF CallsApart
<1>1. /\ <<"up", o[i].call>> \in DOMAIN c.tools /\ o[i].b = c.tools[<<"up", o[i].call>>]
      /\ <<"up", o[j].call>> \in DOMAIN c.tools /\ o[j].b = c.tools[<<"up", o[j].call>>]
  BY DEF ClaudeCalls
<1>2. o[i].b = o[j].b => <<"up", o[i].call>> = <<"up", o[j].call>>
  BY <1>1
<1> QED
  BY <1>1, <1>2

LEMMA BridgeApart ==
  ASSUME NEW o, NEW begun, begun \subseteq Nat, ItemOfCall(o, begun)
  PROVE  CallsApart(o)
<1> SUFFICES ASSUME NEW i \in DOMAIN o, NEW j \in DOMAIN o, o[i].call # None, o[j].call # None
             PROVE  o[i].call = o[j].call <=> o[i].b = o[j].b
  BY DEF CallsApart
<1>1. /\ o[i].call \in Nat /\ o[i].b = o[i].call + 1
      /\ o[j].call \in Nat /\ o[j].b = o[j].call + 1
  BY DEF ItemOfCall
<1> QED
  BY <1>1

\* Events of no call leave the calls as they are.
LEMMA ApartConcat ==
  ASSUME NEW o \in Seq(Events), NEW z \in Seq(Events), \A i \in DOMAIN z : z[i].call = None, CallsApart(o)
  PROVE  CallsApart(o \o z)
<1> DEFINE n == o \o z
<1>1. \A i \in DOMAIN n : n[i].call # None => i \in DOMAIN o /\ n[i] = o[i]
  BY ConcatFacts
<1> HIDE DEF n
<1>2. CallsApart(n)
  BY <1>1 DEF CallsApart
<1> QED
  BY <1>2 DEF n

LEMMA ApartAppend ==
  ASSUME NEW o \in Seq(Events), NEW v \in Events, v.call = None, CallsApart(o)
  PROVE  CallsApart(Append(o, v))
<1> DEFINE n == Append(o, v)
<1>1. \A i \in DOMAIN n : n[i].call # None => i \in DOMAIN o /\ n[i] = o[i]
  BY AppendFacts
<1> HIDE DEF n
<1>2. CallsApart(n)
  BY <1>1 DEF CallsApart
<1> QED
  BY <1>2 DEF n

LEMMA MessageStopOK ==
  ASSUME ClaudeOK(cl, out), NEW done \in BOOLEAN
  PROVE  /\ Clean(MessageStop(done))
         /\ done \/ (~SentIn(MessageStop(done), "stop") /\ ~SentIn(MessageStop(done), "done"))
         /\ CallsApart(out) => CallsApart(MessageStop(done))
<1> DEFINE S == BlocksOf(cl)
           z == CloseAll(S)
           p == out \o z
           y == IF done THEN <<Mark("stop")>> ELSE <<>>
<1>1. /\ Log(out, S, {}, ClaudeMarks) /\ S \subseteq 0 .. (cl.next - 1) /\ cl.next \in Nat
      /\ out \in Seq(Events)
  BY DEF ClaudeOK, Log
<1>2. IsFiniteSet(S) /\ S \subseteq Nat
  <2>1. IsFiniteSet(0 .. (cl.next - 1))
    BY <1>1, FS_Interval
  <2> QED
    BY <1>1, <2>1, FS_Subset
<1>3. Closes(z, S)
  BY <1>2, CloseAllCloses
<1>4. MessageStop(done) = p \o y
  BY DEF MessageStop, OpenBlocks, BlocksOf
<1> HIDE DEF S, z
<1>5. Log(p, S, S, ClaudeMarks)
  <2>1. S \subseteq S \ {} /\ {} \cup S = S
    OBVIOUS
  <2> QED
    BY <1>1, <1>3, <2>1, LogCloses
<1>6. p \in Seq(Events) /\ z \in Seq(Events) /\ \A i \in DOMAIN z : z[i].call = None
  BY <1>3, <1>5 DEF Log, Closes
<1>7. CallsApart(out) => CallsApart(p)
  BY <1>1, <1>6, ApartConcat
<1> HIDE DEF p
<1>8. ClaudeMarks \cap EndMarks = {}
  BY DEF ClaudeMarks, EndMarks
<1>9. Mark("stop") \in Events /\ Mark("stop").call = None
  BY MarkFacts DEF EventNames
<1>10. CASE done
  <2>1. MessageStop(done) = Append(p, Mark("stop"))
    BY <1>4, <1>6, <1>9, <1>10, AppendOne
  <2>2. Clean(Append(p, Mark("stop")))
    BY <1>5, <1>8, CleanEnd
  <2> QED
    BY <1>6, <1>7, <1>9, <1>10, <2>1, <2>2, ApartAppend
<1>11. CASE ~done
  <2>1. MessageStop(done) = p
    BY <1>4, <1>6, <1>9, <1>11, AppendOne
  <2> QED
    BY <1>5, <1>7, <1>8, <2>1, CleanLog
<1> QED
  BY <1>10, <1>11

LEMMA HandleDoneOK ==
  ASSUME BridgeOK(br, out)
  PROVE  /\ Clean(HandleDone)
         /\ \A begun : begun \subseteq Nat /\ ItemOfCall(out, begun) => CallsApart(HandleDone)
<1> DEFINE s == ensureInitialized(Bridge)
           n == s.b
           o == s.o
           l == Len(n.order)
           c == Event("close", 0, None)
           z == [i \in 1 .. l |-> Event("close", n.states[n.calls[n.order[i]]].index, None)]
           y == IF n.order = <<>> THEN <<>> ELSE <<Mark("action")>>
           u == Mark("completed")
           v == Mark("done")
           M == BridgeMarks \cup {"completed"}
           o1 == Append(o, c)
           o2 == o1 \o z
           o3 == o2 \o y
<1>1. HandleDone = (((o \o <<c>>) \o z) \o y) \o <<u, v>>
  BY DEF HandleDone
<1>2. /\ BridgeOK(n, o) /\ n.started
      /\ \A begun, d : BridgeCalls(br, out, begun, d) => BridgeCalls(n, o, begun, d)
  BY EnsureInitialized DEF Bridge
<1>3. ASSUME NEW begun, begun \subseteq Nat, ItemOfCall(out, begun) PROVE CallsApart(o)
  <2>1. CallsApart(out)
    BY <1>3, BridgeApart
  <2>2. out \in Seq(Events)
    BY DEF BridgeOK, Log
  <2>3. CASE br.started
    <3>1. s = [b |-> br, o |-> out]
      BY <2>3 DEF ensureInitialized, Bridge
    <3> QED
      BY <2>1, <3>1
  <2>4. CASE ~br.started
    <3>1. o = out \o <<Mark("created"), Event("open", 0, None)>>
      BY <2>4 DEF ensureInitialized, Bridge
    <3> DEFINE a == Mark("created")
               b == Event("open", 0, None)
    <3>2. a \in Events /\ a.call = None /\ b \in Events /\ b.call = None
      <4>1. "created" \in EventNames /\ "open" \in EventNames /\ 0 \in Nat \cup {None}
        BY DEF EventNames
      <4> QED
        BY <4>1, NoneFacts, MarkFacts, EventFacts
    <3> HIDE DEF a, b
    <3>3. o = Append(Append(out, a), b) /\ Append(out, a) \in Seq(Events)
      BY <2>2, <3>1, <3>2, AppendTwo, AppendFacts DEF a, b
    <3>4. CallsApart(Append(out, a))
      BY <2>1, <2>2, <3>2, ApartAppend
    <3>5. CallsApart(Append(Append(out, a), b))
      BY <3>2, <3>3, <3>4, ApartAppend
    <3> QED
      BY <3>3, <3>5
  <2> QED
    BY <2>3, <2>4
<1> HIDE DEF s
<1>4. /\ Table(n) /\ l \in Nat /\ Log(o, 0 .. l, {}, BridgeMarks) /\ o \in Seq(Events)
  BY <1>2, TableFacts DEF BridgeOK, Items, Log
<1>5. Log(o1, 0 .. l, {0}, BridgeMarks) /\ c \in Events /\ c.call = None
  <2>1. 0 \in (0 .. l) \ {} /\ {} \cup {0} = {0}
    BY <1>4
  <2> DEFINE I == 0 .. l
             E == {}
  <2>2. Log(o1, I, E \cup {0}, BridgeMarks) /\ c \in Events
    <3>1. Log(o, I, E, BridgeMarks) /\ 0 \in I \ E /\ None \in Calls \cup {None}
      BY <1>4, <2>1, NoneFacts
    <3> HIDE DEF I, E, o
    <3> QED
      BY <3>1, LogClose
  <2>3. c.call = None
    BY DEF Event
  <2> HIDE DEF o1, c
  <2> QED
    BY <2>1, <2>2, <2>3
<1>6. \A i \in 1 .. l : n.states[n.calls[n.order[i]]].index = i
  BY <1>4 DEF Table
<1>7. \A i \in 1 .. l : /\ z[i] = Event("close", i, None) /\ z[i] \in Events /\ z[i].e = "close"
                        /\ z[i].b = i /\ z[i].call = None
  <2> SUFFICES ASSUME NEW i \in 1 .. l
               PROVE  /\ z[i] = Event("close", i, None) /\ z[i] \in Events /\ z[i].e = "close"
                      /\ z[i].b = i /\ z[i].call = None
    OBVIOUS
  <2>1. z[i] = Event("close", i, None)
    BY <1>6
  <2>2. i \in Nat \cup {None} /\ "close" \in EventNames
    BY <1>4 DEF EventNames
  <2> HIDE DEF z
  <2> QED
    BY <2>1, <2>2, NoneFacts, EventFacts
<1>8. DOMAIN z = 1 .. l /\ z \in Seq(Events)
  <2>1. DOMAIN z = 1 .. l
    OBVIOUS
  <2>2. z \in [1 .. l -> Events]
    BY <1>7
  <2> QED
    BY <1>4, <2>1, <2>2, SeqDef
<1> HIDE DEF z
<1>9. Closes(z, 1 .. l)
  BY <1>7, <1>8 DEF Closes
<1>10. Log(o2, 0 .. l, 0 .. l, BridgeMarks)
  <2>1. 1 .. l \subseteq (0 .. l) \ {0} /\ {0} \cup 1 .. l = 0 .. l
    BY <1>4
  <2> HIDE DEF o1
  <2>2. Log(o2, 0 .. l, {0} \cup 1 .. l, BridgeMarks)
    BY <1>5, <1>9, <2>1, LogCloses
  <2> QED
    BY <2>1, <2>2
<1>11. Log(o3, 0 .. l, 0 .. l, BridgeMarks) /\ o2 \in Seq(Events) /\ y \in Seq(Events)
       /\ \A i \in DOMAIN y : y[i].call = None
  <2>1. o2 \in Seq(Events)
    BY <1>10 DEF Log
  <2>2. Mark("action") \in Events /\ Mark("action").call = None /\ "action" \in BridgeMarks
    BY MarkFacts DEF EventNames, BridgeMarks
  <2> HIDE DEF o2
  <2>3. CASE n.order = <<>>
    BY <1>10, <2>1, <2>2, <2>3, AppendOne
  <2>4. CASE n.order # <<>>
    <3>1. y = <<Mark("action")>>
      BY <2>4
    <3>2. o3 = Append(o2, Mark("action"))
      BY <2>1, <2>2, <3>1, AppendOne
    <3>3. Log(Append(o2, Mark("action")), 0 .. l, 0 .. l, BridgeMarks)
      BY <1>10, <2>2, LogMark
    <3> DEFINE a == Mark("action")
    <3> HIDE DEF a
    <3>4. y = <<a>> /\ a \in Events /\ a.call = None
      BY <2>2, <3>1 DEF a
    <3>5. y \in Seq(Events) /\ \A i \in DOMAIN y : y[i].call = None
      <4> HIDE DEF y
      <4> QED
        BY <3>4
    <3> HIDE DEF y
    <3> QED
      BY <2>1, <3>2, <3>3, <3>5
  <2> QED
    BY <2>3, <2>4
<1>12. Log(Append(o3, u), 0 .. l, 0 .. l, M) /\ u \in Events /\ u.call = None
  <2>1. BridgeMarks \subseteq M /\ M \subseteq EventNames \ BlockNames /\ "completed" \in M
    BY DEF BridgeMarks, EventNames, BlockNames
  <2> HIDE DEF M, o3
  <2>2. Log(o3, 0 .. l, 0 .. l, M)
    BY <1>11, <2>1, LogMarks
  <2> QED
    BY <2>1, <2>2, LogMark DEF Mark, Event
<1>13. Clean(Append(Append(o3, u), v)) /\ v \in Events /\ v.call = None /\ Append(o3, u) \in Seq(Events)
  <2>1. M \cap EndMarks = {}
    BY DEF BridgeMarks, EndMarks
  <2> HIDE DEF M, o3
  <2> QED
    BY <1>12, <2>1, CleanEnd DEF Mark, Event
<1>14. o3 \in Seq(Events)
  BY <1>11 DEF Log
<1>15. HandleDone = Append(Append(o3, u), v)
  <2>1. o \o <<c>> = o1
    BY <1>4, <1>5, AppendOne
  <2>2. HandleDone = o3 \o <<u, v>>
    BY <1>1, <2>1
  <2> HIDE DEF o3, u, v
  <2> QED
    BY <1>12, <1>13, <1>14, <2>2, AppendTwo
<1>16. ASSUME CallsApart(o) PROVE CallsApart(Append(Append(o3, u), v))
  <2>1. CallsApart(o1) /\ o1 \in Seq(Events)
    BY <1>4, <1>5, <1>16, ApartAppend, AppendFacts
  <2>2. CallsApart(o2)
    <3> HIDE DEF o1
    <3> QED
      BY <1>7, <1>8, <2>1, ApartConcat
  <2>3. CallsApart(o3)
    <3> HIDE DEF o2, y
    <3> QED
      BY <1>11, <2>2, ApartConcat
  <2> HIDE DEF o3, u, v
  <2>4. CallsApart(Append(o3, u))
    BY <1>12, <1>14, <2>3, ApartAppend
  <2> QED
    BY <1>13, <2>4, ApartAppend
<1> QED
  BY <1>3, <1>13, <1>15, <1>16

----------------------------------------------------------------------------
\* A whole message at once.  Two logs of different blocks, one after the other.
LEMMA LogConcat ==
  ASSUME NEW o, NEW S, NEW C, NEW M, Log(o, S, C, M), NEW z, NEW T, NEW D, Log(z, T, D, M),
         S \cap T = {}
  PROVE  Log(o \o z, S \cup T, C \cup D, M)
<1> DEFINE n == o \o z
<1>1. /\ o \in Seq(Events) /\ S \subseteq Nat /\ C \subseteq S /\ M \subseteq EventNames \ BlockNames
      /\ z \in Seq(Events) /\ T \subseteq Nat /\ D \subseteq T
  BY DEF Log
<1>2. /\ n \in Seq(Events) /\ Len(o) \in Nat /\ DOMAIN o = 1 .. Len(o) /\ DOMAIN z = 1 .. Len(z)
      /\ Len(z) \in Nat
      /\ \A i \in DOMAIN o : i \in DOMAIN n /\ n[i] = o[i]
      /\ \A i \in DOMAIN z : Len(o) + i \in DOMAIN n /\ n[Len(o) + i] = z[i]
      /\ \A i \in DOMAIN n :
           \/ i \in DOMAIN o /\ n[i] = o[i]
           \/ \E j \in DOMAIN z : i = Len(o) + j /\ n[i] = z[j]
  BY <1>1, ConcatFacts
<1> HIDE DEF n
<1>3. /\ \A i \in DOMAIN o : o[i].b = None => o[i].e \in M /\ o[i].call = None
      /\ \A i \in DOMAIN o : o[i].b # None => o[i].b \in S /\ o[i].e \in BlockNames
      /\ \A i \in DOMAIN o : o[i].e = "close" => o[i].b \in C
      /\ \A i \in DOMAIN z : z[i].b = None => z[i].e \in M /\ z[i].call = None
      /\ \A i \in DOMAIN z : z[i].b # None => z[i].b \in T /\ z[i].e \in BlockNames
      /\ \A i \in DOMAIN z : z[i].e = "close" => z[i].b \in D
  BY DEF Log
<1>4. /\ \A i \in DOMAIN n : n[i].b = None => n[i].e \in M /\ n[i].call = None
      /\ \A i \in DOMAIN n : n[i].b # None => n[i].b \in S \cup T /\ n[i].e \in BlockNames
      /\ \A i \in DOMAIN n : n[i].e = "close" => n[i].b \in C \cup D
  <2> SUFFICES ASSUME NEW i \in DOMAIN n
               PROVE  /\ n[i].b = None => n[i].e \in M /\ n[i].call = None
                      /\ n[i].b # None => n[i].b \in S \cup T /\ n[i].e \in BlockNames
                      /\ n[i].e = "close" => n[i].b \in C \cup D
    OBVIOUS
  <2>1. CASE i \in DOMAIN o
    <3>1. n[i] = o[i]
      BY <1>2, <2>1
    <3> QED
      BY <1>3, <2>1, <3>1
  <2>2. CASE i \notin DOMAIN o
    <3>1. PICK j \in DOMAIN z : n[i] = z[j]
      BY <1>2, <2>2
    <3> QED
      BY <1>3, <3>1
  <2> QED
    BY <2>1, <2>2
<1>5. ASSUME NEW b \in S \cup T PROVE \E i \in DOMAIN n : n[i].e = "open" /\ n[i].b = b
  <2>1. CASE b \in S
    <3>1. PICK i \in DOMAIN o : o[i].e = "open" /\ o[i].b = b
      BY <2>1 DEF Log
    <3> QED
      BY <1>2, <3>1
  <2>2. CASE b \in T
    <3>1. PICK i \in DOMAIN z : z[i].e = "open" /\ z[i].b = b
      BY <2>2 DEF Log
    <3> QED
      BY <1>2, <3>1
  <2> QED
    BY <2>1, <2>2
<1>6. ASSUME NEW b \in C \cup D PROVE \E i \in DOMAIN n : n[i].e = "close" /\ n[i].b = b
  <2>1. CASE b \in C
    <3>1. PICK i \in DOMAIN o : o[i].e = "close" /\ o[i].b = b
      BY <2>1 DEF Log
    <3> QED
      BY <1>2, <3>1
  <2>2. CASE b \in D
    <3>1. PICK i \in DOMAIN z : z[i].e = "close" /\ z[i].b = b
      BY <2>2 DEF Log
    <3> QED
      BY <1>2, <3>1
  <2> QED
    BY <2>1, <2>2
<1>7. ASSUME NEW i \in DOMAIN n, NEW j \in DOMAIN n, n[i].e \in BlockNames, n[i].b = n[j].b
      PROVE  \/ i \in DOMAIN o /\ j \in DOMAIN o /\ n[i] = o[i] /\ n[j] = o[j]
             \/ \E k \in DOMAIN z, l \in DOMAIN z :
                  i = Len(o) + k /\ j = Len(o) + l /\ n[i] = z[k] /\ n[j] = z[l]
  <2>1. n[i].b # None
    BY <1>1, <1>4, <1>7
  <2>2. \A b \in S : b \notin T
    OBVIOUS
  <2>3. CASE i \in DOMAIN o
    <3>1. n[i] = o[i] /\ o[i].b \in S
      BY <1>2, <1>3, <2>1, <2>3
    <3>2. j \in DOMAIN o
      BY <1>2, <1>3, <1>7, <2>1, <2>2, <3>1
    <3> QED
      BY <1>2, <2>3, <3>1, <3>2
  <2>4. CASE i \notin DOMAIN o
    <3>1. PICK k \in DOMAIN z : i = Len(o) + k /\ n[i] = z[k]
      BY <1>2, <2>4
    <3>2. z[k].b \in T
      BY <1>3, <2>1, <3>1
    <3>3. j \notin DOMAIN o
      BY <1>2, <1>3, <1>7, <2>1, <2>2, <3>1, <3>2
    <3>4. PICK l \in DOMAIN z : j = Len(o) + l /\ n[j] = z[l]
      BY <1>2, <3>3
    <3> QED
      BY <3>1, <3>4
  <2> QED
    BY <2>3, <2>4
<1>8. ASSUME NEW i \in DOMAIN n, NEW j \in DOMAIN n, n[i].e = "open", n[i].b = n[j].b
      PROVE  (n[j].e = "open" => i = j) /\ (n[j].e = "delta" => i < j)
  <2>1. n[i].e \in BlockNames
    BY <1>8 DEF BlockNames
  <2>2. CASE i \in DOMAIN o /\ j \in DOMAIN o /\ n[i] = o[i] /\ n[j] = o[j]
    BY <1>8, <2>2 DEF Log
  <2>3. CASE \E k \in DOMAIN z, l \in DOMAIN z :
               i = Len(o) + k /\ j = Len(o) + l /\ n[i] = z[k] /\ n[j] = z[l]
    <3>1. PICK k \in DOMAIN z, l \in DOMAIN z :
               i = Len(o) + k /\ j = Len(o) + l /\ n[i] = z[k] /\ n[j] = z[l]
      BY <2>3
    <3>2. (z[l].e = "open" => k = l) /\ (z[l].e = "delta" => k < l)
      BY <1>8, <3>1 DEF Log
    <3> QED
      BY <1>2, <3>1, <3>2
  <2> QED
    BY <1>7, <1>8, <2>1, <2>2, <2>3
<1>9. ASSUME NEW i \in DOMAIN n, NEW j \in DOMAIN n, n[i].e = "close", n[i].b = n[j].b
      PROVE  (n[j].e = "close" => i = j) /\ (n[j].e = "delta" => j < i)
  <2>1. n[i].e \in BlockNames
    BY <1>9 DEF BlockNames
  <2>2. CASE i \in DOMAIN o /\ j \in DOMAIN o /\ n[i] = o[i] /\ n[j] = o[j]
    BY <1>9, <2>2 DEF Log
  <2>3. CASE \E k \in DOMAIN z, l \in DOMAIN z :
               i = Len(o) + k /\ j = Len(o) + l /\ n[i] = z[k] /\ n[j] = z[l]
    <3>1. PICK k \in DOMAIN z, l \in DOMAIN z :
               i = Len(o) + k /\ j = Len(o) + l /\ n[i] = z[k] /\ n[j] = z[l]
      BY <2>3
    <3>2. (z[l].e = "close" => k = l) /\ (z[l].e = "delta" => l < k)
      BY <1>9, <3>1 DEF Log
    <3> QED
      BY <1>2, <3>1, <3>2
  <2> QED
    BY <1>7, <1>9, <2>1, <2>2, <2>3
<1>10. S \cup T \subseteq Nat /\ C \cup D \subseteq S \cup T
  BY <1>1
<1>11. Log(n, S \cup T, C \cup D, M)
  BY <1>1, <1>2, <1>4, <1>5, <1>6, <1>8, <1>9, <1>10 DEF Log
<1> QED
  BY <1>11 DEF n

\* What FlattenSeq computes, as an equation that has a solution.
FlattenRule(G, n, g) == g = [i \in 1 .. n |-> IF i = 1 THEN G[i] ELSE g[i - 1] \o G[i]]

LEMMA FlattenDef ==
  ASSUME NEW G, Len(G) # 0
  PROVE  FlattenSeq(G) = (CHOOSE g : FlattenRule(G, Len(G), g))[Len(G)]
  BY DEF FlattenSeq, FlattenRule

LEMMA FlattenExists ==
  ASSUME NEW G, NEW n \in Nat PROVE \E g : FlattenRule(G, n, g)
<1> DEFINE Rule(g, i) == IF i = 1 THEN G[i] ELSE g[i - 1] \o G[i]
           Fits(m) == \E g : g = [i \in 1 .. m |-> Rule(g, i)]
<1>1. Fits(0)
  <2> DEFINE g == [i \in 1 .. 0 |-> 0]
  <2>1. g = [i \in 1 .. 0 |-> Rule(g, i)]
    <3> HIDE DEF Rule
    <3> QED
      OBVIOUS
  <2> QED
    BY <2>1
<1>2. ASSUME NEW m \in Nat, Fits(m) PROVE Fits(m + 1)
  <2>1. PICK g : g = [i \in 1 .. m |-> Rule(g, i)]
    BY <1>2
  <2> DEFINE h == [i \in 1 .. (m + 1) |-> IF i \in 1 .. m THEN g[i] ELSE Rule(g, i)]
  <2>2. ASSUME NEW i \in 1 .. (m + 1) PROVE h[i] = Rule(h, i)
    <3>1. i \in 1 .. m => g[i] = Rule(g, i)
      <4> HIDE DEF Rule
      <4> QED
        BY <2>1
    <3>2. h[i] = Rule(g, i)
      BY <3>1
    <3>3. CASE i = 1
      BY <3>2, <3>3
    <3>4. CASE i # 1
      <4>1. i - 1 \in 1 .. m /\ i - 1 \in 1 .. (m + 1)
        BY <3>4
      <4>2. h[i - 1] = g[i - 1]
        BY <4>1
      <4> HIDE DEF h
      <4> QED
        BY <3>2, <3>4, <4>2
    <3> QED
      BY <3>3, <3>4
  <2>3. h = [i \in 1 .. (m + 1) |-> Rule(h, i)]
    <3> HIDE DEF Rule
    <3> QED
      BY <2>2
  <2> QED
    BY <2>3
<1>3. \A m \in Nat : Fits(m)
  <2> HIDE DEF Fits
  <2> SUFFICES ASSUME {m \in Nat : ~Fits(m)} # {} PROVE FALSE
    OBVIOUS
  <2>1. PICK k \in {m \in Nat : ~Fits(m)} : \A m \in {l \in Nat : ~Fits(l)} : k <= m
    BY NatLeast
  <2>2. k # 0
    BY <1>1, <2>1
  <2>3. k - 1 \in Nat /\ ~(k <= k - 1)
    BY <2>1, <2>2
  <2>4. Fits(k - 1)
    BY <2>1, <2>3
  <2>5. Fits((k - 1) + 1)
    BY <1>2, <2>3, <2>4
  <2>6. (k - 1) + 1 = k
    BY <2>1
  <2> QED
    BY <2>1, <2>5, <2>6
<1> QED
  BY <1>3 DEF FlattenRule

\* The events of call k are of block first + k.
InOrder(o, first) ==
  \A i \in DOMAIN o : o[i].call # None => o[i].call \in Nat /\ o[i].b = first + o[i].call

LEMMA InOrderApart ==
  ASSUME NEW o, NEW first \in Nat, InOrder(o, first) PROVE CallsApart(o)
<1> SUFFICES ASSUME NEW i \in DOMAIN o, NEW j \in DOMAIN o, o[i].call # None, o[j].call # None
             PROVE  o[i].call = o[j].call <=> o[i].b = o[j].b
  BY DEF CallsApart
<1>1. /\ o[i].call \in Nat /\ o[i].b = first + o[i].call
      /\ o[j].call \in Nat /\ o[j].b = first + o[j].call
  BY DEF InOrder
<1> QED
  BY <1>1

LEMMA InOrderConcat ==
  ASSUME NEW o \in Seq(Events), NEW z \in Seq(Events), NEW first, InOrder(o, first), InOrder(z, first)
  PROVE  InOrder(o \o z, first)
BY ConcatFacts DEF InOrder

LEMMA BlockOK ==
  ASSUME NEW b \in Nat, NEW k \in Calls \cup {None}, NEW delta \in BOOLEAN
  PROVE  /\ Log(Block(b, k, delta), {b}, {b}, {})
         /\ \A i \in DOMAIN Block(b, k, delta) : Block(b, k, delta)[i].b = b /\ Block(b, k, delta)[i].call = k
<1> DEFINE M == {}
           u == Event("open", b, k)
           v == Event("delta", b, k)
           w == Event("close", b, k)
           x == Append(<<>>, u)
           y == IF delta THEN Append(x, v) ELSE x
           z == Append(y, w)
<1>1. Log(<<>>, {}, {}, M)
  BY LogEmpty
<1> HIDE DEF M
<1>2. Log(x, {} \cup {b}, {}, M) /\ u \in Events
  <2> DEFINE E == {}
             o == <<>>
  <2>1. Log(o, E, E, M) /\ b \in Nat \ E
    BY <1>1
  <2> HIDE DEF E, o
  <2>2. Log(Append(o, u), E \cup {b}, E, M) /\ u \in Events
    BY <2>1, LogOpen
  <2> QED
    BY <2>2 DEF E, o
<1>3. Log(x, {b}, {}, M)
  <2>1. {} \cup {b} = {b}
    OBVIOUS
  <2> HIDE DEF x
  <2> QED
    BY <1>2, <2>1
<1>4. Log(Append(x, v), {b}, {}, M) /\ v \in Events
  <2> HIDE DEF x
  <2> QED
    BY <1>3, LogDelta
<1>5. Log(y, {b}, {}, M)
  BY <1>3, <1>4
<1>6. Log(z, {b}, {} \cup {b}, M) /\ w \in Events
  <2> HIDE DEF y
  <2> QED
    BY <1>5, LogClose
<1>7. Log(z, {b}, {b}, M)
  <2>1. {} \cup {b} = {b}
    OBVIOUS
  <2> HIDE DEF z
  <2> QED
    BY <1>6, <2>1
<1>8. u.b = b /\ u.call = k /\ v.b = b /\ v.call = k /\ w.b = b /\ w.call = k
  BY DEF Event
<1> HIDE DEF u, v, w
<1>9. x \in Seq(Events) /\ y \in Seq(Events)
  BY <1>3, <1>5 DEF Log
<1>10. Block(b, k, delta) = z
  <2>1. Block(b, k, delta) = (<<u>> \o (IF delta THEN <<v>> ELSE <<>>)) \o <<w>>
    BY DEF Block, u, v, w
  <2>2. <<u>> = x
    BY <1>2
  <2>3. x \o (IF delta THEN <<v>> ELSE <<>>) = y
    <3> HIDE DEF x
    <3> QED
      BY <1>4, <1>9, AppendOne
  <2>4. y \o <<w>> = z
    <3> HIDE DEF y
    <3> QED
      BY <1>6, <1>9, AppendOne
  <2> HIDE DEF x, y, z
  <2> QED
    BY <2>1, <2>2, <2>3, <2>4
<1>11. \A i \in DOMAIN x : x[i] = u
  OBVIOUS
<1>12. \A i \in DOMAIN y : y[i].b = b /\ y[i].call = k
  <2> HIDE DEF x
  <2> QED
    BY <1>4, <1>8, <1>9, <1>11, AppendFacts
<1>13. \A i \in DOMAIN z : z[i].b = b /\ z[i].call = k
  <2> HIDE DEF y
  <2> QED
    BY <1>6, <1>8, <1>9, <1>12, AppendFacts
<1> HIDE DEF z
<1> QED
  BY <1>7, <1>10, <1>13 DEF M

IsBlock(z, b, k) == z = Block(b, k, TRUE) \/ z = Block(b, k, FALSE)
BlockLog(z, b, k) == Log(z, {b}, {b}, {}) /\ \A i \in DOMAIN z : z[i].b = b /\ z[i].call = k

LEMMA EitherBlock ==
  ASSUME NEW b \in Nat, NEW k \in Calls \cup {None}, NEW z, IsBlock(z, b, k)
  PROVE  BlockLog(z, b, k)
<1>1. CASE z = Block(b, k, TRUE)
  <2>1. TRUE \in BOOLEAN
    OBVIOUS
  <2> QED
    BY <1>1, <2>1, BlockOK, ZenonT(20) DEF BlockLog
<1>2. CASE z = Block(b, k, FALSE)
  <2>1. FALSE \in BOOLEAN
    OBVIOUS
  <2> QED
    BY <1>2, <2>1, BlockOK, ZenonT(20) DEF BlockLog
<1> QED
  BY <1>1, <1>2 DEF IsBlock

LEMMA CallBlock ==
  ASSUME NEW first \in Nat, NEW k \in Calls, NEW z, IsBlock(z, first + k, k),
         NEW M, M \subseteq EventNames \ BlockNames
  PROVE  Log(z, {first + k}, {first + k}, M) /\ InOrder(z, first)
<1> DEFINE b == first + k
<1>1. k \in Nat /\ b \in Nat /\ k \in Calls \cup {None}
  BY StreamAssumption
<1>2. IsBlock(z, b, k) /\ b = first + k
  OBVIOUS
<1> HIDE DEF b
<1>3. BlockLog(z, b, k)
  BY <1>1, <1>2, EitherBlock
<1>4. Log(z, {b}, {b}, {}) /\ \A j \in DOMAIN z : z[j].b = b /\ z[j].call = k
  BY <1>3 DEF BlockLog
<1>5. Log(z, {b}, {b}, M)
  BY <1>4, LogMarks
<1>6. InOrder(z, first)
  BY <1>1, <1>2, <1>4 DEF InOrder
<1> QED
  BY <1>2, <1>5, <1>6

LEMMA IntervalNext ==
  ASSUME NEW a \in Nat, NEW c \in Nat
  PROVE  /\ a .. ((a + (c + 1)) - 1) = (a .. ((a + c) - 1)) \cup {a + c}
         /\ (a .. ((a + c) - 1)) \cap {a + c} = {}
<1> DEFINE e == (a + c) - 1
<1>1. e \in Int /\ (a + (c + 1)) - 1 = e + 1 /\ a + c = e + 1
  OBVIOUS
<1> HIDE DEF e
<1>2. a .. (e + 1) = (a .. e) \cup {e + 1}
  <2>1. e + 1 >= a
    BY <1>1
  <2> QED
    BY <1>1, <2>1
<1>3. (a .. e) \cap {e + 1} = {}
  BY <1>1
<1> QED
  BY <1>1, <1>2, <1>3 DEF e

\* The blocks of n calls, one after the other.
LEMMA FlattenBlocks ==
  ASSUME NEW n \in Nat, NEW first \in Nat, NEW M, M \subseteq EventNames \ BlockNames,
         NEW G, G = [i \in 1 .. n |-> G[i]],
         \A i \in 1 .. n : /\ Log(G[i], {first + (i - 1)}, {first + (i - 1)}, M)
                           /\ InOrder(G[i], first)
  PROVE  /\ Log(FlattenSeq(G), first .. ((first + n) - 1), first .. ((first + n) - 1), M)
         /\ InOrder(FlattenSeq(G), first)
<1>1. Len(G) = n
  OBVIOUS
<1>2. CASE n = 0
  <2>1. G = <<>>
    BY <1>2
  <2>2. FlattenSeq(G) = <<>>
    BY <1>1, <1>2, <2>1 DEF FlattenSeq
  <2>3. first .. ((first + n) - 1) = {}
    BY <1>2
  <2>4. DOMAIN <<>> = {}
    OBVIOUS
  <2> QED
    BY <2>2, <2>3, <2>4, LogEmpty DEF InOrder
<1>3. CASE n # 0
  <2> DEFINE g == CHOOSE g : FlattenRule(G, n, g)
             B(i) == first .. ((first + i) - 1)
             Fits(i) == Log(g[i], B(i), B(i), M) /\ InOrder(g[i], first)
  <2>1. FlattenSeq(G) = g[n]
    BY <1>1, <1>3, FlattenDef
  <2>2. FlattenRule(G, n, g)
    BY FlattenExists
  <2> HIDE DEF g
  <2>3. g = [i \in 1 .. n |-> IF i = 1 THEN G[i] ELSE g[i - 1] \o G[i]]
    BY <2>2 DEF FlattenRule
  <2>4. ASSUME NEW i \in 1 .. n
        PROVE  /\ Log(G[i], {first + (i - 1)}, {first + (i - 1)}, M) /\ InOrder(G[i], first)
               /\ G[i] \in Seq(Events)
    BY <2>4 DEF Log
  <2>5. Fits(1)
    <3>1. 1 \in 1 .. n /\ first + (1 - 1) = first /\ B(1) = {first}
      BY <1>3
    <3>2. g[1] = G[1]
      BY <2>3, <3>1
    <3>3. Log(G[1], {first}, {first}, M) /\ InOrder(G[1], first)
      BY <2>4, <3>1
    <3> QED
      BY <3>1, <3>2, <3>3
  <2>6. ASSUME NEW i \in Nat, i # 0, i + 1 \in 1 .. n, Fits(i) PROVE Fits(i + 1)
    <3> DEFINE x == g[i]
               y == G[i + 1]
               T == {first + i}
    <3>1. (i + 1) - 1 = i /\ i + 1 # 1
      BY <2>6
    <3>2. g[i + 1] = x \o y
      BY <2>3, <2>6, <3>1
    <3>3. Log(y, T, T, M) /\ InOrder(y, first) /\ y \in Seq(Events)
      BY <2>4, <2>6, <3>1
    <3>4. Log(x, B(i), B(i), M) /\ InOrder(x, first) /\ x \in Seq(Events)
      BY <2>6 DEF Log
    <3>5. B(i) \cap T = {} /\ B(i) \cup T = B(i + 1)
      BY <2>6, IntervalNext
    <3> HIDE DEF x, y, T, B
    <3>6. Log(x \o y, B(i) \cup T, B(i) \cup T, M)
      BY <3>3, <3>4, <3>5, LogConcat
    <3>7. InOrder(x \o y, first)
      BY <3>3, <3>4, InOrderConcat
    <3> QED
      BY <3>2, <3>5, <3>6, <3>7
  <2>7. Fits(n)
    <3> HIDE DEF Fits
    <3> DEFINE Bad == {m \in Nat : m \in 1 .. n /\ ~Fits(m)}
    <3> SUFFICES ASSUME Bad # {} PROVE FALSE
      BY <1>3
    <3>1. PICK k \in Bad : \A m \in Bad : k <= m
      BY NatLeast
    <3>2. k # 1 /\ k \in 1 .. n
      BY <2>5, <3>1
    <3>3. k - 1 \in Nat /\ ~(k <= k - 1) /\ k - 1 \in 1 .. n /\ k - 1 # 0 /\ (k - 1) + 1 = k
      BY <3>1, <3>2
    <3>4. Fits(k - 1)
      BY <3>1, <3>3
    <3>5. Fits((k - 1) + 1)
      BY <2>6, <3>2, <3>3, <3>4
    <3> QED
      BY <3>1, <3>3, <3>5
  <2> QED
    BY <2>1, <2>7
<1> QED
  BY <1>2, <1>3

\* An end and a [DONE] after it.
EndsTwice(o, e) ==
  \A i \in DOMAIN o : o[i].e \in {"stop", "done"} =>
    i = Len(o) \/ (i = Len(o) - 1 /\ o[i].e = e /\ o[i + 1].e = "done")

LEMMA LogEndsTwice ==
  ASSUME NEW o, NEW S, NEW C, NEW M, Log(o, S, C, M), {"stop", "done"} \cap M = {},
         NEW u \in Events, NEW v \in Events, v.e = "done"
  PROVE  EndsTwice(Append(Append(o, u), v), u.e)
<1> DEFINE p == Append(o, u)
           q == Append(p, v)
<1>1. o \in Seq(Events)
  BY DEF Log
<1>2. \A i \in DOMAIN o : o[i].e \notin {"stop", "done"}
  BY LogNames DEF BlockNames
<1>3. /\ p \in Seq(Events) /\ Len(p) = Len(o) + 1 /\ Len(o) \in Nat /\ DOMAIN o = 1 .. Len(o)
      /\ (\A i \in 1 .. Len(o) : p[i] = o[i]) /\ p[Len(o) + 1] = u
  BY <1>1, AppendFacts
<1> HIDE DEF p
<1>4. /\ Len(q) = Len(p) + 1 /\ DOMAIN q = 1 .. (Len(p) + 1)
      /\ (\A i \in 1 .. Len(p) : q[i] = p[i]) /\ q[Len(p) + 1] = v
  BY <1>3, AppendFacts
<1> HIDE DEF q
<1>5. ASSUME NEW i \in DOMAIN q, q[i].e \in {"stop", "done"}
      PROVE  i = Len(q) \/ (i = Len(q) - 1 /\ q[i].e = u.e /\ q[i + 1].e = "done")
  <2>1. CASE i \in 1 .. Len(o)
    BY <1>2, <1>3, <1>4, <1>5, <2>1
  <2>2. CASE i = Len(o) + 1
    BY <1>3, <1>4, <2>2
  <2>3. CASE i = Len(o) + 2
    BY <1>3, <1>4, <2>3
  <2> QED
    BY <1>3, <1>4, <2>1, <2>2, <2>3
<1> QED
  BY <1>5 DEF EndsTwice, q, p

LEMMA WholeMessageOK ==
  ASSUME NEW n \in Nat, DOMAIN cl.tools = 0 .. (n - 1), 0 .. (n - 1) \subseteq Calls,
         \A k \in 0 .. (n - 1) : cl.tools[k] \in BOOLEAN, cl.text = None \/ cl.text = 0
  PROVE  /\ WholeMessage \in Seq(Events) /\ BracketedOf(WholeMessage) /\ FinalsOf(WholeMessage) = {}
         /\ EndsTwice(WholeMessage, "stop") /\ CallsApart(WholeMessage)
<1> DEFINE first == IF cl.text = None THEN 0 ELSE 1
           d == cl.tools
           G == [i \in 1 .. n |-> Block(first + (i - 1), i - 1, d[i - 1])]
           F == FlattenSeq(G)
           T == IF cl.text = None THEN <<>> ELSE Block(0, None, TRUE)
           s == <<Mark("start")>>
           h == s \o T
           p == h \o F
           A == IF cl.text = None THEN {} ELSE {0}
           B == first .. ((first + n) - 1)
           M == {"start"}
           N == ClaudeMarks \cup {"stop", "done"}
           a == Mark("usage")
           b == Mark("stop")
           c == Mark("done")
<1>1. Cardinality(DOMAIN cl.tools) = n
  <2>1. Cardinality(0 .. (n - 1)) = n
    <3>1. 0 \in Int /\ n - 1 \in Int
      OBVIOUS
    <3>2. Cardinality(0 .. (n - 1)) = IF 0 > n - 1 THEN 0 ELSE ((n - 1) - 0) + 1
      BY <3>1, FS_Interval
    <3> QED
      BY <3>2
  <2> QED
    BY <2>1
<1>2. WholeMessage = p \o <<a, b, c>>
  BY <1>1 DEF WholeMessage
<1>3. M \subseteq EventNames \ BlockNames /\ N \subseteq EventNames \ BlockNames
  BY DEF EventNames, BlockNames, ClaudeMarks
<1>4. Log(F, B, B, M) /\ InOrder(F, first) /\ first \in Nat
  <2>1. first \in Nat
    OBVIOUS
  <2> HIDE DEF first, M
  <2>2. ASSUME NEW i \in 1 .. n
        PROVE  /\ Log(G[i], {first + (i - 1)}, {first + (i - 1)}, M)
               /\ InOrder(G[i], first)
    <3> DEFINE k == i - 1
               z == Block(first + k, k, d[k])
    <3>1. k \in Calls /\ d[k] \in BOOLEAN /\ G[i] = z
      BY <2>2
    <3>2. IsBlock(z, first + k, k)
      <4>1. d[k] = TRUE \/ d[k] = FALSE
        BY <3>1
      <4> QED
        BY <4>1 DEF IsBlock
    <3> HIDE DEF k, z
    <3>3. Log(z, {first + k}, {first + k}, M) /\ InOrder(z, first)
      BY <1>3, <2>1, <3>1, <3>2, CallBlock
    <3> QED
      BY <3>1, <3>3 DEF k
  <2>3. G = [i \in 1 .. n |-> G[i]]
    OBVIOUS
  <2> HIDE DEF G
  <2> QED
    BY <1>3, <2>1, <2>2, <2>3, FlattenBlocks
<1> HIDE DEF F
<1>5. Log(T, A, A, M) /\ InOrder(T, first)
  <2>1. CASE cl.text = None
    <3>1. T = <<>> /\ A = {} /\ DOMAIN <<>> = {}
      BY <2>1
    <3> HIDE DEF T, A, M
    <3> QED
      BY <1>3, <3>1, LogEmpty DEF InOrder
  <2>2. CASE cl.text # None
    <3> DEFINE z == Block(0, None, TRUE)
    <3>1. T = z /\ A = {0} /\ None \in Calls \cup {None}
      BY <2>2
    <3>2. Log(z, {0}, {0}, {}) /\ \A i \in DOMAIN z : z[i].call = None
      <4>1. 0 \in Nat /\ TRUE \in BOOLEAN
        OBVIOUS
      <4> QED
        BY <3>1, <4>1, BlockOK
    <3>3. Log(z, {0}, {0}, M)
      <4> HIDE DEF M, z
      <4> QED
        BY <1>3, <3>2, LogMarks
    <3> HIDE DEF z, T, A, M
    <3> QED
      BY <3>1, <3>2, <3>3 DEF InOrder
  <2> QED
    BY <2>1, <2>2
<1>6. Log(s, {}, {}, M) /\ InOrder(s, first)
  <2>1. Mark("start") \in Events /\ Mark("start").call = None
    BY MarkFacts DEF EventNames
  <2>2. Log(<<>>, {}, {}, M)
    BY <1>3, LogEmpty
  <2>3. Log(Append(<<>>, Mark("start")), {}, {}, M)
    <3> DEFINE E == {}
               o == <<>>
    <3>1. Log(o, E, E, M) /\ "start" \in M
      BY <2>2
    <3> HIDE DEF E, o, M
    <3>2. Log(Append(o, Mark("start")), E, E, M)
      BY <3>1, LogMark
    <3> QED
      BY <3>2 DEF E, o
  <2>4. s = Append(<<>>, Mark("start")) /\ \A i \in DOMAIN s : s[i] = Mark("start")
    OBVIOUS
  <2> HIDE DEF s, M
  <2> QED
    BY <2>1, <2>3, <2>4 DEF InOrder
<1>7. A \cap B = {} /\ A \subseteq Nat /\ B \subseteq Nat
  BY <1>4
<1>8. s \in Seq(Events) /\ T \in Seq(Events) /\ F \in Seq(Events)
  BY <1>4, <1>5, <1>6 DEF Log
<1> HIDE DEF T, A, B, M, s, first
<1>9. Log(h, A, A, M) /\ InOrder(h, first) /\ h \in Seq(Events)
  <2> DEFINE E == {}
  <2>1. Log(s, E, E, M) /\ E \cap A = {} /\ E \cup A = A
    BY <1>6
  <2> HIDE DEF E
  <2>2. Log(s \o T, E \cup A, E \cup A, M)
    BY <1>5, <2>1, LogConcat
  <2>3. InOrder(s \o T, first)
    BY <1>5, <1>6, <1>8, InOrderConcat
  <2>4. Log(h, A, A, M)
    BY <2>1, <2>2
  <2> QED
    BY <2>3, <2>4 DEF Log
<1> HIDE DEF h
<1> DEFINE D == A \cup B
<1>10. Log(p, D, D, M) /\ InOrder(p, first) /\ p \in Seq(Events)
  <2>1. Log(p, D, D, M)
    BY <1>4, <1>7, <1>9, LogConcat
  <2>2. InOrder(p, first)
    BY <1>4, <1>8, <1>9, InOrderConcat
  <2> QED
    BY <2>1, <2>2 DEF Log
<1> HIDE DEF p, D
<1>11. /\ a \in Events /\ b \in Events /\ c \in Events /\ a.call = None /\ b.call = None /\ c.call = None
       /\ b.e = "stop" /\ c.e = "done"
  <2>1. "usage" \in EventNames /\ "stop" \in EventNames /\ "done" \in EventNames
    BY DEF EventNames
  <2> QED
    BY <2>1, MarkFacts
<1>12. Log(Append(p, a), D, D, ClaudeMarks)
  <2>1. M \subseteq ClaudeMarks /\ "usage" \in ClaudeMarks /\ ClaudeMarks \subseteq EventNames \ BlockNames
    BY DEF ClaudeMarks, EventNames, BlockNames, M
  <2>2. Log(p, D, D, ClaudeMarks)
    BY <1>10, <2>1, LogMarks
  <2> QED
    BY <2>1, <2>2, LogMark
<1> DEFINE x == Append(p, a)
           y == Append(x, b)
           z == Append(y, c)
<1>13. Log(z, D, D, N) /\ x \in Seq(Events) /\ y \in Seq(Events) /\ z \in Seq(Events)
  <2>1. ClaudeMarks \subseteq N /\ "stop" \in N /\ "done" \in N
    OBVIOUS
  <2> HIDE DEF x, N
  <2>2. Log(x, D, D, N)
    BY <1>3, <1>12, <2>1, LogMarks DEF x
  <2>3. Log(y, D, D, N)
    BY <2>1, <2>2, LogMark
  <2> HIDE DEF y
  <2>4. Log(z, D, D, N)
    BY <2>1, <2>3, LogMark
  <2> QED
    BY <2>2, <2>3, <2>4 DEF Log
<1>14. WholeMessage = z
  <2> HIDE DEF a, b, c
  <2>1. p \o <<a, b, c>> = Append(Append(Append(p, a), b), c)
    BY <1>10, <1>11
  <2> QED
    BY <1>2, <2>1
<1>15. EndsTwice(z, "stop")
  <2>1. {"stop", "done"} \cap ClaudeMarks = {}
    BY DEF ClaudeMarks
  <2> HIDE DEF b, c, x
  <2>2. Log(x, D, D, ClaudeMarks)
    BY <1>12 DEF x
  <2>3. EndsTwice(Append(Append(x, b), c), b.e)
    BY <1>11, <2>1, <2>2, LogEndsTwice
  <2> QED
    BY <1>11, <2>3
<1>16. BracketedOf(z) /\ FinalsOf(z) = {}
  <2>1. {"final", "final_usage"} \cap N = {}
    BY DEF ClaudeMarks
  <2> HIDE DEF z, N
  <2> QED
    BY <1>13, <2>1, LogBracketed, LogNoFinals
<1>17. CallsApart(z)
  <2>1. CallsApart(p)
    BY <1>4, <1>10, InOrderApart
  <2> HIDE DEF a, b, c
  <2>2. CallsApart(x)
    BY <1>10, <1>11, <2>1, ApartAppend
  <2> HIDE DEF x
  <2>3. CallsApart(y)
    BY <1>11, <1>13, <2>2, ApartAppend
  <2> HIDE DEF y
  <2> QED
    BY <1>11, <1>13, <2>3, ApartAppend
<1> HIDE DEF z
<1> QED
  BY <1>13, <1>14, <1>15, <1>16, <1>17
----------------------------------------------------------------------------
\* What has been written while the handler reads, by the kind of handler.
\* Nothing, of a buffered stream, whose calls are kept in order;
BufferOK(c, o, begun) ==
  /\ o = <<>> /\ DOMAIN c = BlockRecord /\ (c.text = None \/ c.text = 0)
  /\ DOMAIN c.tools = begun /\ (\A k \in begun : c.tools[k] \in BOOLEAN)
  /\ \E n \in Nat : begun = 0 .. (n - 1)

\* chunks, and the [DONE]s of the upstream that are passed on;
PlainOK(o) == Log(o, {}, {}, PlainMarks)

\* chunks of a provider's handler, and the finalizer's once it was sent.
FinRecords == [id : BOOLEAN, stop : BOOLEAN, meta : BOOLEAN, sent : BOOLEAN]
FinalOK(f, o, given) ==
  /\ Log(o, {}, {}, FinalMarks) /\ f \in FinRecords
  /\ Finalizes => (f.meta <=> given)
  /\ ~f.sent => FinalsOf(o) = {}
  /\ f.sent => /\ Finalizes /\ f.id /\ f.meta
               /\ \E i \in DOMAIN o : FinalsOf(o) = {i} /\ o[i].e = "final_usage"

PlainKind == ~IsProvider /\ ~hdl.bridge /\ hdl.kind \notin {"claude", "buffered"}
Written ==
  /\ Kind("claude") => ClaudeOK(cl, out) /\ (dialect = "repeated" => ClaudeCalls(cl, out))
  /\ hdl.bridge => BridgeOK(br, out) /\ (~Kind("anthropic") => BridgeCalls(br, out, up.begun, dialect))
  /\ Kind("buffered") => BufferOK(cl, out, up.begun)
  /\ IsProvider => FinalOK(fin, out, up.usage)
  /\ PlainKind => PlainOK(out)

\* What a handler may have written when it returns, with the finalizer f and the
\* upstream's flags done and given.
EndOK(o, f, done, given) ==
  /\ o \in Seq(Events) /\ BracketedOf(o)
  /\ \/ EndsOnce(o)
     \/ Kind("buffered") /\ EndsTwice(o, "stop")
     \/ Kind("zhipu") /\ SentIn(o, "error") /\ EndsTwice(o, "done")
  /\ \/ FinalsOf(o) = {} /\ ~(IsProvider /\ Finalizes /\ f.id /\ SentIn(o, "done"))
     \/ \E i \in DOMAIN o : FinalsOf(o) = {i} /\ (o[i].e = "final_usage" <=> given)
  /\ hdl.kind \in {"claude", "direct", "openai", "converted"} /\ ~hdl.bridge
     /\ (SentIn(o, "stop") \/ SentIn(o, "done")) => done \/ SentIn(o, "error")
  /\ ReadsOn /\ SentIn(o, "relayed") /\ SentIn(o, "done") => SentIn(o, "error")
  /\ (hdl.bridge /\ hdl.kind # "anthropic") \/ Kind("buffered") \/ (Kind("claude") /\ dialect = "repeated")
       => CallsApart(o)

ShapeTypes ==
  /\ dialect \in Dialects /\ tp \in {"before", "inside", "after"} /\ cl.next \in Nat
  /\ out \in Seq(Events) /\ Table(br)

ShapeInv ==
  /\ ShapeTypes
  /\ pc # "returned" => Written
  /\ pc = "returned" => EndOK(out, fin, up.done, up.usage)
LEMMA TracksZhipu == \A x \in DOMAIN Provider : Provider[x].tracks => x = "zhipu"
<1>1. /\ ~Provider["aiproxy"].tracks /\ ~Provider["ali"].tracks /\ ~Provider["baidu"].tracks
      /\ ~Provider["cohere"].tracks /\ ~Provider["coze"].tracks /\ ~Provider["gemini"].tracks
  BY DEF Provider, Sse, Aiproxy, Ali, Baidu, Cohere, Coze, Gemini
<1>2. /\ ~Provider["ollama"].tracks /\ ~Provider["tencent"].tracks
      /\ ~Provider["replicate"].tracks /\ ~Provider["xunfei"].tracks
  BY DEF Provider, Sse, Ollama, Tencent, Replicate, Xunfei
<1>3. /\ ~Provider["palm"].tracks /\ ~Provider["deepl"].tracks
      /\ ~Provider["bedrock_claude"].tracks /\ ~Provider["bedrock_mistral_tools"].tracks
  BY DEF Provider, Sse, Palm, Deepl, BedrockClaude, BedrockMistralTools
<1>4. /\ ~Provider["bedrock_cohere"].tracks /\ ~Provider["bedrock_deepseek"].tracks
      /\ ~Provider["bedrock_llama3"].tracks /\ ~Provider["bedrock_mistral"].tracks
  BY DEF Provider, Sse, Converse, BedrockCohere, BedrockDeepSeek, BedrockLlama3, BedrockMistral
<1>5. /\ ~Provider["bedrock_openai"].tracks /\ ~Provider["bedrock_qwen"].tracks
      /\ ~Provider["bedrock_writer"].tracks
  BY DEF Provider, Sse, Converse, BedrockOpenAI, BedrockQwen, BedrockWriter
<1> QED
  BY <1>1, <1>2, <1>3, <1>4, <1>5, ProviderNames

\* The kinds of handlers exclude each other.
LEMMA KindFacts ==
  ASSUME UsageInv
  PROVE  /\ Kind("claude") => ~IsProvider /\ ~hdl.bridge /\ ~Kind("buffered") /\ ~PlainKind
         /\ hdl.bridge => /\ ~IsProvider /\ hdl.kind \in {"unified", "openai", "anthropic"}
                          /\ ~Kind("claude") /\ ~Kind("buffered") /\ ~PlainKind
         /\ Kind("buffered") => ~IsProvider /\ ~hdl.bridge /\ ~Kind("claude") /\ ~PlainKind
         /\ IsProvider => /\ ~hdl.bridge /\ hdl.kind \notin SharedKinds
                          /\ ~Kind("claude") /\ ~Kind("buffered") /\ ~PlainKind
         /\ PlainKind => /\ ~IsProvider /\ ~hdl.bridge /\ ~Kind("claude") /\ ~Kind("buffered")
                         /\ hdl.kind \in {"unified", "openai", "direct", "anthropic", "native", "converted"}
         /\ ~IsProvider => Kind("claude") \/ hdl.bridge \/ Kind("buffered") \/ PlainKind
<1>1. /\ ~IsProvider => hdl.kind \in SharedKinds
      /\ hdl.kind \in SharedKinds => ~IsProvider
      /\ hdl.bridge \in BOOLEAN
  BY TypesNow
<1>2. hdl \in Handlers /\ \A h \in Handlers : h.bridge => h.kind \in {"unified", "openai", "anthropic"}
  BY StreamAssumption DEF UsageInv, StreamTypes
<1>3. hdl.bridge => hdl.kind \in {"unified", "openai", "anthropic"}
  BY <1>2
<1> QED
  BY <1>1, <1>3 DEF Kind, PlainKind, SharedKinds

LEMMA EndShape ==
  ASSUME ShapeTypes, pc' = "returned", UNCHANGED <<hdl, dialect, tp, cl, br>>,
         EndOK(out', fin', up'.done, up'.usage)
  PROVE  ShapeInv'
<1>1. out' \in Seq(Events)
  BY DEF EndOK
<1>2. ShapeTypes'
  BY <1>1 DEF ShapeTypes
<1>3. (EndOK(out, fin, up.done, up.usage))'
  BY DEF EndOK, ReadsOn, Kind, IsProvider, Finalizes, Prof
<1> QED
  BY <1>2, <1>3 DEF ShapeInv

\* The handler reads on.
LEMMA ClaudeShape ==
  ASSUME UsageInv, ShapeTypes, Kind("claude"), pc' # "returned", UNCHANGED <<hdl, dialect, br>>,
         tp' \in {"before", "inside", "after"},
         ClaudeOK(cl', out'), dialect = "repeated" => ClaudeCalls(cl', out')
  PROVE  ShapeInv'
<1>1. ~IsProvider /\ ~hdl.bridge /\ ~Kind("buffered") /\ ~PlainKind
  BY KindFacts
<1>2. cl'.next \in Nat /\ out' \in Seq(Events)
  BY DEF ClaudeOK, Log
<1>3. ShapeTypes'
  BY <1>2 DEF ShapeTypes
<1>4. Written'
  BY <1>1 DEF Written, IsProvider, Kind, PlainKind
<1> QED
  BY <1>3, <1>4 DEF ShapeInv

LEMMA BridgeShape ==
  ASSUME UsageInv, ShapeTypes, hdl.bridge, pc' # "returned", UNCHANGED <<hdl, dialect, cl>>,
         tp' \in {"before", "inside", "after"},
         BridgeOK(br', out'), ~Kind("anthropic") => BridgeCalls(br', out', up'.begun, dialect)
  PROVE  ShapeInv'
<1>1. ~IsProvider /\ ~Kind("claude") /\ ~Kind("buffered") /\ ~PlainKind
  BY KindFacts
<1>2. Table(br') /\ out' \in Seq(Events)
  BY DEF BridgeOK, Log
<1>3. ShapeTypes'
  BY <1>2 DEF ShapeTypes
<1>4. Written'
  BY <1>1 DEF Written, IsProvider, Kind, PlainKind
<1> QED
  BY <1>3, <1>4 DEF ShapeInv

LEMMA BufferShape ==
  ASSUME UsageInv, ShapeTypes, Kind("buffered"), pc' # "returned", UNCHANGED <<hdl, dialect, br, out>>,
         tp' \in {"before", "inside", "after"}, cl'.next \in Nat, BufferOK(cl', out', up'.begun)
  PROVE  ShapeInv'
<1>1. ~IsProvider /\ ~Kind("claude") /\ ~hdl.bridge /\ ~PlainKind
  BY KindFacts
<1>2. ShapeTypes'
  BY DEF ShapeTypes
<1>3. Written'
  BY <1>1 DEF Written, IsProvider, Kind, PlainKind
<1> QED
  BY <1>2, <1>3 DEF ShapeInv

LEMMA ProviderShape ==
  ASSUME UsageInv, ShapeTypes, IsProvider, pc' # "returned", UNCHANGED <<hdl, dialect, tp, cl, br>>,
         FinalOK(fin', out', up'.usage)
  PROVE  ShapeInv'
<1>1. ~hdl.bridge /\ ~Kind("claude") /\ ~Kind("buffered") /\ ~PlainKind
  BY KindFacts
<1>2. out' \in Seq(Events)
  BY DEF FinalOK, Log
<1>3. ShapeTypes'
  BY <1>2 DEF ShapeTypes
<1>4. (FinalOK(fin, out, up.usage))'
  BY DEF FinalOK, Finalizes, Prof
<1>5. Written'
  BY <1>1, <1>4 DEF Written, IsProvider, Kind, PlainKind
<1> QED
  BY <1>3, <1>5 DEF ShapeInv

LEMMA PlainShape ==
  ASSUME UsageInv, ShapeTypes, PlainKind, pc' # "returned", UNCHANGED <<hdl, dialect, cl, br>>,
         tp' \in {"before", "inside", "after"}, out' \in Seq(Events), PlainOK(out')
  PROVE  ShapeInv'
<1>1. ~hdl.bridge /\ ~Kind("claude") /\ ~Kind("buffered") /\ ~IsProvider
  BY KindFacts
<1>2. ShapeTypes'
  BY DEF ShapeTypes
<1>3. (PlainOK(out))'
  BY DEF PlainOK
<1>4. Written'
  BY <1>1, <1>3 DEF Written, IsProvider, Kind, PlainKind
<1> QED
  BY <1>2, <1>4 DEF ShapeInv

\* Chunks are passed on, and [DONE]s.
LEMMA PlainStep ==
  ASSUME UsageInv, ShapeInv, PlainKind, pc = "stream", pc' = pc, UNCHANGED <<hdl, dialect, cl, br>>,
         tp' \in {"before", "inside", "after"},
         \/ out' = out \/ out' = Append(out, Mark("chunk"))
         \/ out' = Append(out, Mark("raw")) \/ out' = Append(out, Mark("relayed"))
  PROVE  ShapeInv'
<1>1. ShapeTypes /\ PlainOK(out)
  BY DEF ShapeInv, Written
<1>2. Log(out, {}, {}, PlainMarks)
  BY <1>1 DEF PlainOK
<1>3. "chunk" \in PlainMarks /\ "raw" \in PlainMarks /\ "relayed" \in PlainMarks
  BY DEF PlainMarks
<1>4. Log(out', {}, {}, PlainMarks)
  <2> DEFINE E == {}
  <2>1. Log(out, E, E, PlainMarks)
    BY <1>2
  <2> HIDE DEF E
  <2>2. Log(out', E, E, PlainMarks)
    BY <1>3, <2>1, LogMark
  <2> QED
    BY <2>2 DEF E
<1>5. out' \in Seq(Events) /\ PlainOK(out')
  BY <1>4 DEF Log, PlainOK
<1> QED
  BY <1>1, <1>5, PlainShape
----------------------------------------------------------------------------
\* The lines of an answer.
LEMMA SplitTypes ==
  ASSUME tp \in {"before", "inside", "after"}, NEW t \in Texts
  PROVE  Split(t).tp \in {"before", "inside", "after"}
BY DEF Split, Texts

LEMMA ClaudeText ==
  ASSUME ClaudeOK(cl, out), NEW x, NEW s, s = IF x.think THEN BlockDelta(State, "think") ELSE State,
         NEW r, r = IF x.clean THEN BlockDelta(s, "text") ELSE s
  PROVE  ClaudeOK(r.c, r.o) /\ (ClaudeCalls(cl, out) => ClaudeCalls(r.c, r.o))
<1>1. State = [c |-> cl, o |-> out]
  BY DEF State
<1>2. /\ ClaudeOK(s.c, s.o) /\ s = [c |-> s.c, o |-> s.o]
      /\ ClaudeCalls(cl, out) => ClaudeCalls(s.c, s.o)
  <2>1. CASE x.think
    <3>1. s = BlockDelta([c |-> cl, o |-> out], "think")
      BY <1>1, <2>1
    <3> QED
      BY <3>1, BlockDeltaOK
  <2>2. CASE ~x.think
    BY <1>1, <2>2
  <2> QED
    BY <2>1, <2>2
<1>3. CASE x.clean
  <2>1. r = BlockDelta(s, "text")
    BY <1>3
  <2>2. /\ ClaudeOK(r.c, r.o)
        /\ ClaudeCalls(s.c, s.o) => ClaudeCalls(r.c, r.o)
    BY <1>2, <2>1, BlockDeltaOK
  <2> QED
    BY <1>2, <2>2
<1>4. CASE ~x.clean
  BY <1>2, <1>4
<1> QED
  BY <1>3, <1>4

LEMMA BridgeDelta ==
  ASSUME NEW b, NEW o, BridgeOK(b, o), b.started
  PROVE  /\ BridgeOK(b, Append(o, Event("delta", 0, None))) /\ o \in Seq(Events)
         /\ \A begun, d : BridgeCalls(b, o, begun, d) =>
              BridgeCalls(b, Append(o, Event("delta", 0, None)), begun, d)
<1> DEFINE v == Event("delta", 0, None)
<1>1. Table(b) /\ Log(o, Items(b), {}, BridgeMarks) /\ o \in Seq(Events) /\ Len(b.order) \in Nat
  BY TableFacts DEF BridgeOK, Log
<1>2. 0 \in Items(b) \ {}
  BY <1>1 DEF Items
<1>3. Log(Append(o, v), Items(b), {}, BridgeMarks) /\ v \in Events
  <2> DEFINE E == {}
  <2>1. Log(o, Items(b), E, BridgeMarks) /\ 0 \in Items(b) \ E
    BY <1>1, <1>2
  <2> HIDE DEF E
  <2>2. Log(Append(o, v), Items(b), E, BridgeMarks) /\ v \in Events
    BY <2>1, NoneFacts, LogDelta
  <2> QED
    BY <2>2 DEF E
<1>4. v.call = None
  BY DEF Event
<1> HIDE DEF v
<1>5. ASSUME NEW begun, NEW d, BridgeCalls(b, o, begun, d)
      PROVE  BridgeCalls(b, Append(o, v), begun, d)
  <2>1. ItemOfCall(Append(o, v), begun)
    BY <1>1, <1>3, <1>4, <1>5, ItemAppend DEF BridgeCalls
  <2> QED
    BY <1>5, <2>1 DEF BridgeCalls
<1> QED
  BY <1>1, <1>3, <1>5 DEF BridgeOK, v

LEMMA BridgeText ==
  ASSUME BridgeOK(br, out), NEW s, s = ensureInitialized(Bridge), NEW clean \in BOOLEAN, NEW think \in BOOLEAN,
         NEW r, r = IF clean THEN appendTextDelta(s) ELSE s,
         NEW z, z = IF think THEN appendReasoningDelta(r) ELSE r
  PROVE  /\ BridgeOK(z.b, z.o)
         /\ \A begun, d : BridgeCalls(br, out, begun, d) => BridgeCalls(z.b, z.o, begun, d)
<1>1. /\ BridgeOK(s.b, s.o) /\ s.b.started /\ s = [b |-> s.b, o |-> s.o]
      /\ \A begun, d : BridgeCalls(br, out, begun, d) => BridgeCalls(s.b, s.o, begun, d)
  <2>1. s = ensureInitialized([b |-> br, o |-> out])
    BY DEF Bridge
  <2> QED
    BY <2>1, EnsureInitialized
<1>2. DOMAIN s = {"b", "o"}
  BY <1>1
<1>3. /\ BridgeOK(r.b, r.o) /\ DOMAIN r = {"b", "o"}
      /\ \A begun, d : BridgeCalls(br, out, begun, d) => BridgeCalls(r.b, r.o, begun, d)
  <2>1. CASE clean
    <3>1. r.b = s.b /\ r.o = Append(s.o, Event("delta", 0, None)) /\ DOMAIN r = {"b", "o"}
      BY <1>2, <2>1 DEF appendTextDelta
    <3>2. /\ BridgeOK(s.b, Append(s.o, Event("delta", 0, None)))
          /\ \A begun, d : BridgeCalls(s.b, s.o, begun, d) =>
               BridgeCalls(s.b, Append(s.o, Event("delta", 0, None)), begun, d)
      BY <1>1, BridgeDelta
    <3> QED
      BY <1>1, <3>1, <3>2
  <2>2. CASE ~clean
    BY <1>1, <1>2, <2>2
  <2> QED
    BY <2>1, <2>2
<1>4. CASE think
  <2>1. z.b = r.b /\ z.o = Append(r.o, Mark("reasoning"))
    BY <1>3, <1>4 DEF appendReasoningDelta
  <2>2. "reasoning" \in BridgeMarks
    BY DEF BridgeMarks
  <2>3. /\ BridgeOK(r.b, Append(r.o, Mark("reasoning")))
        /\ \A begun, d : BridgeCalls(r.b, r.o, begun, d) =>
             BridgeCalls(r.b, Append(r.o, Mark("reasoning")), begun, d)
    BY <1>3, <2>2, BridgeMarked
  <2> QED
    BY <1>3, <2>1, <2>3
<1>5. CASE ~think
  BY <1>3, <1>5
<1> QED
  BY <1>4, <1>5

LEMMA NextTypes ==
  ASSUME ShapeInv
  PROVE  /\ ShapeTypes /\ dialect \in Dialects /\ tp \in {"before", "inside", "after"}
         /\ cl.next \in Nat /\ out \in Seq(Events) /\ Table(br)
         /\ pc # "returned" => Written
BY DEF ShapeInv, ShapeTypes

LEMMA TextShape == ASSUME UsageInv, ShapeInv, NEW t \in Texts, TextLine(t) PROVE ShapeInv'
<1>1. /\ ~IsProvider /\ Sends(1, Plus(up.sent, "text"))
      /\ UNCHANGED <<hdl, dialect, pc>>
      /\ tp' = IF Kind("claude") \/ Kind("unified") THEN Split(t).tp ELSE tp
  BY DEF TextLine, Unused
<1>2. pc = "stream" /\ up'.begun = up.begun /\ pc' # "returned"
  <2>1. up \in UpRecords
    BY TypesNow
  <2> QED
    BY <1>1, <2>1 DEF Sends, UpRecords
<1>3. tp' \in {"before", "inside", "after"} /\ ShapeTypes /\ Written
  BY <1>1, <1>2, SplitTypes, NextTypes
<1>4. Split(t).clean \in BOOLEAN /\ Split(t).think \in BOOLEAN
  BY DEF Split, Texts
<1>5. CASE Kind("claude")
  <2> DEFINE x == Split(t)
             s == IF x.think THEN BlockDelta(State, "think") ELSE State
             r == IF x.clean THEN BlockDelta(s, "text") ELSE s
  <2>1. cl' = r.c /\ out' = r.o /\ br' = br
    <3>1. ~hdl.bridge /\ ~Kind("buffered") /\ ~Kind("converted")
      BY <1>5, KindFacts DEF Kind
    <3> QED
      BY <1>5, <3>1 DEF TextLine
  <2>2. ClaudeOK(cl, out) /\ (dialect = "repeated" => ClaudeCalls(cl, out))
    BY <1>3, <1>5 DEF Written
  <2> HIDE DEF x
  <2>3. ClaudeOK(r.c, r.o) /\ (ClaudeCalls(cl, out) => ClaudeCalls(r.c, r.o))
    BY <2>2, ClaudeText
  <2> HIDE DEF r
  <2> QED
    BY <1>1, <1>2, <1>3, <1>5, <2>1, <2>2, <2>3, ClaudeShape
<1>6. CASE hdl.bridge
  <2> DEFINE clean == Split(t).clean
             think == Split(t).think
             s == ensureInitialized(Bridge)
             r == IF clean THEN appendTextDelta(s) ELSE s
             z == IF think THEN appendReasoningDelta(r) ELSE r
  <2>1. br' = z.b /\ out' = z.o /\ cl' = cl
    <3>1. ~Kind("claude") /\ ~Kind("buffered") /\ ~Kind("converted") /\ hdl.bridge = TRUE
      BY <1>6, KindFacts, TypesNow DEF Kind
    <3> QED
      BY <3>1 DEF TextLine
  <2>2. BridgeOK(br, out) /\ (~Kind("anthropic") => BridgeCalls(br, out, up.begun, dialect))
    BY <1>3, <1>6 DEF Written
  <2> HIDE DEF clean, think
  <2>3. /\ BridgeOK(z.b, z.o)
        /\ \A begun, d : BridgeCalls(br, out, begun, d) => BridgeCalls(z.b, z.o, begun, d)
    <3>1. clean \in BOOLEAN /\ think \in BOOLEAN
      BY <1>4 DEF clean, think
    <3> QED
      BY <2>2, <3>1, BridgeText
  <2> HIDE DEF z
  <2> QED
    BY <1>1, <1>2, <1>3, <1>6, <2>1, <2>2, <2>3, BridgeShape
<1>7. CASE Kind("buffered")
  <2>1. cl' = TextPart /\ UNCHANGED <<br, out>>
    <3>1. ~Kind("claude") /\ ~hdl.bridge /\ ~Kind("converted")
      BY <1>7, KindFacts DEF Kind
    <3> QED
      BY <1>7, <3>1 DEF TextLine
  <2>2. BufferOK(cl, out, up.begun)
    BY <1>3, <1>7 DEF Written
  <2>3. cl.next \in Nat
    BY NextTypes
  <2>4. DOMAIN cl' = BlockRecord /\ cl'.text = 0 /\ cl'.tools = cl.tools /\ cl'.next = cl.next
    BY <2>1, <2>2 DEF BufferOK, BlockRecord, TextPart
  <2>5. BufferOK(cl', out', up'.begun)
    BY <1>2, <2>1, <2>2, <2>4 DEF BufferOK
  <2> QED
    BY <1>1, <1>2, <1>3, <1>7, <2>1, <2>3, <2>4, <2>5, BufferShape
<1>8. CASE PlainKind
  <2>1. out' = Append(out, Mark("chunk")) /\ UNCHANGED <<cl, br>>
    BY <1>8, KindFacts DEF TextLine, Converted
  <2> QED
    BY <1>1, <1>2, <1>3, <1>8, <2>1, PlainStep
<1> QED
  BY <1>1, <1>5, <1>6, <1>7, <1>8, KindFacts

LEMMA ThinkShape == ASSUME UsageInv, ShapeInv, ThinkLine PROVE ShapeInv'
<1>1. /\ ~IsProvider /\ ~Kind("buffered") /\ Sends(1, Plus(up.sent, "think"))
      /\ UNCHANGED <<hdl, dialect, pc, tp>>
  BY DEF ThinkLine, Unused
<1>2. pc = "stream" /\ up'.begun = up.begun /\ pc' # "returned"
  <2>1. up \in UpRecords
    BY TypesNow
  <2> QED
    BY <1>1, <2>1 DEF Sends, UpRecords
<1>3. tp' \in {"before", "inside", "after"} /\ ShapeTypes /\ Written
  BY <1>1, <1>2, NextTypes
<1>4. CASE Kind("claude")
  <2> DEFINE s == BlockDelta(State, "think")
  <2>1. cl' = s.c /\ out' = s.o /\ br' = br
    <3>1. ~hdl.bridge
      BY <1>4, KindFacts
    <3> QED
      BY <1>4, <3>1 DEF ThinkLine
  <2>2. ClaudeOK(cl, out) /\ (dialect = "repeated" => ClaudeCalls(cl, out))
    BY <1>3, <1>4 DEF Written
  <2>3. ClaudeOK(s.c, s.o) /\ (ClaudeCalls(cl, out) => ClaudeCalls(s.c, s.o))
    <3>1. s = BlockDelta([c |-> cl, o |-> out], "think")
      BY DEF State
    <3> HIDE DEF s
    <3> QED
      BY <2>2, <3>1, BlockDeltaOK
  <2> HIDE DEF s
  <2> QED
    BY <1>1, <1>2, <1>3, <1>4, <2>1, <2>2, <2>3, ClaudeShape
<1>5. CASE hdl.bridge
  <2> DEFINE r == ensureInitialized(Bridge)
             z == appendReasoningDelta(r)
  <2>1. br' = z.b /\ out' = z.o /\ cl' = cl
    BY <1>5, KindFacts DEF ThinkLine
  <2>2. BridgeOK(br, out) /\ (~Kind("anthropic") => BridgeCalls(br, out, up.begun, dialect))
    BY <1>3, <1>5 DEF Written
  <2>3. /\ BridgeOK(z.b, z.o)
        /\ \A begun, d : BridgeCalls(br, out, begun, d) => BridgeCalls(z.b, z.o, begun, d)
    <3>1. /\ r = (IF FALSE THEN appendTextDelta(r) ELSE r) /\ z = (IF TRUE THEN appendReasoningDelta(r) ELSE r)
          /\ r = ensureInitialized(Bridge)
      OBVIOUS
    <3> HIDE DEF r, z
    <3> QED
      BY <2>2, <3>1, BridgeText
  <2> HIDE DEF z
  <2> QED
    BY <1>1, <1>2, <1>3, <1>5, <2>1, <2>2, <2>3, BridgeShape
<1>6. CASE PlainKind
  <2>1. out' = Append(out, Mark("chunk")) /\ UNCHANGED <<cl, br>>
    BY <1>6, KindFacts DEF ThinkLine
  <2> QED
    BY <1>1, <1>2, <1>3, <1>6, <2>1, PlainStep
<1> QED
  BY <1>1, <1>4, <1>5, <1>6, KindFacts

LEMMA JunkShape == ASSUME UsageInv, ShapeInv, JunkLine PROVE ShapeInv'
<1>1. /\ ~IsProvider /\ Sends(0, up.sent) /\ UNCHANGED <<hdl, dialect, pc, tp, cl, br>>
      /\ out' = IF hdl.kind \in {"openai", "direct", "native"} THEN Append(out, Mark("raw")) ELSE out
  BY DEF JunkLine, Unused
<1>2. pc = "stream" /\ up'.begun = up.begun /\ pc' # "returned"
  <2>1. up \in UpRecords
    BY TypesNow
  <2> QED
    BY <1>1, <2>1 DEF Sends, UpRecords
<1>3. tp' \in {"before", "inside", "after"} /\ ShapeTypes /\ Written /\ cl'.next \in Nat
  BY <1>1, <1>2, NextTypes
<1>4. CASE Kind("claude")
  <2>1. out' = out
    BY <1>1, <1>4 DEF Kind
  <2> QED
    BY <1>1, <1>2, <1>3, <1>4, <2>1, ClaudeShape DEF Written
<1>5. CASE hdl.bridge
  <2>1. BridgeOK(br, out) /\ (~Kind("anthropic") => BridgeCalls(br, out, up.begun, dialect))
    BY <1>3, <1>5 DEF Written
  <2>2. "raw" \in BridgeMarks
    BY DEF BridgeMarks
  <2>3. /\ BridgeOK(br, Append(out, Mark("raw")))
        /\ \A begun, d : BridgeCalls(br, out, begun, d) => BridgeCalls(br, Append(out, Mark("raw")), begun, d)
    BY <2>1, <2>2, BridgeMarked
  <2>4. BridgeOK(br', out') /\ (~Kind("anthropic") => BridgeCalls(br', out', up'.begun, dialect))
    BY <1>1, <1>2, <2>1, <2>3
  <2> QED
    BY <1>1, <1>2, <1>3, <1>5, <2>4, BridgeShape
<1>6. CASE Kind("buffered")
  <2>1. out' = out
    BY <1>1, <1>6 DEF Kind
  <2>2. BufferOK(cl', out', up'.begun)
    BY <1>1, <1>2, <1>3, <1>6, <2>1 DEF Written
  <2> QED
    BY <1>1, <1>2, <1>3, <1>6, <2>1, <2>2, BufferShape
<1>7. CASE PlainKind
  BY <1>1, <1>2, <1>3, <1>7, PlainStep
<1> QED
  BY <1>1, <1>4, <1>5, <1>6, <1>7, KindFacts


\* What a delta of a tool call is given to the writers as.
GoodTool(t) ==
  /\ t.call \in Calls /\ t.args \in BOOLEAN /\ t.id \in UpIds \cup {NoId}
  /\ t.idx \in Nat \/ t.idx = None
  /\ t.id # NoId \/ t.idx # None

\* The next call, or one that has begun, as chat chunks number it.
Numbered(t, b, begun, d) ==
  /\ t.call \in begun \/ t.call = Len(b.order)
  /\ t.idx = IF d = "repeated" THEN None ELSE t.call
  /\ t.id = NoId \/ t.id = <<"up", t.call>>
  /\ d = "repeated" => t.id = <<"up", t.call>>

LEMMA UpIdFacts == \A k \in Calls : <<"up", k>> \in UpIds /\ <<"up", k>> # NoId /\ k \in Nat /\ k # None
BY StreamAssumption, NoneFacts DEF UpIds, NoId

LEMMA ToolRecord ==
  ASSUME dialect \in Dialects, NEW k \in Calls, NEW args \in BOOLEAN, NEW t, t = Tool(k, args)
  PROVE  /\ GoodTool(t) /\ t.call = k /\ t.args = args
         /\ t.id = NoId \/ t.id = <<"up", k>>
         /\ hdl.kind # "anthropic" => t.idx = IF dialect = "repeated" THEN None ELSE k
         /\ hdl.kind # "anthropic" /\ dialect = "repeated" => t.id = <<"up", k>>
<1>1. dialect \in {"openai", "repeated", "late", "bare"}
  BY StreamAssumption
<1>2. <<"up", k>> \in UpIds /\ <<"up", k>> # NoId /\ k \in Nat /\ k # None /\ 0 # None
  BY UpIdFacts, NoneFacts
<1>3. t.call = k /\ t.args = args
  BY DEF Tool
<1>4. CASE hdl.kind = "anthropic"
  <2>1. t.idx = 0 /\ t.id = IF k \notin up.begun THEN <<"up", k>> ELSE NoId
    BY <1>4 DEF Tool
  <2> QED
    BY <1>2, <1>3, <1>4, <2>1 DEF GoodTool
<1>5. CASE hdl.kind # "anthropic"
  <2>1. t.idx = IF dialect = "repeated" THEN None ELSE k
    BY <1>5 DEF Tool
  <2>2. (t.id = NoId \/ t.id = <<"up", k>>) /\ (dialect = "repeated" => t.id = <<"up", k>>)
    BY <1>1, <1>5 DEF Tool
  <2> QED
    BY <1>2, <1>3, <1>5, <2>1, <2>2 DEF GoodTool
<1> QED
  BY <1>4, <1>5

LEMMA CallPlace ==
  ASSUME NEW n \in Nat, NEW begun, begun = 0 .. (n - 1), NEW k \in Calls,
         \A j \in Calls : j < k => j \in begun
  PROVE  k \in begun \/ k = n
<1>1. k \in Nat /\ 0 .. k \subseteq Calls
  BY StreamAssumption
<1>2. ASSUME n < k PROVE FALSE
  <2>1. n \in Calls
    BY <1>1, <1>2
  <2> QED
    BY <1>2, <2>1
<1> QED
  BY <1>1, <1>2

LEMMA ClaudeTool ==
  ASSUME ClaudeOK(cl, out), NEW t, GoodTool(t), NEW r, r = ToolDelta(State, t)
  PROVE  /\ ClaudeOK(r.c, r.o)
         /\ ClaudeCalls(cl, out) /\ t.id = <<"up", t.call>> => ClaudeCalls(r.c, r.o)
<1> DEFINE s == [c |-> cl, o |-> out]
           id == IF t.id = NoId THEN <<"tool", s.c.next>> ELSE t.id
<1>1. r = ToolBlock(s, t, id)
  BY DEF ToolDelta, State
<1>2. t.call \in Calls /\ t.args \in BOOLEAN /\ s = [c |-> cl, o |-> out]
  BY DEF GoodTool
<1>3. t.id = <<"up", t.call>> => id = <<"up", t.call>>
  BY <1>2, UpIdFacts
<1> HIDE DEF id, s
<1>4. /\ ClaudeOK(r.c, r.o)
      /\ ClaudeCalls(cl, out) /\ id = <<"up", t.call>> => ClaudeCalls(r.c, r.o)
  BY <1>1, <1>2, ToolBlockOK
<1> QED
  BY <1>3, <1>4

LEMMA BridgeTool ==
  ASSUME BridgeOK(br, out), NEW t, GoodTool(t), NEW r, r = handleToolCalls(ensureInitialized(Bridge), t)
  PROVE  /\ BridgeOK(r.b, r.o)
         /\ \A begun, d : BridgeCalls(br, out, begun, d) /\ Numbered(t, br, begun, d) =>
              BridgeCalls(r.b, r.o, begun \cup {t.call}, d)
<1> DEFINE s == ensureInitialized(Bridge)
           b == s.b
           o == s.o
           p == FindCall(b, t)
           q == IF p = 0 THEN Len(b.order) + 1 ELSE p
           id == IF t.id # NoId THEN t.id ELSE IF p = 0 THEN <<"call", q>> ELSE b.order[q]
<1>1. s = ensureInitialized([b |-> br, o |-> out])
  BY DEF Bridge
<1>2. r = handleToolCalls(s, t)
  OBVIOUS
<1> HIDE DEF s
<1>3. /\ BridgeOK(b, o) /\ b.started /\ s = [b |-> b, o |-> o] /\ b.order = br.order
      /\ \A begun, d : BridgeCalls(br, out, begun, d) => BridgeCalls(b, o, begun, d)
  BY <1>1, EnsureInitialized
<1>4. r = handleToolCalls([b |-> b, o |-> o], t)
  BY <1>2, <1>3
<1>5. Placed(b, t, p, q, id)
  BY DEF Placed
<1>6. /\ t.call \in Calls /\ t.args \in BOOLEAN /\ t.id \in UpIds \cup {NoId}
      /\ t.idx \in Nat \/ t.idx = None
      /\ t.id # NoId \/ t.idx # None
  BY DEF GoodTool
<1>7. Table(b) /\ BridgeOK(b, o) /\ b.started
  BY <1>3 DEF BridgeOK
<1> HIDE DEF id, q, p, o, b
<1>8. /\ BridgeOK(r.b, r.o)
      /\ \E e : r.b = e.b /\ Ensured(b, o, t, e, p, q, id)
      /\ \A begun : ItemOfCall(o, begun) /\ q = t.call + 1 => ItemOfCall(r.o, begun \cup {t.call})
  BY <1>4, <1>5, <1>6, <1>7, HandleCall
<1>9. ASSUME NEW begun, NEW d, BridgeCalls(br, out, begun, d), Numbered(t, br, begun, d)
      PROVE  BridgeCalls(r.b, r.o, begun \cup {t.call}, d)
  <2>1. Numbering(b, begun, d) /\ ItemOfCall(o, begun)
    BY <1>3, <1>9 DEF BridgeCalls
  <2>2. PICK e : r.b = e.b /\ Ensured(b, o, t, e, p, q, id)
    BY <1>8
  <2>3. /\ t.call \in Nat /\ (t.call \in begun \/ t.call = Len(b.order))
        /\ t.idx = IF d = "repeated" THEN None ELSE t.call
        /\ t.id = NoId \/ t.id = <<"up", t.call>>
        /\ d = "repeated" => t.id = <<"up", t.call>>
    BY <1>3, <1>6, <1>9, UpIdFacts DEF Numbered
  <2>4. q = t.call + 1 /\ Numbering(e.b, begun \cup {t.call}, d)
    BY <1>5, <1>6, <1>7, <2>1, <2>2, <2>3, UpIdFacts, CallNumbered
  <2> QED
    BY <1>8, <2>1, <2>2, <2>4 DEF BridgeCalls
<1> QED
  BY <1>8, <1>9

LEMMA WritesCases ==
  ASSUME UsageInv, NEW t, Writes(t)
  PROVE  /\ Kind("claude") => /\ cl' = ToolDelta(State, t).c /\ out' = ToolDelta(State, t).o
                              /\ br' = br
         /\ hdl.bridge => /\ br' = handleToolCalls(ensureInitialized(Bridge), t).b
                          /\ out' = handleToolCalls(ensureInitialized(Bridge), t).o /\ cl' = cl
         /\ Kind("buffered") => cl' = FunctionCall(t) /\ UNCHANGED <<br, out>>
         /\ PlainKind => out' = Append(out, Mark("chunk")) /\ UNCHANGED <<cl, br>>
<1>1. CASE Kind("claude")
  <2>1. ~hdl.bridge /\ ~Kind("buffered") /\ ~PlainKind /\ ~Kind("converted")
    BY <1>1, KindFacts DEF Kind
  <2> QED
    BY <1>1, <2>1 DEF Writes
<1>2. CASE hdl.bridge
  <2>1. hdl.bridge = TRUE /\ ~Kind("claude") /\ ~Kind("buffered") /\ ~PlainKind /\ ~Kind("converted")
    BY <1>2, KindFacts, TypesNow DEF Kind
  <2> QED
    BY <2>1 DEF Writes
<1>3. CASE Kind("buffered")
  <2>1. ~Kind("claude") /\ ~hdl.bridge /\ ~PlainKind /\ ~Kind("converted")
    BY <1>3, KindFacts DEF Kind
  <2> QED
    BY <1>3, <2>1 DEF Writes
<1>4. CASE PlainKind
  <2>1. ~Kind("claude") /\ ~hdl.bridge /\ ~Kind("buffered")
    BY <1>4, KindFacts
  <2> QED
    BY <2>1 DEF Writes, Converted
<1> QED
  BY <1>1, <1>2, <1>3, <1>4

LEMMA BufferTool ==
  ASSUME NEW c, NEW o, NEW begun, BufferOK(c, o, begun), NEW k \in Calls, k \notin begun, NEW args \in BOOLEAN,
         \A j \in Calls : j < k => j \in begun, NEW d, d = [c EXCEPT !.tools = With(@, k, args)]
  PROVE  BufferOK(d, o, begun \cup {k}) /\ d.next = c.next
<1>1. /\ o = <<>> /\ DOMAIN c = BlockRecord /\ (c.text = None \/ c.text = 0)
      /\ DOMAIN c.tools = begun /\ (\A j \in begun : c.tools[j] \in BOOLEAN)
  BY DEF BufferOK
<1>2. PICK n \in Nat : begun = 0 .. (n - 1)
  BY DEF BufferOK
<1>3. k = n
  BY <1>2, CallPlace
<1>4. begun \cup {k} = 0 .. ((n + 1) - 1) /\ n + 1 \in Nat
  BY <1>2, <1>3
<1>5. DOMAIN d = BlockRecord /\ d.text = c.text /\ d.next = c.next /\ d.tools = With(c.tools, k, args)
  BY <1>1 DEF BlockRecord
<1>6. DOMAIN d.tools = begun \cup {k} /\ \A j \in begun \cup {k} : d.tools[j] \in BOOLEAN
  BY <1>1, <1>5 DEF With
<1> QED
  BY <1>1, <1>4, <1>5, <1>6 DEF BufferOK

\* A delta t of a call, when up'.begun is the calls that have begun.
LEMMA WritesShape ==
  ASSUME UsageInv, ShapeInv, NEW t, GoodTool(t), Writes(t), ~IsProvider, pc = "stream",
         UNCHANGED <<hdl, dialect, pc, tp>>,
         Kind("claude") /\ dialect = "repeated" => t.id = <<"up", t.call>>,
         hdl.bridge /\ ~Kind("anthropic") =>
           Numbered(t, br, up.begun, dialect) /\ up'.begun = up.begun \cup {t.call},
         Kind("buffered") => BufferOK(cl', out, up'.begun) /\ cl'.next = cl.next
  PROVE  ShapeInv'
<1>1. tp' \in {"before", "inside", "after"} /\ ShapeTypes /\ Written /\ pc' # "returned" /\ cl.next \in Nat
  BY NextTypes
<1>2. CASE Kind("claude")
  <2> DEFINE r == ToolDelta(State, t)
  <2>1. cl' = r.c /\ out' = r.o /\ br' = br
    BY <1>2, WritesCases
  <2>2. ClaudeOK(cl, out) /\ (dialect = "repeated" => ClaudeCalls(cl, out))
    BY <1>1, <1>2 DEF Written
  <2>3. /\ ClaudeOK(r.c, r.o)
        /\ ClaudeCalls(cl, out) /\ t.id = <<"up", t.call>> => ClaudeCalls(r.c, r.o)
    BY <2>2, ClaudeTool
  <2> HIDE DEF r
  <2>4. ClaudeOK(cl', out') /\ (dialect = "repeated" => ClaudeCalls(cl', out'))
    BY <1>2, <2>1, <2>2, <2>3
  <2> QED
    BY <1>1, <1>2, <2>1, <2>4, ClaudeShape
<1>3. CASE hdl.bridge
  <2> DEFINE r == handleToolCalls(ensureInitialized(Bridge), t)
  <2>1. br' = r.b /\ out' = r.o /\ cl' = cl
    BY <1>3, WritesCases
  <2>2. BridgeOK(br, out) /\ (~Kind("anthropic") => BridgeCalls(br, out, up.begun, dialect))
    BY <1>1, <1>3 DEF Written
  <2>3. /\ BridgeOK(r.b, r.o)
        /\ \A begun, d : BridgeCalls(br, out, begun, d) /\ Numbered(t, br, begun, d) =>
             BridgeCalls(r.b, r.o, begun \cup {t.call}, d)
    BY <2>2, BridgeTool
  <2> HIDE DEF r
  <2>4. BridgeOK(br', out') /\ (~Kind("anthropic") => BridgeCalls(br', out', up'.begun, dialect))
    BY <1>3, <2>1, <2>2, <2>3
  <2> QED
    BY <1>1, <1>3, <2>1, <2>4, BridgeShape
<1>4. CASE Kind("buffered")
  <2>1. UNCHANGED <<br, out>>
    BY <1>4, WritesCases
  <2>2. BufferOK(cl', out', up'.begun) /\ cl'.next \in Nat
    BY <1>1, <1>4, <2>1
  <2> QED
    BY <1>1, <1>4, <2>1, <2>2, BufferShape
<1>5. CASE PlainKind
  <2>1. out' = Append(out, Mark("chunk")) /\ UNCHANGED <<cl, br>>
    BY <1>5, WritesCases
  <2> QED
    BY <1>1, <1>5, <2>1, PlainStep
<1> QED
  BY <1>2, <1>3, <1>4, <1>5, KindFacts

LEMMA ToolShape ==
  ASSUME UsageInv, ShapeInv, NEW k \in Calls, NEW args \in BOOLEAN, ToolLine(k, args) PROVE ShapeInv'
<1> DEFINE t == Tool(k, args)
<1>1. /\ ~IsProvider /\ Writes(t) /\ UNCHANGED <<hdl, dialect, pc, tp>> /\ pc = "stream"
      /\ \A j \in Calls : j < k => j \in up.begun
      /\ Kind("buffered") => k \notin up.begun
  BY DEF ToolLine, Unused
<1>2. up'.begun = up.begun \cup {k}
  BY ToolFacts
<1>3. dialect \in Dialects /\ cl.next \in Nat /\ Written
  BY <1>1, NextTypes
<1>4. /\ GoodTool(t) /\ t.call = k /\ t.args = args
      /\ t.id = NoId \/ t.id = <<"up", k>>
      /\ hdl.kind # "anthropic" => t.idx = IF dialect = "repeated" THEN None ELSE k
      /\ hdl.kind # "anthropic" /\ dialect = "repeated" => t.id = <<"up", k>>
  BY <1>3, ToolRecord
<1> HIDE DEF t
<1>5. Kind("claude") /\ dialect = "repeated" => t.id = <<"up", t.call>>
  BY <1>4 DEF Kind
<1>6. ASSUME hdl.bridge, ~Kind("anthropic") PROVE Numbered(t, br, up.begun, dialect)
  <2>1. Table(br) /\ Numbering(br, up.begun, dialect)
    BY <1>3, <1>6 DEF Written, BridgeOK, BridgeCalls
  <2>2. Len(br.order) \in Nat /\ up.begun = 0 .. (Len(br.order) - 1)
    BY <2>1, TableFacts DEF Numbering
  <2>3. k \in up.begun \/ k = Len(br.order)
    BY <1>1, <2>2, CallPlace
  <2> QED
    BY <1>4, <1>6, <2>3 DEF Numbered, Kind
<1>7. ASSUME Kind("buffered") PROVE BufferOK(cl', out, up'.begun) /\ cl'.next = cl.next
  <2>1. cl' = [cl EXCEPT !.tools = With(@, k, args)]
    BY <1>1, <1>4, <1>7, WritesCases DEF FunctionCall
  <2>2. BufferOK(cl, out, up.begun) /\ k \notin up.begun
    BY <1>1, <1>3, <1>7 DEF Written
  <2> QED
    BY <1>1, <1>2, <2>1, <2>2, BufferTool
<1> QED
  BY <1>1, <1>2, <1>4, <1>5, <1>6, <1>7, WritesShape

LEMMA UsageLineFacts ==
  ASSUME UsageInv, UsageLine
  PROVE  up'.begun = up.begun /\ up'.done = up.done /\ pc = "stream" /\ ~IsProvider
BY TypesNow DEF UsageLine, UpRecords

LEMMA UsageLineShape == ASSUME UsageInv, ShapeInv, UsageLine PROVE ShapeInv'
<1>1. UNCHANGED <<hdl, dialect, pc, tp>> /\ ~IsProvider /\ pc = "stream" /\ up'.begun = up.begun
  BY UsageLineFacts DEF UsageLine
<1>2. /\ tp' \in {"before", "inside", "after"} /\ ShapeTypes /\ Written /\ pc' # "returned"
      /\ dialect \in Dialects /\ cl.next \in Nat
  BY <1>1, NextTypes
<1>3. CASE Kind("anthropic") /\ up.bare # None
  <2> DEFINE t == [call |-> up.bare, args |-> TRUE, id |-> <<"up", up.bare>>, idx |-> 0]
  <2>1. Writes(t)
    BY <1>3 DEF UsageLine
  <2>2. up.bare \in Calls
    BY <1>3, TypesNow DEF UpRecords
  <2>3. GoodTool(t)
    BY <2>2, UpIdFacts, NoneFacts DEF GoodTool
  <2>4. ~Kind("claude") /\ ~Kind("buffered")
    BY <1>3 DEF Kind
  <2> HIDE DEF t
  <2> QED
    BY <1>1, <1>3, <2>1, <2>3, <2>4, WritesShape
<1>4. CASE ~(Kind("anthropic") /\ up.bare # None)
  <2>1. CASE Kind("claude")
    <3>1. ~hdl.bridge /\ ~Kind("buffered") /\ ~Kind("converted")
      BY <2>1, KindFacts DEF Kind
    <3>2. out' = Append(out, Mark("usage")) /\ UNCHANGED <<cl, br>>
      BY <1>4, <2>1, <3>1 DEF UsageLine
    <3>3. ClaudeOK(cl, out) /\ (dialect = "repeated" => ClaudeCalls(cl, out))
      BY <1>2, <2>1 DEF Written
    <3>4. "usage" \in ClaudeMarks /\ Log(out, BlocksOf(cl), {}, ClaudeMarks) /\ out \in Seq(Events)
      BY <3>3 DEF ClaudeMarks, ClaudeOK, Log
    <3>5. Log(Append(out, Mark("usage")), BlocksOf(cl), {}, ClaudeMarks) /\ Mark("usage") \in Events
      <4> DEFINE E == {}
      <4>1. Log(out, BlocksOf(cl), E, ClaudeMarks)
        BY <3>4
      <4> HIDE DEF E
      <4>2. Log(Append(out, Mark("usage")), BlocksOf(cl), E, ClaudeMarks) /\ Mark("usage") \in Events
        BY <3>4, <4>1, LogMark
      <4> QED
        BY <4>2 DEF E
    <3>6. Mark("usage").call = None
      BY DEF Mark, Event
    <3>7. ClaudeOK(cl', out') /\ (dialect = "repeated" => ClaudeCalls(cl', out'))
      <4>1. ClaudeOK(cl, Append(out, Mark("usage")))
        BY <3>3, <3>5 DEF ClaudeOK
      <4>2. ClaudeCalls(cl, out) => ClaudeCalls(cl, Append(out, Mark("usage")))
        BY <3>4, <3>5, <3>6, CallsAppend
      <4> QED
        BY <3>2, <3>3, <4>1, <4>2
    <3> QED
      BY <1>1, <1>2, <2>1, <3>2, <3>7, ClaudeShape
  <2>2. CASE hdl.bridge
    <3> DEFINE s == ensureInitialized(Bridge)
    <3>1. hdl.bridge = TRUE /\ ~Kind("claude") /\ ~Kind("buffered") /\ ~Kind("converted")
      BY <2>2, KindFacts, TypesNow DEF Kind
    <3>2. br' = s.b /\ out' = s.o /\ cl' = cl
      BY <1>4, <3>1 DEF UsageLine
    <3>3. BridgeOK(br, out) /\ (~Kind("anthropic") => BridgeCalls(br, out, up.begun, dialect))
      BY <1>2, <2>2 DEF Written
    <3>4. /\ BridgeOK(s.b, s.o)
          /\ \A begun, d : BridgeCalls(br, out, begun, d) => BridgeCalls(s.b, s.o, begun, d)
      <4>1. s = ensureInitialized([b |-> br, o |-> out])
        BY DEF Bridge
      <4> HIDE DEF s
      <4> QED
        BY <3>3, <4>1, EnsureInitialized
    <3> HIDE DEF s
    <3>5. BridgeOK(br', out') /\ (~Kind("anthropic") => BridgeCalls(br', out', up'.begun, dialect))
      BY <1>1, <3>2, <3>3, <3>4
    <3> QED
      BY <1>1, <1>2, <2>2, <3>2, <3>5, BridgeShape
  <2>3. CASE Kind("buffered")
    <3>1. ~Kind("claude") /\ ~hdl.bridge /\ ~Kind("converted")
      BY <2>3, KindFacts DEF Kind
    <3>2. UNCHANGED <<cl, br, out>>
      BY <1>4, <2>3, <3>1 DEF UsageLine
    <3>3. BufferOK(cl', out', up'.begun) /\ cl'.next \in Nat
      BY <1>1, <1>2, <2>3, <3>2 DEF Written
    <3> QED
      BY <1>1, <1>2, <2>3, <3>2, <3>3, BufferShape
  <2>4. CASE PlainKind
    <3>1. ~Kind("claude") /\ ~hdl.bridge /\ ~Kind("buffered")
      BY <2>4, KindFacts
    <3>2. out' = Append(out, Mark("chunk")) /\ UNCHANGED <<cl, br>>
      BY <1>4, <3>1 DEF UsageLine, Converted
    <3> QED
      BY <1>1, <1>2, <2>4, <3>2, PlainStep
  <2> QED
    BY <1>1, <2>1, <2>2, <2>3, <2>4, KindFacts
<1> QED
  BY <1>3, <1>4
----------------------------------------------------------------------------
\* The ends of a stream.
MustKeepApart ==
  (hdl.bridge /\ hdl.kind # "anthropic") \/ Kind("buffered") \/ (Kind("claude") /\ dialect = "repeated")
MustBeHonest == hdl.kind \in {"claude", "direct", "openai", "converted"} /\ ~hdl.bridge

LEMMA CleanShape ==
  ASSUME ShapeTypes, ~IsProvider, NEW o, NEW u, NEW e, Returns(o, u, e), Clean(o),
         MustBeHonest /\ (SentIn(o, "stop") \/ SentIn(o, "done")) => up'.done \/ SentIn(o, "error"),
         ReadsOn /\ SentIn(o, "relayed") /\ SentIn(o, "done") => SentIn(o, "error"),
         MustKeepApart => CallsApart(o)
  PROVE  ShapeInv'
<1>1. pc' = "returned" /\ out' = o /\ UNCHANGED <<hdl, dialect, tp, cl, br>>
  BY DEF Returns
<1>2. o \in Seq(Events) /\ BracketedOf(o) /\ EndsOnce(o) /\ FinalsOf(o) = {}
  BY DEF Clean
<1>3. EndOK(out', fin', up'.done, up'.usage)
  BY <1>1, <1>2 DEF EndOK, MustBeHonest, MustKeepApart
<1> QED
  BY <1>1, <1>3, EndShape

LEMMA PlainEnd ==
  ASSUME PlainOK(out)
  PROVE  /\ Clean(out) /\ ~SentIn(out, "stop") /\ ~SentIn(out, "done")
         /\ Clean(Append(out, Mark("done")))
         /\ SentIn(Append(out, Mark("done")), "relayed") => SentIn(out, "relayed")
<1> DEFINE E == {}
<1>1. PlainMarks \cap EndMarks = {} /\ "completed" \notin PlainMarks
  BY DEF PlainMarks, EndMarks
<1>2. Log(out, E, E, PlainMarks) /\ out \in Seq(Events)
  BY DEF PlainOK, Log
<1> HIDE DEF E
<1>3. /\ Clean(out) /\ ~SentIn(out, "stop") /\ ~SentIn(out, "done")
      /\ Clean(Append(out, Mark("done")))
  BY <1>1, <1>2, CleanLog, CleanEnd
<1>4. Mark("done").e = "done" /\ Mark("done") \in Events
  BY MarkFacts DEF EventNames
<1> HIDE DEF Mark
<1>5. SentIn(Append(out, Mark("done")), "relayed") => SentIn(out, "relayed")
  BY <1>2, <1>4, AppendFacts DEF SentIn
<1> QED
  BY <1>3, <1>5

LEMMA BridgeEnd ==
  ASSUME UsageInv, Written, hdl.bridge
  PROVE  /\ Clean(out) /\ Clean(HandleDone) /\ Clean(out \o <<Mark("error"), Mark("done")>>)
         /\ hdl.kind # "anthropic" => CallsApart(out) /\ CallsApart(HandleDone)
<1>1. BridgeOK(br, out) /\ (~Kind("anthropic") => BridgeCalls(br, out, up.begun, dialect))
  BY DEF Written
<1>2. BridgeMarks \cap EndMarks = {} /\ "completed" \notin BridgeMarks
  BY DEF BridgeMarks, EndMarks
<1>3. Clean(out) /\ Clean(out \o <<Mark("error"), Mark("done")>>)
  <2> DEFINE E == {}
  <2>1. Log(out, Items(br), E, BridgeMarks)
    BY <1>1 DEF BridgeOK
  <2> HIDE DEF E
  <2> QED
    BY <1>2, <2>1, CleanLog, CleanError
<1>4. up.begun \subseteq Nat
  BY TypesNow, StreamAssumption DEF UpRecords
<1>5. /\ Clean(HandleDone)
      /\ \A begun : begun \subseteq Nat /\ ItemOfCall(out, begun) => CallsApart(HandleDone)
  BY <1>1, HandleDoneOK
<1>6. ASSUME hdl.kind # "anthropic" PROVE CallsApart(out) /\ CallsApart(HandleDone)
  <2>1. ItemOfCall(out, up.begun)
    BY <1>1, <1>6 DEF BridgeCalls, Kind
  <2> QED
    BY <1>4, <1>5, <2>1, BridgeApart
<1> QED
  BY <1>3, <1>5, <1>6

LEMMA BufferEnd ==
  ASSUME UsageInv, Written, Kind("buffered")
  PROVE  /\ Clean(out) /\ CallsApart(out)
         /\ WholeMessage \in Seq(Events) /\ BracketedOf(WholeMessage) /\ FinalsOf(WholeMessage) = {}
         /\ EndsTwice(WholeMessage, "stop") /\ CallsApart(WholeMessage)
<1>1. BufferOK(cl, out, up.begun)
  BY DEF Written
<1>2. PICK n \in Nat : up.begun = 0 .. (n - 1)
  BY <1>1 DEF BufferOK
<1>3. /\ DOMAIN cl.tools = 0 .. (n - 1) /\ (cl.text = None \/ cl.text = 0)
      /\ \A k \in 0 .. (n - 1) : cl.tools[k] \in BOOLEAN
  BY <1>1, <1>2 DEF BufferOK
<1>4. 0 .. (n - 1) \subseteq Calls
  BY <1>2, TypesNow DEF UpRecords
<1>5. /\ WholeMessage \in Seq(Events) /\ BracketedOf(WholeMessage) /\ FinalsOf(WholeMessage) = {}
      /\ EndsTwice(WholeMessage, "stop") /\ CallsApart(WholeMessage)
  BY <1>3, <1>4, WholeMessageOK
<1>6. out = <<>>
  BY <1>1 DEF BufferOK
<1>7. CallsApart(out)
  BY <1>6 DEF CallsApart
<1>8. Clean(out)
  <2> DEFINE E == {}
  <2>1. Log(out, E, E, PlainMarks)
    <3>1. PlainMarks \subseteq EventNames \ BlockNames
      BY DEF PlainMarks, EventNames, BlockNames
    <3> QED
      BY <1>6, <3>1, LogEmpty
  <2>2. PlainMarks \cap EndMarks = {} /\ "completed" \notin PlainMarks
    BY DEF PlainMarks, EndMarks
  <2> HIDE DEF E
  <2> QED
    BY <2>1, <2>2, CleanLog
<1> QED
  BY <1>5, <1>7, <1>8

LEMMA FinishShape ==
  ASSUME UsageInv, ShapeTypes, Written, ~IsProvider, NEW failed \in BOOLEAN, NEW done \in BOOLEAN,
         Finish(failed, done), up.done => up'.done, done => up'.done
  PROVE  ShapeInv'
<1>0. hdl.kind \in SharedKinds /\ hdl.bridge \in BOOLEAN
  BY TypesNow
<1>1. CASE Kind("claude")
  <2>1. Returns(MessageStop(done), Usage, FALSE)
    BY <1>1 DEF Finish, Kind
  <2>2. ClaudeOK(cl, out) /\ (dialect = "repeated" => ClaudeCalls(cl, out))
    BY <1>1 DEF Written
  <2>3. /\ Clean(MessageStop(done))
        /\ done \/ (~SentIn(MessageStop(done), "stop") /\ ~SentIn(MessageStop(done), "done"))
        /\ CallsApart(out) => CallsApart(MessageStop(done))
    BY <2>2, MessageStopOK
  <2>4. dialect = "repeated" => CallsApart(out)
    BY <2>2, ClaudeApart DEF ClaudeOK
  <2>5. MustKeepApart => CallsApart(MessageStop(done))
    BY <1>1, <2>3, <2>4, KindFacts DEF MustKeepApart
  <2>6. ~ReadsOn
    BY <1>1 DEF ReadsOn, Kind
  <2> QED
    BY <2>1, <2>3, <2>5, <2>6, CleanShape
<1>2. CASE hdl.bridge
  <2>1. hdl.kind \in {"unified", "openai", "anthropic"} /\ hdl.bridge = TRUE
    BY <1>0, <1>2, KindFacts
  <2>2. \E o \in {out, HandleDone} : \E u, e : Returns(o, u, e)
    <3>1. CASE hdl.kind = "unified"
      BY <2>1, <3>1 DEF Finish, Kind, UnifiedEnd
    <3>2. CASE hdl.kind = "openai"
      BY <2>1, <3>2 DEF Finish, Kind
    <3>3. CASE hdl.kind = "anthropic"
      BY <2>1, <3>3 DEF Finish, Kind
    <3> QED
      BY <2>1, <3>1, <3>2, <3>3
  <2>3. PICK o \in {out, HandleDone} : \E u, e : Returns(o, u, e)
    BY <2>2
  <2>4. Clean(o) /\ (hdl.kind # "anthropic" => CallsApart(o))
    BY <1>2, <2>3, BridgeEnd
  <2>5. MustKeepApart => CallsApart(o)
    BY <2>1, <2>4 DEF MustKeepApart, Kind
  <2>6. ~MustBeHonest /\ ~ReadsOn
    BY <1>2 DEF MustBeHonest, ReadsOn
  <2> QED
    BY <2>3, <2>4, <2>5, <2>6, CleanShape
<1>3. CASE Kind("buffered")
  <2>1. Returns(out, "none", TRUE) \/ Returns(WholeMessage, Usage, FALSE)
    BY <1>3 DEF Finish, Kind
  <2>2. /\ Clean(out) /\ CallsApart(out)
        /\ WholeMessage \in Seq(Events) /\ BracketedOf(WholeMessage) /\ FinalsOf(WholeMessage) = {}
        /\ EndsTwice(WholeMessage, "stop") /\ CallsApart(WholeMessage)
    BY <1>3, BufferEnd
  <2>3. ~MustBeHonest /\ ~ReadsOn
    BY <1>3 DEF MustBeHonest, ReadsOn, Kind
  <2>4. CASE Returns(out, "none", TRUE)
    BY <2>2, <2>3, <2>4, CleanShape
  <2>5. CASE Returns(WholeMessage, Usage, FALSE)
    <3>1. pc' = "returned" /\ out' = WholeMessage /\ UNCHANGED <<hdl, dialect, tp, cl, br>>
      BY <2>5 DEF Returns
    <3>2. EndOK(out', fin', up'.done, up'.usage)
      BY <1>3, <2>2, <2>3, <3>1 DEF EndOK, MustBeHonest
    <3> QED
      BY <3>1, <3>2, EndShape
  <2> QED
    BY <2>1, <2>4, <2>5
<1>4. CASE PlainKind
  <2>1. /\ ~hdl.bridge /\ ~Kind("claude") /\ ~Kind("buffered")
        /\ hdl.kind \in {"unified", "openai", "direct", "anthropic", "native", "converted"}
    BY <1>4, KindFacts
  <2>2. ~MustKeepApart
    BY <2>1 DEF MustKeepApart
  <2>3. PlainOK(out)
    BY <1>4 DEF Written
  <2> DEFINE z == Append(out, Mark("done"))
  <2>4. /\ Clean(out) /\ ~SentIn(out, "stop") /\ ~SentIn(out, "done") /\ Clean(z)
        /\ SentIn(z, "relayed") => SentIn(out, "relayed")
    BY <2>3, PlainEnd
  <2> HIDE DEF z
  <2>5. ASSUME NEW u, NEW e, Returns(out, u, e) PROVE ShapeInv'
    BY <2>2, <2>4, <2>5, CleanShape
  <2>6. ASSUME NEW u, NEW e, Returns(z, u, e), MustBeHonest => up'.done,
               ReadsOn => ~SentIn(out, "relayed")
        PROVE  ShapeInv'
    BY <2>2, <2>4, <2>6, CleanShape
  <2>7. CASE hdl.kind = "unified"
    <3>1. \/ \E u, e : Returns(out, u, e)
          \/ ~Sent("relayed") /\ Returns(z, Usage, FALSE)
      BY <2>1, <2>7 DEF Finish, Kind, UnifiedEnd, z
    <3>2. ~MustBeHonest /\ (Sent("relayed") <=> SentIn(out, "relayed"))
      BY <2>7 DEF MustBeHonest, Sent, SentIn
    <3> QED
      BY <2>5, <2>6, <3>1, <3>2
  <2>8. CASE hdl.kind = "openai"
    <3>1. Returns(out, Usage, FALSE)
      BY <2>1, <2>8 DEF Finish, Kind
    <3> QED
      BY <2>5, <3>1
  <2>9. CASE hdl.kind \in {"direct", "converted"}
    <3>1. Returns(out, Usage, failed) \/ (done /\ Returns(z, Usage, failed))
      BY <2>9 DEF Finish, Kind, ConvertedEnd, z
    <3>2. ~ReadsOn
      BY <2>9 DEF ReadsOn
    <3> QED
      BY <2>5, <2>6, <3>1, <3>2
  <2>10. CASE hdl.kind = "anthropic"
    <3>1. Returns(z, usage, FALSE) /\ ~MustBeHonest
      BY <2>1, <2>10 DEF Finish, Kind, z, MustBeHonest
    <3>2. ~ReadsOn
      BY <2>10 DEF ReadsOn
    <3> QED
      BY <2>6, <3>1, <3>2
  <2>11. CASE hdl.kind = "native"
    <3>1. Returns(out, usage, FALSE)
      BY <2>1, <2>11 DEF Finish, Kind
    <3> QED
      BY <2>5, <3>1
  <2> QED
    BY <2>1, <2>7, <2>8, <2>9, <2>10, <2>11
<1> QED
  BY <1>1, <1>2, <1>3, <1>4, KindFacts

LEMMA EndsShape ==
  ASSUME UsageInv, ShapeInv, ~IsProvider, pc = "stream", up' = up, NEW failed \in BOOLEAN,
         Finish(failed, FALSE)
  PROVE  ShapeInv'
<1>1. ShapeTypes /\ Written
  BY NextTypes
<1>2. FALSE \in BOOLEAN /\ (up.done => up'.done)
  OBVIOUS
<1> QED
  BY <1>1, <1>2, FinishShape

LEMMA DoneFacts ==
  ASSUME UsageInv, DoneLine
  PROVE  up'.done /\ up'.begun = up.begun /\ pc = "stream" /\ ~IsProvider
<1>1. up \in UpRecords
  BY TypesNow
<1> QED
  BY <1>1 DEF DoneLine, UpRecords

LEMMA DoneShape == ASSUME UsageInv, ShapeInv, DoneLine PROVE ShapeInv'
<1>1. up'.done /\ up'.begun = up.begun /\ pc = "stream" /\ ~IsProvider
  BY DoneFacts
<1>2. ShapeTypes /\ Written /\ tp \in {"before", "inside", "after"}
  BY <1>1, NextTypes
<1>3. CASE hdl.kind \in {"claude", "direct", "converted", "buffered"}
  <2>1. Finish(FALSE, TRUE) /\ TRUE \in BOOLEAN /\ FALSE \in BOOLEAN
    BY <1>3 DEF DoneLine
  <2> QED
    BY <1>1, <1>2, <2>1, FinishShape
<1>4. CASE hdl.kind \notin {"claude", "direct", "converted", "buffered"}
  <2>1. /\ UNCHANGED <<hdl, dialect, pc, tp, cl, br>>
        /\ out' = CASE hdl.kind \in {"anthropic", "native"} ->
                         IF hdl.bridge THEN out ELSE Append(out, Mark("chunk"))
                    [] hdl.bridge -> out
                    [] OTHER -> Append(out, Mark("relayed"))
    BY <1>4 DEF DoneLine, Unused
  <2>2. pc' # "returned" /\ tp' \in {"before", "inside", "after"}
    BY <1>1, <1>2, <2>1
  <2>3. CASE hdl.bridge
    <3>1. hdl.bridge = TRUE
      BY <2>3, TypesNow
    <3>2. out' = out
      BY <2>1, <3>1
    <3>3. BridgeOK(br', out') /\ (~Kind("anthropic") => BridgeCalls(br', out', up'.begun, dialect))
      BY <1>1, <1>2, <2>1, <2>3, <3>2 DEF Written
    <3> QED
      BY <1>2, <2>1, <2>2, <2>3, <3>3, BridgeShape
  <2>4. CASE PlainKind
    <3>1. ~hdl.bridge /\ hdl.kind \in {"unified", "openai", "direct", "anthropic", "native", "converted"}
      BY <2>4, KindFacts
    <3>2. CASE hdl.kind \in {"anthropic", "native"}
      <4>1. out' = Append(out, Mark("chunk"))
        BY <2>1, <3>1, <3>2
      <4> QED
        BY <1>1, <2>1, <2>2, <2>4, <4>1, PlainStep
    <3>3. CASE hdl.kind \in {"unified", "openai"}
      <4>1. out' = Append(out, Mark("relayed"))
        BY <2>1, <3>1, <3>3
      <4> QED
        BY <1>1, <2>1, <2>2, <2>4, <4>1, PlainStep
    <3> QED
      BY <1>4, <3>1, <3>2, <3>3
  <2> QED
    BY <1>1, <1>4, <2>3, <2>4, KindFacts DEF Kind
<1> QED
  BY <1>3, <1>4

LEMMA ErrorEnd ==
  ASSUME UsageInv, ShapeTypes, Written, PlainKind
  PROVE  /\ Clean(out \o <<Mark("error"), Mark("done")>>)
         /\ SentIn(out \o <<Mark("error"), Mark("done")>>, "error")
<1> DEFINE E == {}
<1>1. Log(out, E, E, PlainMarks)
  BY DEF Written, PlainOK
<1>2. PlainMarks \cap EndMarks = {} /\ "completed" \notin PlainMarks
  BY DEF PlainMarks, EndMarks
<1> HIDE DEF E
<1> QED
  BY <1>1, <1>2, CleanError

LEMMA QuotaShape == ASSUME UsageInv, ShapeInv, QuotaExceeded PROVE ShapeInv'
<1>1. /\ Kind("openai") /\ ~hdl.bridge /\ pc = "stream"
      /\ Returns(out \o <<Mark("error"), Mark("done")>>, Usage, TRUE)
  BY DEF QuotaExceeded, Sends
<1>2. ShapeTypes /\ Written
  BY <1>1, NextTypes
<1>3. PlainKind /\ ~IsProvider /\ ~MustKeepApart
  BY <1>1, TypesNow DEF PlainKind, Kind, SharedKinds, MustKeepApart
<1>4. /\ Clean(out \o <<Mark("error"), Mark("done")>>)
      /\ SentIn(out \o <<Mark("error"), Mark("done")>>, "error")
  BY <1>1, <1>2, <1>3, ErrorEnd
<1> QED
  BY <1>1, <1>2, <1>3, <1>4, CleanShape

LEMMA ErrorShape == ASSUME UsageInv, ShapeInv, ErrorLine PROVE ShapeInv'
<1>1. /\ Kind("anthropic") /\ pc = "stream"
      /\ Returns(out \o <<Mark("error"), Mark("done")>>, usage, FALSE)
  BY DEF ErrorLine, Sends
<1>2. ShapeTypes /\ Written
  BY <1>1, NextTypes
<1>3. ~IsProvider /\ ~MustKeepApart /\ ~MustBeHonest /\ ~ReadsOn /\ (~hdl.bridge => PlainKind)
  BY <1>1, TypesNow DEF PlainKind, Kind, SharedKinds, MustKeepApart, MustBeHonest, ReadsOn
<1>4. Clean(out \o <<Mark("error"), Mark("done")>>)
  <2>1. CASE hdl.bridge
    BY <1>2, <2>1, BridgeEnd
  <2>2. CASE ~hdl.bridge
    BY <1>1, <1>2, <1>3, <2>2, ErrorEnd
  <2> QED
    BY <2>1, <2>2
<1> QED
  BY <1>1, <1>2, <1>3, <1>4, CleanShape
----------------------------------------------------------------------------
\* The handlers of the providers.
LEMMA AppendFinals ==
  ASSUME NEW o \in Seq(Events), NEW v \in Events
  PROVE  /\ v.e \notin {"final", "final_usage"} => FinalsOf(Append(o, v)) = FinalsOf(o)
         /\ v.e \in {"final", "final_usage"} => FinalsOf(Append(o, v)) = FinalsOf(o) \cup {Len(o) + 1}
         /\ Len(o) + 1 \in DOMAIN Append(o, v) /\ Append(o, v)[Len(o) + 1] = v
         /\ \A i \in DOMAIN o : i \in DOMAIN Append(o, v) /\ Append(o, v)[i] = o[i]
<1> DEFINE n == Append(o, v)
           z == Len(o) + 1
<1>1. /\ Len(o) \in Nat /\ DOMAIN o = 1 .. Len(o) /\ DOMAIN n = 1 .. (Len(o) + 1)
      /\ \A i \in 1 .. Len(o) : n[i] = o[i]
      /\ n[Len(o) + 1] = v
  BY AppendFacts
<1> HIDE DEF n
<1>2. /\ z \in DOMAIN n /\ n[z] = v /\ (\A i \in DOMAIN o : i \in DOMAIN n /\ n[i] = o[i])
      /\ \A i \in DOMAIN n : i \in DOMAIN o \/ i = z
  BY <1>1
<1> HIDE DEF z
<1>3. /\ v.e \notin {"final", "final_usage"} => FinalsOf(n) = FinalsOf(o)
      /\ v.e \in {"final", "final_usage"} => FinalsOf(n) = FinalsOf(o) \cup {z}
  BY <1>2 DEF FinalsOf
<1> QED
  BY <1>2, <1>3 DEF n, z

\* One final chunk, with the usage if it was given.
OneFinal(o, given) == \E i \in DOMAIN o : FinalsOf(o) = {i} /\ (o[i].e = "final_usage" <=> given)

LEMMA OneFinalAppend ==
  ASSUME NEW o \in Seq(Events), NEW v \in Events, v.e \notin {"final", "final_usage"}, NEW given \in BOOLEAN,
         OneFinal(o, given)
  PROVE  OneFinal(Append(o, v), given)
<1>1. PICK i \in DOMAIN o : FinalsOf(o) = {i} /\ (o[i].e = "final_usage" <=> given)
  BY DEF OneFinal
<1>2. i \in DOMAIN Append(o, v) /\ Append(o, v)[i] = o[i] /\ FinalsOf(Append(o, v)) = {i}
  BY <1>1, AppendFinals
<1> QED
  BY <1>1, <1>2 DEF OneFinal

LEMMA FinalLog ==
  ASSUME NEW f, NEW o, NEW given, FinalOK(f, o, given), NEW E, E = {}
  PROVE  /\ Log(o, E, E, FinalMarks) /\ o \in Seq(Events)
         /\ \A e \in FinalMarks : /\ Log(Append(o, Mark(e)), E, E, FinalMarks)
                                  /\ Mark(e) \in Events /\ Mark(e).e = e
<1>1. Log(o, E, E, FinalMarks) /\ o \in Seq(Events)
  BY DEF FinalOK, Log
<1>2. ASSUME NEW e \in FinalMarks
      PROVE  /\ Log(Append(o, Mark(e)), E, E, FinalMarks) /\ Mark(e) \in Events /\ Mark(e).e = e
  <2>1. Log(Append(o, Mark(e)), E, E, FinalMarks) /\ Mark(e) \in Events
    BY <1>1, LogMark
  <2> QED
    BY <2>1 DEF Mark, Event
<1> QED
  BY <1>1, <1>2

LEMMA FinalAppend ==
  ASSUME NEW f, NEW o, NEW given, FinalOK(f, o, given)
  PROVE  FinalOK(f, Append(o, Mark("chunk")), given)
<1> DEFINE E == {}
           v == Mark("chunk")
<1>1. E = {} /\ "chunk" \in FinalMarks
  BY DEF FinalMarks
<1> HIDE DEF E
<1>2. /\ Log(Append(o, v), E, E, FinalMarks) /\ o \in Seq(Events) /\ v \in Events /\ v.e = "chunk"
  BY <1>1, FinalLog
<1> HIDE DEF v
<1>3. /\ FinalsOf(Append(o, v)) = FinalsOf(o)
      /\ \A i \in DOMAIN o : i \in DOMAIN Append(o, v) /\ Append(o, v)[i] = o[i]
  BY <1>2, AppendFinals
<1>4. FinalOK(f, Append(o, v), given)
  BY <1>1, <1>2, <1>3 DEF FinalOK
<1> QED
  BY <1>4 DEF v

\* The finalizer, fed by an event: what it sends has the usage.
LEMMA EmitOK ==
  ASSUME NEW f, NEW given \in BOOLEAN, FinalOK(f, out, given), Finalizes, NEW r, r = emitFinal(f, FALSE)
  PROVE  FinalOK(r.f, r.o, given)
<1> DEFINE v == Mark("final_usage")
           E == {}
<1>1. f \in FinRecords
  BY DEF FinalOK
<1>2. CASE f.sent \/ ~f.id \/ ~(f.stop /\ f.meta)
  <2>1. r.f = f /\ r.o = out
    BY <1>2 DEF emitFinal
  <2> QED
    BY <2>1
<1>3. CASE ~(f.sent \/ ~f.id \/ ~(f.stop /\ f.meta))
  <2>1. r.f = [f EXCEPT !.sent = TRUE] /\ r.o = Append(out, v)
    BY <1>3 DEF emitFinal
  <2>2. E = {} /\ "final_usage" \in FinalMarks
    BY DEF FinalMarks
  <2> HIDE DEF E
  <2>3. /\ Log(Append(out, v), E, E, FinalMarks) /\ out \in Seq(Events)
        /\ v \in Events /\ v.e = "final_usage"
    BY <2>2, FinalLog
  <2> HIDE DEF v
  <2>4. FinalsOf(out) = {} /\ ~f.sent /\ f.id /\ f.meta /\ (f.meta <=> given)
    BY <1>3 DEF FinalOK
  <2>5. /\ FinalsOf(Append(out, v)) = {Len(out) + 1}
        /\ Len(out) + 1 \in DOMAIN Append(out, v) /\ Append(out, v)[Len(out) + 1] = v
    BY <2>3, <2>4, AppendFinals
  <2>6. r.f \in FinRecords /\ r.f.sent /\ r.f.id /\ r.f.meta
    BY <1>1, <2>1, <2>4 DEF FinRecords
  <2>7. \E i \in DOMAIN r.o : FinalsOf(r.o) = {i} /\ r.o[i].e = "final_usage"
    <3> DEFINE z == Len(out) + 1
    <3>1. z \in DOMAIN r.o /\ FinalsOf(r.o) = {z} /\ r.o[z] = v
      BY <2>1, <2>5
    <3> HIDE DEF z
    <3> QED
      BY <2>3, <3>1
  <2>8. Log(r.o, {}, {}, FinalMarks) /\ (r.f.meta <=> given)
    BY <2>1, <2>2, <2>3, <2>4, <2>6
  <2> QED
    BY <2>6, <2>7, <2>8 DEF FinalOK
<1> QED
  BY <1>2, <1>3

\* The finalizer, when the stream is closed.
LEMMA CloseOK ==
  ASSUME NEW given \in BOOLEAN, FinalOK(fin, out, given), Finalizes, NEW r, r = emitFinal(fin, TRUE),
         NEW E, E = {}
  PROVE  /\ Log(r.o, E, E, FinalMarks)
         /\ (FinalsOf(r.o) = {} /\ ~r.f.id) \/ OneFinal(r.o, given)
<1>1. fin \in FinRecords /\ (fin.meta <=> given) /\ Log(out, E, E, FinalMarks) /\ out \in Seq(Events)
  BY FinalLog DEF FinalOK
<1>2. CASE fin.sent \/ ~fin.id
  <2>1. r.f = fin /\ r.o = out
    BY <1>2 DEF emitFinal
  <2>2. CASE fin.sent
    <3>1. fin.meta /\ \E i \in DOMAIN out : FinalsOf(out) = {i} /\ out[i].e = "final_usage"
      BY <2>2 DEF FinalOK
    <3> QED
      BY <1>1, <2>1, <3>1 DEF OneFinal
  <2>3. CASE ~fin.sent
    <3>1. FinalsOf(out) = {}
      BY <2>3 DEF FinalOK
    <3> QED
      BY <1>1, <1>2, <2>1, <2>3, <3>1
  <2> QED
    BY <2>2, <2>3
<1>3. CASE ~(fin.sent \/ ~fin.id)
  <2> DEFINE e == IF fin.meta THEN "final_usage" ELSE "final"
             v == Mark(e)
  <2>1. r.f = [fin EXCEPT !.sent = TRUE] /\ r.o = Append(out, v)
    BY <1>3 DEF emitFinal
  <2>2. e \in FinalMarks /\ (e = "final_usage" <=> given) /\ e \in {"final", "final_usage"}
    BY <1>1 DEF FinalMarks
  <2> HIDE DEF e
  <2>3. /\ Log(Append(out, v), E, E, FinalMarks) /\ v \in Events /\ v.e = e
    BY <2>2, FinalLog
  <2> HIDE DEF v
  <2>4. FinalsOf(out) = {}
    BY <1>3 DEF FinalOK
  <2>5. /\ FinalsOf(Append(out, v)) = {Len(out) + 1}
        /\ Len(out) + 1 \in DOMAIN Append(out, v) /\ Append(out, v)[Len(out) + 1] = v
    BY <1>1, <2>2, <2>3, <2>4, AppendFinals
  <2>6. OneFinal(Append(out, v), given)
    BY <2>2, <2>3, <2>5 DEF OneFinal
  <2> QED
    BY <2>1, <2>3, <2>6
<1> QED
  BY <1>2, <1>3

LEMMA ProviderClose ==
  ASSUME UsageInv, IsProvider, NEW o, NEW E, E = {}, Log(o, E, E, FinalMarks), NEW f, NEW done, NEW given \in BOOLEAN,
         (FinalsOf(o) = {} /\ ~(Finalizes /\ f.id)) \/ OneFinal(o, given)
  PROVE  EndOK(Append(o, Mark("done")), f, done, given)
<1> DEFINE v == Mark("done")
           n == Append(o, v)
           N == FinalMarks \cup {"done"}
<1>1. v \in Events /\ v.e = "done"
  BY MarkFacts DEF EventNames
<1>2. /\ hdl.kind \notin SharedKinds /\ ~hdl.bridge
      /\ ~Kind("claude") /\ ~Kind("buffered")
  BY KindFacts
<1>3. o \in Seq(Events) /\ {"stop", "done"} \cap FinalMarks = {}
  BY DEF Log, FinalMarks
<1>4. Log(n, E, E, N)
  <2>1. FinalMarks \subseteq N /\ N \subseteq EventNames \ BlockNames /\ "done" \in N
    BY DEF FinalMarks, EventNames, BlockNames
  <2> HIDE DEF N
  <2>2. Log(o, E, E, N)
    BY <2>1, LogMarks
  <2> QED
    BY <2>1, <2>2, LogMark
<1> HIDE DEF v
<1>5. BracketedOf(n) /\ n \in Seq(Events)
  <2>1. n \in Seq(Events)
    BY <1>4 DEF Log
  <2> HIDE DEF n, N
  <2>2. BracketedOf(n)
    BY <1>4, LogBracketed
  <2> QED
    BY <2>1, <2>2
<1>6. EndsOnce(n)
  BY <1>1, <1>3, LogEndsOnce
<1>7. \/ FinalsOf(n) = {} /\ ~(Finalizes /\ f.id)
      \/ \E i \in DOMAIN n : FinalsOf(n) = {i} /\ (n[i].e = "final_usage" <=> given)
  <2>1. CASE FinalsOf(o) = {} /\ ~(Finalizes /\ f.id)
    BY <1>1, <1>3, <2>1, AppendFinals
  <2>2. CASE OneFinal(o, given)
    <3>1. OneFinal(n, given)
      BY <1>1, <1>3, <2>2, OneFinalAppend
    <3> QED
      BY <3>1 DEF OneFinal
  <2> QED
    BY <2>1, <2>2
<1> HIDE DEF n
<1>8. EndOK(n, f, done, given)
  BY <1>2, <1>5, <1>6, <1>7 DEF EndOK, ReadsOn, SharedKinds
<1> QED
  BY <1>8 DEF n, v

LEMMA ProviderStop ==
  ASSUME UsageInv, IsProvider, NEW given \in BOOLEAN, FinalOK(fin, out, given), NEW done
  PROVE  EndOK(out, fin, done, given)
<1> DEFINE E == {}
<1>1. Log(out, E, E, FinalMarks) /\ out \in Seq(Events)
  BY FinalLog
<1>2. /\ hdl.kind \notin SharedKinds /\ ~hdl.bridge
      /\ ~Kind("claude") /\ ~Kind("buffered")
  BY KindFacts
<1>3. {"stop", "done"} \cap FinalMarks = {}
  BY DEF FinalMarks
<1>4. Mark("done") \in Events
  BY MarkFacts DEF EventNames
<1> HIDE DEF E
<1>5. BracketedOf(out) /\ EndsOnce(out) /\ ~SentIn(out, "done")
  BY <1>1, <1>3, <1>4, LogBracketed, LogEndsOnce
<1>6. FinalsOf(out) = {} \/ \E i \in DOMAIN out : FinalsOf(out) = {i} /\ (out[i].e = "final_usage" <=> given)
  <2>1. CASE fin.sent
    <3>1. /\ (fin.meta <=> given) /\ fin.meta
          /\ \E i \in DOMAIN out : FinalsOf(out) = {i} /\ out[i].e = "final_usage"
      BY <2>1 DEF FinalOK
    <3> QED
      BY <3>1
  <2>2. CASE ~fin.sent
    BY <2>2 DEF FinalOK
  <2> QED
    BY <2>1, <2>2
<1> QED
  BY <1>1, <1>2, <1>5, <1>6 DEF EndOK, ReadsOn, SharedKinds

LEMMA ProviderNow ==
  ASSUME UsageInv, ShapeInv, IsProvider, pc # "returned"
  PROVE  /\ ShapeTypes /\ FinalOK(fin, out, up.usage) /\ up.usage \in BOOLEAN /\ fin \in FinRecords
         /\ Consistent(Prof)
<1>1. ShapeTypes /\ FinalOK(fin, out, up.usage)
  BY NextTypes DEF Written
<1>2. fin \in FinRecords
  BY <1>1 DEF FinalOK
<1> QED
  BY <1>1, <1>2, TypesNow DEF UpRecords

LEMMA StopShape ==
  ASSUME UsageInv, ShapeInv, IsProvider, pc # "returned", NEW u, NEW e, Returns(out, u, e), up'.usage = up.usage
  PROVE  ShapeInv'
<1>1. ShapeTypes /\ FinalOK(fin, out, up.usage) /\ up.usage \in BOOLEAN
  BY ProviderNow
<1>2. EndOK(out, fin, up'.done, up.usage)
  BY <1>1, ProviderStop
<1>3. pc' = "returned" /\ out' = out /\ fin' = fin /\ UNCHANGED <<hdl, dialect, tp, cl, br>>
  BY DEF Returns
<1>4. EndOK(out', fin', up'.done, up'.usage)
  BY <1>2, <1>3
<1> QED
  BY <1>1, <1>3, <1>4, EndShape

LEMMA FailsShape ==
  ASSUME UsageInv, ShapeInv, IsProvider, pc # "returned", ProviderFails, up'.usage = up.usage
  PROVE  ShapeInv'
<1>1. \E u, e : Returns(out, u, e)
  BY DEF ProviderFails
<1> QED
  BY <1>1, StopShape

LEMMA CloseShape ==
  ASSUME UsageInv, ShapeInv, IsProvider, pc # "returned", NEW o, FinalizeOnClose(o), up'.usage = up.usage,
         o = out \/ o = Append(out, Mark("chunk"))
  PROVE  ShapeInv'
<1>1. ShapeTypes /\ FinalOK(fin, out, up.usage) /\ up.usage \in BOOLEAN
  BY ProviderNow
<1>2. pc' = "returned" /\ UNCHANGED <<hdl, dialect, tp, cl, br>>
  BY DEF FinalizeOnClose
<1> DEFINE E == {}
<1>3. E = {}
  OBVIOUS
<1> HIDE DEF E
<1>4. CASE Finalizes
  <2> DEFINE r == emitFinal(fin, TRUE)
  <2>1. fin' = r.f /\ out' = Append(r.o, Mark("done"))
    BY <1>4 DEF FinalizeOnClose
  <2>2. /\ Log(r.o, E, E, FinalMarks)
        /\ (FinalsOf(r.o) = {} /\ ~r.f.id) \/ OneFinal(r.o, up.usage)
    BY <1>1, <1>3, <1>4, CloseOK
  <2> HIDE DEF r
  <2>3. EndOK(Append(r.o, Mark("done")), r.f, up'.done, up.usage)
    BY <1>1, <1>3, <2>2, ProviderClose
  <2>4. EndOK(out', fin', up'.done, up'.usage)
    BY <2>1, <2>3
  <2> QED
    BY <1>1, <1>2, <2>4, EndShape
<1>5. CASE ~Finalizes
  <2> DEFINE z == IF Prof.trailer THEN Append(o, Mark("chunk")) ELSE o
  <2>1. fin' = fin /\ out' = Append(z, Mark("done"))
    BY <1>5 DEF FinalizeOnClose
  <2>2. FinalOK(fin, o, up.usage)
    BY <1>1, FinalAppend
  <2>3. FinalOK(fin, z, up.usage)
    BY <2>2, FinalAppend
  <2> HIDE DEF z
  <2>4. Log(z, E, E, FinalMarks)
    BY <1>3, <2>3, FinalLog
  <2>5. FinalsOf(z) = {}
    BY <1>5, <2>3 DEF FinalOK
  <2>6. EndOK(Append(z, Mark("done")), fin, up'.done, up.usage)
    BY <1>1, <1>3, <1>5, <2>4, <2>5, ProviderClose
  <2>7. EndOK(out', fin', up'.done, up'.usage)
    BY <2>1, <2>6
  <2> QED
    BY <1>1, <1>2, <2>7, EndShape
<1> QED
  BY <1>4, <1>5

LEMMA SentFacts ==
  ASSUME UsageInv, NEW f, NEW d, ProviderSends(f, d)
  PROVE  /\ pc = "stream" /\ IsProvider /\ (f = "usage" => up'.usage = TRUE)
         /\ f # "usage" => up'.usage = up.usage
BY TypesNow DEF ProviderSends, UpRecords

LEMMA ProviderLineShape ==
  ASSUME UsageInv, ShapeInv, NEW f \in {"text", "think", "args"}, ProviderLine(f) PROVE ShapeInv'
<1>1. ProviderSends(f, Plus(up.sent, f)) /\ UNCHANGED <<hdl, dialect, pc, tp, cl, br, fin>>
  BY DEF ProviderLine, Unused
<1>2. pc = "stream" /\ IsProvider /\ up'.usage = up.usage
  BY <1>1, SentFacts
<1>3. out' = out \/ out' = Append(out, Mark("chunk"))
  BY DEF ProviderLine, Rendered
<1>4. ShapeTypes /\ FinalOK(fin, out, up.usage)
  BY <1>2, ProviderNow
<1>5. FinalOK(fin, out', up.usage)
  BY <1>3, <1>4, FinalAppend
<1>6. FinalOK(fin', out', up'.usage) /\ pc' # "returned"
  BY <1>1, <1>2, <1>5
<1> QED
  BY <1>1, <1>2, <1>4, <1>6, ProviderShape

LEMMA SetIDShape == ASSUME UsageInv, ShapeInv, SetID PROVE ShapeInv'
<1>1. /\ IsProvider /\ pc = "stream" /\ fin' = [fin EXCEPT !.id = TRUE]
      /\ UNCHANGED <<hdl, dialect, pc, tp, cl, br, out, up>>
  BY DEF SetID
<1>2. ShapeTypes /\ FinalOK(fin, out, up.usage) /\ fin \in FinRecords /\ up.usage \in BOOLEAN
  BY <1>1, ProviderNow
<1>3. fin' \in FinRecords /\ fin'.id /\ fin'.meta = fin.meta /\ fin'.sent = fin.sent
  BY <1>1, <1>2 DEF FinRecords
<1>4. FinalOK(fin', out, up.usage)
  BY <1>2, <1>3 DEF FinalOK
<1>5. FinalOK(fin', out', up'.usage) /\ pc' # "returned"
  BY <1>1, <1>4
<1> QED
  BY <1>1, <1>2, <1>5, ProviderShape

LEMMA ProviderUsageShape == ASSUME UsageInv, ShapeInv, ProviderUsage PROVE ShapeInv'
<1>1. ProviderSends("usage", up.sent) /\ UNCHANGED <<hdl, dialect, pc, tp, cl, br>>
  BY DEF ProviderUsage
<1>2. pc = "stream" /\ IsProvider /\ up'.usage = TRUE
  BY <1>1, SentFacts
<1>3. ShapeTypes /\ FinalOK(fin, out, up.usage) /\ fin \in FinRecords /\ up.usage \in BOOLEAN
  BY <1>2, ProviderNow
<1>4. CASE Finalizes
  <2> DEFINE f == [fin EXCEPT !.meta = TRUE]
             r == emitFinal(f, FALSE)
  <2>1. fin' = r.f /\ out' = r.o
    BY <1>4 DEF ProviderUsage
  <2>2. f \in FinRecords /\ f.meta /\ f.id = fin.id /\ f.sent = fin.sent
    BY <1>3 DEF FinRecords
  <2> HIDE DEF f
  <2>3. FinalOK(f, out, TRUE)
    BY <1>3, <1>4, <2>2 DEF FinalOK
  <2>4. FinalOK(r.f, r.o, TRUE)
    BY <1>4, <2>3, EmitOK
  <2> HIDE DEF r
  <2>5. FinalOK(fin', out', up'.usage) /\ pc' # "returned"
    BY <1>1, <1>2, <2>1, <2>4
  <2> QED
    BY <1>1, <1>2, <1>3, <2>5, ProviderShape
<1>5. CASE ~Finalizes
  <2>1. fin' = fin /\ (out' = out \/ out' = Append(out, Mark("chunk")))
    BY <1>5 DEF ProviderUsage, Rendered
  <2>2. FinalOK(fin, out', up.usage)
    BY <1>3, <2>1, FinalAppend
  <2>3. FinalOK(fin', out', up'.usage) /\ pc' # "returned"
    BY <1>1, <1>2, <1>5, <2>1, <2>2 DEF FinalOK
  <2> QED
    BY <1>1, <1>2, <1>3, <2>3, ProviderShape
<1> QED
  BY <1>4, <1>5

LEMMA ProviderDoneShape == ASSUME UsageInv, ShapeInv, ProviderDone PROVE ShapeInv'
<1>1. ProviderSends("done", up.sent)
  BY DEF ProviderDone
<1>2. pc = "stream" /\ IsProvider /\ up'.usage = up.usage
  <2> DEFINE f == "done"
  <2>1. ProviderSends(f, up.sent) /\ f # "usage"
    BY <1>1
  <2> HIDE DEF f
  <2> QED
    BY <2>1, SentFacts
<1>3. /\ ShapeTypes /\ FinalOK(fin, out, up.usage) /\ fin \in FinRecords /\ up.usage \in BOOLEAN
      /\ Prof.done \in {"last", "render", "chunk", "final"}
  BY <1>2, ProviderNow DEF Consistent
<1>4. CASE Prof.done \in {"last", "render"}
  <2>1. FinalizeOnClose(Append(out, Mark("chunk"))) \/ FinalizeOnClose(out)
    BY <1>4 DEF ProviderDone
  <2> QED
    BY <1>2, <2>1, CloseShape
<1>5. CASE Prof.done = "chunk"
  <2>1. out' = Append(out, Mark("chunk")) /\ UNCHANGED <<hdl, dialect, pc, tp, cl, br, fin>>
    BY <1>5 DEF ProviderDone, Unused
  <2>2. FinalOK(fin', out', up'.usage) /\ pc' # "returned"
    BY <1>2, <1>3, <2>1, FinalAppend
  <2> QED
    BY <1>2, <1>3, <2>1, <2>2, ProviderShape
<1>6. CASE Prof.done = "final"
  <2> DEFINE f == [fin EXCEPT !.stop = TRUE]
             r == emitFinal(f, FALSE)
  <2>1. fin' = r.f /\ out' = r.o /\ UNCHANGED <<hdl, dialect, pc, tp, cl, br>>
    BY <1>6 DEF ProviderDone
  <2>2. f \in FinRecords /\ f.meta = fin.meta /\ f.id = fin.id /\ f.sent = fin.sent
    BY <1>3 DEF FinRecords
  <2> HIDE DEF f
  <2>3. FinalOK(f, out, up.usage) /\ Finalizes
    BY <1>3, <1>6, <2>2 DEF FinalOK, Finalizes
  <2>4. FinalOK(r.f, r.o, up.usage)
    BY <1>3, <2>3, EmitOK
  <2> HIDE DEF r
  <2>5. FinalOK(fin', out', up'.usage) /\ pc' # "returned"
    BY <1>2, <2>1, <2>4
  <2> QED
    BY <1>2, <1>3, <2>1, <2>5, ProviderShape
<1> QED
  BY <1>3, <1>4, <1>5, <1>6

LEMMA ProviderJunkShape == ASSUME UsageInv, ShapeInv, ProviderJunk PROVE ShapeInv'
<1>1. IsProvider /\ Sends(0, up.sent)
  BY DEF ProviderJunk
<1>2. pc = "stream" /\ up'.usage = up.usage
  BY <1>1, TypesNow DEF Sends, UpRecords
<1>3. /\ ShapeTypes /\ FinalOK(fin, out, up.usage)
      /\ Prof.junk \in {"skip", "ends", "stop", "error"}
  BY <1>1, <1>2, ProviderNow DEF Consistent
<1>4. CASE Prof.junk = "skip"
  <2>1. UNCHANGED <<hdl, dialect, pc, tp, cl, br, fin, out>>
    BY <1>4 DEF ProviderJunk, Unused
  <2>2. FinalOK(fin', out', up'.usage) /\ pc' # "returned"
    BY <1>2, <1>3, <2>1
  <2> QED
    BY <1>1, <1>2, <1>3, <2>1, <2>2, ProviderShape
<1>5. CASE Prof.junk = "ends"
  <2>1. FinalizeOnClose(out)
    BY <1>5 DEF ProviderJunk
  <2> QED
    BY <1>1, <1>2, <2>1, CloseShape
<1>6. CASE Prof.junk = "stop"
  <2>1. Returns(out, ProviderUsageOf, FALSE)
    BY <1>6 DEF ProviderJunk
  <2> QED
    BY <1>1, <1>2, <2>1, StopShape
<1>7. CASE Prof.junk = "error"
  <2>1. ProviderFails
    BY <1>7 DEF ProviderJunk
  <2> QED
    BY <1>1, <1>2, <2>1, FailsShape
<1> QED
  BY <1>3, <1>4, <1>5, <1>6, <1>7

LEMMA ProviderEndShape ==
  ASSUME UsageInv, ShapeInv, IsProvider, pc # "returned", up' = up,
         ProviderFails \/ FinalizeOnClose(out) \/ Returns(out, ProviderUsageOf, FALSE)
  PROVE  ShapeInv'
BY FailsShape, CloseShape, StopShape

LEMMA ProviderWholeShape == ASSUME UsageInv, ShapeInv, ProviderWhole PROVE ShapeInv'
<1>1. /\ IsProvider /\ Prof.whole /\ pc = "stream" /\ pc' = "returned"
      /\ out' = out \o <<Mark("chunk"), Mark("done")>>
      /\ UNCHANGED <<hdl, dialect, tp, cl, br, fin>>
  BY DEF ProviderWhole
<1>2. up'.usage = up.usage
  BY TypesNow DEF ProviderWhole, UpRecords
<1>3. ShapeTypes /\ FinalOK(fin, out, up.usage) /\ up.usage \in BOOLEAN /\ ~Finalizes
  BY <1>1, ProviderNow DEF Consistent, Finalizes
<1> DEFINE z == Append(out, Mark("chunk"))
           E == {}
<1>4. E = {}
  OBVIOUS
<1> HIDE DEF E
<1>5. FinalOK(fin, z, up.usage)
  BY <1>3, FinalAppend
<1>6. out' = Append(z, Mark("done"))
  <2>1. out \in Seq(Events) /\ Mark("chunk") \in Events /\ Mark("done") \in Events
    BY <1>3, MarkFacts DEF ShapeTypes, EventNames
  <2> QED
    BY <1>1, <2>1, AppendTwo
<1> HIDE DEF z
<1>7. Log(z, E, E, FinalMarks)
  BY <1>4, <1>5, FinalLog
<1>8. FinalsOf(z) = {}
  BY <1>3, <1>5 DEF FinalOK
<1>9. EndOK(Append(z, Mark("done")), fin, up'.done, up.usage)
  BY <1>1, <1>3, <1>4, <1>7, <1>8, ProviderClose
<1>10. EndOK(out', fin', up'.done, up'.usage)
  BY <1>1, <1>2, <1>6, <1>9
<1> QED
  BY <1>1, <1>3, <1>10, EndShape

\* zhipu's error is followed by two [DONE].
LEMMA ProviderQuotaShape == ASSUME UsageInv, ShapeInv, ProviderQuota PROVE ShapeInv'
<1> DEFINE o == out \o <<Mark("error"), Mark("done")>>
           E == {}
           x == Append(out, Mark("error"))
           y == Append(x, Mark("done"))
           z == Append(y, Mark("done"))
           M == FinalMarks \cup {"error"}
           N == M \cup {"done"}
<1>1. IsProvider /\ Prof.tracks /\ ProviderSends("text", Plus(up.sent, "text")) /\ FinalizeOnClose(o)
  BY DEF ProviderQuota
<1>2. pc = "stream" /\ up'.usage = up.usage
  <2> DEFINE f == "text"
  <2>1. ProviderSends(f, Plus(up.sent, "text")) /\ f # "usage"
    BY <1>1
  <2> HIDE DEF f
  <2> QED
    BY <2>1, SentFacts
<1>3. /\ ShapeTypes /\ FinalOK(fin, out, up.usage) /\ up.usage \in BOOLEAN
      /\ ~Finalizes /\ Prof.trailer = FALSE
  BY <1>1, <1>2, ProviderNow DEF Consistent, Finalizes
<1>4. Kind("zhipu")
  BY <1>1, TracksZhipu DEF Prof, IsProvider, Kind
<1>5. /\ pc' = "returned" /\ UNCHANGED <<hdl, dialect, tp, cl, br>> /\ fin' = fin
      /\ out' = Append(o, Mark("done"))
  BY <1>1, <1>3 DEF FinalizeOnClose
<1>6. /\ "error" \in EventNames /\ "done" \in EventNames /\ E = {}
      /\ FinalMarks \subseteq M /\ M \subseteq N /\ "error" \in M /\ "done" \in N
      /\ M \subseteq EventNames \ BlockNames /\ N \subseteq EventNames \ BlockNames
      /\ {"stop", "done"} \cap M = {}
  BY DEF EventNames, BlockNames, FinalMarks
<1> HIDE DEF E, M, N
<1>7. /\ Mark("error") \in Events /\ Mark("done") \in Events /\ Mark("error").e = "error"
      /\ Mark("done").e = "done"
  BY <1>6, MarkFacts
<1>8. out \in Seq(Events) /\ x \in Seq(Events) /\ y \in Seq(Events) /\ z \in Seq(Events)
  BY <1>3, <1>7, AppendFacts DEF ShapeTypes
<1>9. out' = z
  BY <1>5, <1>7, <1>8, AppendTwo
<1>10. Log(x, E, E, M)
  <2>1. Log(out, E, E, M)
    BY <1>3, <1>6, FinalLog, LogMarks
  <2> QED
    BY <1>6, <2>1, LogMark
<1> HIDE DEF x
<1>11. Log(z, E, E, N)
  <2>1. Log(x, E, E, N)
    BY <1>6, <1>10, LogMarks
  <2>2. Log(y, E, E, N)
    BY <1>6, <2>1, LogMark
  <2> HIDE DEF y
  <2> QED
    BY <1>6, <2>2, LogMark
<1>12. EndsTwice(z, "done")
  BY <1>6, <1>7, <1>10, LogEndsTwice
<1>13. SentIn(z, "error")
  <2>1. SentIn(x, "error")
    BY <1>7, <1>8, AppendSent DEF x
  <2> QED
    BY <1>7, <1>8, <2>1, AppendSent
<1>14. FinalsOf(z) = {}
  <2>1. FinalsOf(out) = {}
    BY <1>3 DEF FinalOK
  <2>2. FinalsOf(x) = {}
    BY <1>7, <1>8, <2>1, AppendFinals DEF x
  <2>3. FinalsOf(y) = {}
    BY <1>7, <1>8, <2>2, AppendFinals
  <2> QED
    BY <1>7, <1>8, <2>3, AppendFinals
<1> HIDE DEF y, z
<1>15. BracketedOf(z)
  BY <1>11, LogBracketed
<1>16. hdl.kind \notin SharedKinds /\ ~hdl.bridge /\ ~Kind("claude") /\ ~Kind("buffered")
  BY <1>1, KindFacts
<1>17. EndOK(z, fin', up'.done, up'.usage)
  BY <1>3, <1>4, <1>8, <1>12, <1>13, <1>14, <1>15, <1>16 DEF EndOK, ReadsOn, SharedKinds
<1> QED
  BY <1>3, <1>5, <1>9, <1>17, EndShape

LEMMA ProviderPolledShape ==
  ASSUME UsageInv, ShapeInv, NEW ok \in BOOLEAN, ProviderPolled(ok) PROVE ShapeInv'
<1>1. pc = "poll" /\ up' = up
  BY DEF ProviderPolled
<1>2. IsProvider
  BY <1>1 DEF UsageInv, StreamTypes
<1>3. CASE ok
  <2>1. pc' = "stream" /\ UNCHANGED <<hdl, dialect, tp, cl, br, fin, out>>
    BY <1>3 DEF ProviderPolled
  <2>2. ShapeTypes /\ FinalOK(fin, out, up.usage)
    BY <1>1, <1>2, ProviderNow
  <2>3. FinalOK(fin', out', up'.usage) /\ pc' # "returned"
    BY <1>1, <2>1, <2>2
  <2> QED
    BY <1>2, <2>1, <2>2, <2>3, ProviderShape
<1>4. CASE ~ok
  <2>1. ProviderFails
    BY <1>4 DEF ProviderPolled
  <2> QED
    BY <1>1, <1>2, <2>1, ProviderEndShape
<1> QED
  BY <1>3, <1>4
----------------------------------------------------------------------------
\* The invariant of the shape holds throughout.
LEMMA ShapeInit == StreamInit => ShapeInv
<1> SUFFICES ASSUME StreamInit PROVE ShapeInv
  OBVIOUS
<1> DEFINE E == {}
<1>0. UsageInv
  BY UsageInit
<1>1. /\ dialect \in Dialects /\ tp = "before" /\ pc # "returned"
      /\ cl = [next |-> 0, think |-> None, text |-> None, tools |-> <<>>]
      /\ br = [started |-> FALSE, calls |-> <<>>, byIndex |-> <<>>, order |-> <<>>, states |-> <<>>]
      /\ fin = [id |-> FALSE, stop |-> FALSE, meta |-> FALSE, sent |-> FALSE]
      /\ out = (IF hdl.kind = "claude" THEN <<Mark("start")>> ELSE <<>>)
      /\ up.begun = {} /\ up.done = FALSE /\ up.usage = FALSE
  BY DEF StreamInit
<1>2. Table(br) /\ Len(br.order) = 0 /\ ~br.started
  <2>1. /\ DOMAIN br = BridgeRecord /\ br.started = FALSE /\ br.calls = <<>> /\ br.byIndex = <<>>
        /\ br.order = <<>> /\ br.states = <<>>
    BY <1>1 DEF BridgeRecord
  <2>2. /\ br.order \in Seq(CallIds) /\ br.states \in Seq([id : CallIds, index : Nat])
        /\ Len(br.order) = 0 /\ Len(br.states) = 0 /\ DOMAIN br.calls = {} /\ DOMAIN br.byIndex = {}
        /\ 1 .. Len(br.order) = {}
    BY <2>1
  <2> QED
    BY <2>1, <2>2 DEF Table
<1>3. /\ PlainMarks \subseteq EventNames \ BlockNames /\ BridgeMarks \subseteq EventNames \ BlockNames
      /\ ClaudeMarks \subseteq EventNames \ BlockNames /\ FinalMarks \subseteq EventNames \ BlockNames
      /\ "start" \in ClaudeMarks
  BY DEF PlainMarks, BridgeMarks, ClaudeMarks, FinalMarks, EventNames, BlockNames
<1>4. \A M : M \subseteq EventNames \ BlockNames => Log(<<>>, E, E, M)
  BY LogEmpty
<1>5. E = {}
  OBVIOUS
<1> HIDE DEF E
<1>6. Log(<<Mark("start")>>, E, E, ClaudeMarks)
  <2>1. <<Mark("start")>> = Append(<<>>, Mark("start")) /\ Log(<<>>, E, E, ClaudeMarks)
    BY <1>3, <1>4
  <2>2. Log(Append(<<>>, Mark("start")), E, E, ClaudeMarks)
    BY <1>3, <2>1, LogMark
  <2> QED
    BY <2>1, <2>2
<1>7. out \in Seq(Events)
  <2>1. <<>> \in Seq(Events) /\ <<Mark("start")>> \in Seq(Events)
    BY <1>3, <1>4, <1>6 DEF Log
  <2> QED
    BY <1>1, <2>1
<1>8. ShapeTypes
  BY <1>1, <1>2, <1>7 DEF ShapeTypes
<1>9. ASSUME Kind("claude") PROVE ClaudeOK(cl, out) /\ ClaudeCalls(cl, out)
  <2>1. out = <<Mark("start")>>
    BY <1>1, <1>9 DEF Kind
  <2>2. /\ DOMAIN cl = BlockRecord /\ cl.next = 0 /\ cl.think = None /\ cl.text = None
        /\ DOMAIN cl.tools = {}
    BY <1>1 DEF BlockRecord
  <2>3. BlocksOf(cl) = E
    BY <1>5, <2>2 DEF BlocksOf
  <2>4. ClaudeOK(cl, out)
    BY <1>5, <1>6, <2>1, <2>2, <2>3 DEF ClaudeOK
  <2>5. \A i \in DOMAIN out : out[i].call = None
    BY <2>1 DEF Mark, Event
  <2> QED
    BY <2>4, <2>5 DEF ClaudeCalls
<1>10. ~Kind("claude") => out = <<>>
  BY <1>1 DEF Kind
<1>11. ASSUME hdl.bridge PROVE BridgeOK(br, out) /\ BridgeCalls(br, out, up.begun, dialect)
  <2>1. out = <<>>
    BY <1>0, <1>10, <1>11, KindFacts
  <2>2. Items(br) = E
    BY <1>2, <1>5 DEF Items
  <2>3. BridgeOK(br, out)
    BY <1>2, <1>3, <1>4, <1>5, <2>1, <2>2 DEF BridgeOK
  <2>4. DOMAIN br.byIndex = {} /\ up.begun = 0 .. (Len(br.order) - 1) /\ up.begun = {} /\ 1 .. Len(br.order) = {}
    BY <1>1, <1>2
  <2>5. Numbering(br, up.begun, dialect)
    BY <2>4 DEF Numbering
  <2>6. ItemOfCall(out, up.begun)
    BY <2>1 DEF ItemOfCall
  <2> QED
    BY <2>3, <2>5, <2>6 DEF BridgeCalls
<1>12. ASSUME Kind("buffered") PROVE BufferOK(cl, out, up.begun)
  <2>1. out = <<>>
    BY <1>0, <1>10, <1>12, KindFacts
  <2>2. DOMAIN cl = BlockRecord /\ cl.text = None /\ DOMAIN cl.tools = {}
    BY <1>1 DEF BlockRecord
  <2>3. up.begun = 0 .. (0 - 1) /\ up.begun = {}
    BY <1>1
  <2> QED
    BY <2>1, <2>2, <2>3 DEF BufferOK
<1>13. ASSUME IsProvider PROVE FinalOK(fin, out, up.usage)
  <2>1. out = <<>>
    BY <1>0, <1>10, <1>13, KindFacts
  <2>2. Log(out, {}, {}, FinalMarks) /\ FinalsOf(out) = {}
    BY <1>3, <1>4, <1>5, <2>1 DEF FinalsOf
  <2>3. fin \in FinRecords /\ fin.meta = FALSE /\ fin.sent = FALSE
    BY <1>1 DEF FinRecords
  <2> QED
    BY <1>1, <2>2, <2>3 DEF FinalOK
<1>14. ASSUME PlainKind PROVE PlainOK(out)
  <2>1. out = <<>>
    BY <1>0, <1>10, <1>14, KindFacts
  <2> QED
    BY <1>3, <1>4, <1>5, <2>1 DEF PlainOK
<1>15. Written
  BY <1>9, <1>11, <1>12, <1>13, <1>14 DEF Written
<1> QED
  BY <1>1, <1>8, <1>15 DEF ShapeInv

LEMMA ShapeNext == UsageInv /\ ShapeInv /\ [StreamNext]_streamVars => ShapeInv'
<1> SUFFICES ASSUME UsageInv, ShapeInv, [StreamNext]_streamVars PROVE ShapeInv'
  OBVIOUS
<1>1. CASE UNCHANGED <<hdl, dialect, pc, tp, cl, br, fin, out, up>>
  BY <1>1 DEF ShapeInv, ShapeTypes, Written, EndOK, ReadsOn, PlainOK, FinalOK, PlainKind, Kind, IsProvider,
              Finalizes, Prof
<1>2. ASSUME NEW t \in Texts, TextLine(t) PROVE ShapeInv'
  BY <1>2, TextShape
<1>3. ASSUME NEW k \in Calls, NEW args \in BOOLEAN, ToolLine(k, args) PROVE ShapeInv'
  BY <1>3, ToolShape
<1>4. CASE ThinkLine \/ UsageLine \/ JunkLine \/ DoneLine \/ QuotaExceeded \/ ErrorLine
  BY <1>4, ThinkShape, UsageLineShape, JunkShape, DoneShape, QuotaShape, ErrorShape
<1>5. ASSUME NEW failed \in BOOLEAN, UpstreamEnds(failed) PROVE ShapeInv'
  BY <1>5, EndsShape DEF UpstreamEnds
<1>6. ASSUME NEW f \in {"text", "think", "args"}, ProviderLine(f) PROVE ShapeInv'
  BY <1>6, ProviderLineShape
<1>7. CASE SetID \/ ProviderUsage \/ ProviderDone \/ ProviderJunk \/ ProviderWhole \/ ProviderQuota
  BY <1>7, SetIDShape, ProviderUsageShape, ProviderDoneShape, ProviderJunkShape, ProviderWholeShape,
     ProviderQuotaShape
<1>8. ASSUME NEW failed \in BOOLEAN, ProviderEnds(failed) PROVE ShapeInv'
  <2>1. IsProvider /\ pc = "stream" /\ up' = up /\ (ProviderFails \/ FinalizeOnClose(out))
    BY <1>8 DEF ProviderEnds
  <2> QED
    BY <2>1, ProviderEndShape
<1>9. ASSUME NEW ok \in BOOLEAN, ProviderPolled(ok) PROVE ShapeInv'
  BY <1>9, ProviderPolledShape
<1>10. CASE ClientLeaves
  BY <1>1, <1>10 DEF ClientLeaves
<1>11. CASE NextCancelled
  <2>1. ~IsProvider /\ pc = "stream" /\ up' = up /\ Finish(TRUE, FALSE) /\ TRUE \in BOOLEAN
    BY <1>11 DEF NextCancelled
  <2> QED
    BY <2>1, EndsShape
<1>12. CASE ProviderCancelled
  <2>1. /\ IsProvider /\ pc # "returned" /\ up' = up
        /\ ProviderFails \/ FinalizeOnClose(out) \/ Returns(out, ProviderUsageOf, FALSE)
    BY <1>12 DEF ProviderCancelled
  <2> QED
    BY <2>1, ProviderEndShape
<1>13. CASE UNCHANGED streamVars
  BY <1>1, <1>13 DEF streamVars
<1> QED
  BY <1>2, <1>3, <1>4, <1>5, <1>6, <1>7, <1>8, <1>9, <1>10, <1>11, <1>12, <1>13 DEF StreamNext

\* In every state the stream is what a handler may have written when it returns.
LEMMA ShapeEnd ==
  ASSUME UsageInv, ShapeInv
  PROVE  EndOK(out, fin, up.done, up.usage)
<1>1. CASE pc = "returned"
  BY <1>1 DEF ShapeInv
<1>2. CASE pc # "returned"
  <2>1. ShapeTypes /\ Written /\ out \in Seq(Events)
    BY <1>2, NextTypes
  <2>2. ASSUME ~IsProvider, Clean(out),
               MustBeHonest /\ (SentIn(out, "stop") \/ SentIn(out, "done")) => up.done \/ SentIn(out, "error"),
               ReadsOn => ~SentIn(out, "done"), MustKeepApart => CallsApart(out)
        PROVE  EndOK(out, fin, up.done, up.usage)
    BY <2>2 DEF EndOK, Clean, MustBeHonest, MustKeepApart
  <2>3. CASE Kind("claude")
    <3>1. ClaudeOK(cl, out) /\ (dialect = "repeated" => ClaudeCalls(cl, out))
      BY <2>1, <2>3 DEF Written
    <3>2. Clean(out) /\ ~SentIn(out, "stop") /\ ~SentIn(out, "done")
      <4> DEFINE E == {}
      <4>1. Log(out, BlocksOf(cl), E, ClaudeMarks)
        BY <3>1 DEF ClaudeOK
      <4>2. ClaudeMarks \cap EndMarks = {} /\ "completed" \notin ClaudeMarks
        BY DEF ClaudeMarks, EndMarks
      <4> HIDE DEF E
      <4> QED
        BY <4>1, <4>2, CleanLog
    <3>3. dialect = "repeated" => CallsApart(out)
      BY <3>1, ClaudeApart DEF ClaudeOK
    <3>4. ~IsProvider /\ (MustKeepApart => CallsApart(out))
      BY <2>3, <3>3, KindFacts DEF MustKeepApart
    <3> QED
      BY <2>2, <3>2, <3>4
  <2>4. CASE hdl.bridge
    <3>1. Clean(out) /\ (hdl.kind # "anthropic" => CallsApart(out))
      BY <2>1, <2>4, BridgeEnd
    <3>2. ~IsProvider /\ ~MustBeHonest /\ ~ReadsOn /\ (MustKeepApart => CallsApart(out))
      BY <2>4, <3>1, KindFacts DEF MustKeepApart, MustBeHonest, ReadsOn
    <3> QED
      BY <2>2, <3>1, <3>2
  <2>5. CASE Kind("buffered")
    <3>1. Clean(out) /\ CallsApart(out) /\ ~IsProvider
      BY <2>1, <2>5, BufferEnd, KindFacts
    <3>2. ~MustBeHonest /\ ~ReadsOn
      BY <2>5 DEF MustBeHonest, ReadsOn, Kind
    <3> QED
      BY <2>2, <3>1, <3>2
  <2>6. CASE PlainKind
    <3>1. PlainOK(out)
      BY <2>1, <2>6 DEF Written
    <3>2. Clean(out) /\ ~SentIn(out, "stop") /\ ~SentIn(out, "done")
      BY <3>1, PlainEnd
    <3>3. ~IsProvider /\ ~MustKeepApart
      BY <2>6, KindFacts DEF MustKeepApart
    <3> QED
      BY <2>2, <3>2, <3>3
  <2>7. CASE IsProvider
    BY <1>2, <2>7, ProviderNow, ProviderStop
  <2> QED
    BY <2>3, <2>4, <2>5, <2>6, <2>7, KindFacts
<1> QED
  BY <1>1, <1>2

LEMMA ShapeTypeOK ==
  ASSUME UsageInv, ShapeInv
  PROVE  StreamTypeOK
<1>1. dialect \in Dialects /\ tp \in {"before", "inside", "after"} /\ cl.next \in Nat /\ out \in Seq(Events)
  BY NextTypes
<1>2. /\ hdl \in Handlers /\ pc \in {"poll", "stream", "returned"} /\ err \in BOOLEAN /\ gone \in BOOLEAN
      /\ usage \in {"none", "given", "computed", "prompt"}
  BY DEF UsageInv, StreamTypes
<1>3. \A i \in DOMAIN out : out[i].b \in Nat \cup {None} /\ out[i].call \in Calls \cup {None}
  <2>1. \A i \in DOMAIN out : out[i] \in Events
    BY <1>1
  <2> QED
    BY <2>1 DEF Events
<1>4. \A f \in DOMAIN Deltas : count[f] \in 0 .. up.sent[f]
  <2>1. DOMAIN Deltas = {"text", "think", "args"}
    BY DEF Deltas
  <2>2. /\ count.text \in Nat /\ count.think \in Nat /\ count.args \in Nat
        /\ up.sent.text \in Nat /\ up.sent.think \in Nat /\ up.sent.args \in Nat
    BY TypesNow
  <2>3. count.text <= up.sent.text /\ count.think <= up.sent.think /\ count.args <= up.sent.args
    BY DEF UsageInv, CountedOnce
  <2>4. count.text \in 0 .. up.sent.text /\ count.think \in 0 .. up.sent.think /\ count.args \in 0 .. up.sent.args
    BY <2>2, <2>3
  <2> QED
    BY <2>1, <2>4
<1> QED
  BY <1>1, <1>2, <1>3, <1>4 DEF StreamTypeOK

LEMMA EndProperties ==
  ASSUME EndOK(out, fin, up.done, up.usage)
  PROVE  Bracketed /\ NothingAfterEnd /\ FinalChunk /\ HonestEnd /\ CallsKeptApart
<1>1. out \in Seq(Events) /\ BracketedOf(out)
  BY DEF EndOK
<1>2. Bracketed
  BY <1>1 DEF Bracketed, BracketedOf, EventsAt, Sent, SentIn
<1>3. NothingAfterEnd
  <2>0. ReadsOn /\ Sent("relayed") /\ Sent("done") => Sent("error")
    BY DEF EndOK, SentIn, Sent
  <2>1. CASE EndsOnce(out)
    BY <2>0, <2>1 DEF EndsOnce, NothingAfterEnd
  <2>2. CASE Kind("buffered") /\ EndsTwice(out, "stop")
    BY <2>0, <2>2 DEF EndsTwice, NothingAfterEnd
  <2>3. CASE Kind("zhipu") /\ SentIn(out, "error") /\ EndsTwice(out, "done")
    BY <2>0, <2>3 DEF EndsTwice, NothingAfterEnd, SentIn, Sent
  <2> QED
    BY <2>1, <2>2, <2>3 DEF EndOK
<1>4. FinalChunk
  <2>1. CASE FinalsOf(out) = {} /\ ~(IsProvider /\ Finalizes /\ fin.id /\ SentIn(out, "done"))
    <3>1. Cardinality(FinalsOf(out)) = 0
      BY <2>1, FS_EmptySet
    <3> QED
      BY <2>1, <3>1 DEF FinalChunk, FinalsOf, SentIn, Sent
  <2>2. CASE \E i \in DOMAIN out : FinalsOf(out) = {i} /\ (out[i].e = "final_usage" <=> up.usage)
    <3>1. PICK i \in DOMAIN out : FinalsOf(out) = {i} /\ (out[i].e = "final_usage" <=> up.usage)
      BY <2>2
    <3>2. Cardinality(FinalsOf(out)) = 1
      BY <3>1, FS_Singleton
    <3>3. Sent("final_usage") <=> out[i].e = "final_usage"
      <4>1. \A j \in DOMAIN out : out[j].e = "final_usage" => j = i
        BY <3>1 DEF FinalsOf
      <4> QED
        BY <4>1 DEF Sent
    <3>4. Sent("final_usage") <=> up.usage
      BY <3>1, <3>3
    <3> QED
      BY <3>2, <3>4 DEF FinalChunk, FinalsOf
  <2> QED
    BY <2>1, <2>2 DEF EndOK
<1>5. HonestEnd
  BY DEF EndOK, HonestEnd, Sent, SentIn
<1>6. CallsKeptApart
  BY DEF EndOK, CallsKeptApart, CallsApart
<1> QED
  BY <1>2, <1>3, <1>4, <1>5, <1>6

\* Whatever the handler, the upstream's numbering of tool calls and the lines
\* that come, what the client gets is well formed: every content block or
\* output item is started once, written to only while it is open and closed at
\* the end, nothing follows an end that the gateway sends and none follows an end
\* of the upstream that was passed on, a finalizer's last chunk is
\* sent once and has the usage, and an end is not made up where the handler
\* promises it (claude_convert.go, response_stream_bridge.go, finalizer.go).
THEOREM ShapeTheorem == StreamSpec => []WellFormed
<1>1. StreamInit => UsageInv /\ ShapeInv
  BY UsageInit, ShapeInit
<1>2. UsageInv /\ ShapeInv /\ [StreamNext]_streamVars => (UsageInv /\ ShapeInv)'
  BY UsageNext, ShapeNext
<1>3. UsageInv /\ ShapeInv => WellFormed
  BY ShapeEnd, ShapeTypeOK, EndProperties DEF WellFormed
<1> QED
  BY <1>1, <1>2, <1>3, PTL DEF StreamSpec

\* The deltas of an upstream tool call reach the client as one block or item of
\* their own, and the bridge's tables of calls agree, for every way an upstream
\* numbers and names its calls (chatToResponseStreamBridge.ensureToolCallState).
THEOREM CallsIntactTheorem == StreamSpec => []CallsIntact
<1>1. StreamInit => UsageInv /\ ShapeInv
  BY UsageInit, ShapeInit
<1>2. UsageInv /\ ShapeInv /\ [StreamNext]_streamVars => (UsageInv /\ ShapeInv)'
  BY UsageNext, ShapeNext
<1>3. UsageInv /\ ShapeInv => CallsIntact
  <2> SUFFICES ASSUME UsageInv, ShapeInv PROVE CallsIntact
    OBVIOUS
  <2>1. CallsKeptApart
    BY ShapeEnd, EndProperties
  <2>2. Table(br)
    BY NextTypes
  <2>3. CallTable
    BY <2>2, TableCallTable DEF CallTable
  <2> QED
    BY <2>1, <2>3 DEF CallsIntact
<1> QED
  BY <1>1, <1>2, <1>3, PTL DEF StreamSpec

=============================================================================
