---------------------------- MODULE MCBudgetPool ----------------------------
(* Instances of BudgetPool for TLC. *)
EXTENDS BudgetPool

CONSTANTS u1, u2, a1, a2   \* u2 has no row

-----------------------------------------------------------------------------
(* Statements of the documentation that the code does not meet and that no  *)
(* run checks; the README tells the counterexamples.                        *)

\* A recall never takes more than the user has (RecallFromPool).
NoOverdraft == \A u \in Users : quota[u] >= 0

\* When RecallAllFromPool has been through its list and every user still had
\* the quota, no amount of the list is left allocated.
AllRecalled ==
  \A a \in Admins :
    (apc[a] = "loop" /\ cursor[a] = MaxAllocs /\ status[jpool[a]] = "active") =>
      \A i \in Rows : snap[a][i] > 0 =>
        NetAllocated(i) = 0 \/ ruser[i] \notin Users \/ quota[ruser[i]] < NetAllocated(i)

\* "AllocateFromPool allocates tokens from a pool to a user" (pool.go:196).
AllocatedToSomebody == \A i \in 1 .. nalloc : ruser[i] \in Users

\* RollOverPool "creates a new one with remaining (unallocated) balance"
\* (pool.go:417): the new pool starts with what is left in the closed one.
RolloverCarriesRemaining ==
  \A p \in Pools : source[p] # 0 => opening[p] = AvailableQuota(source[p])

=============================================================================
