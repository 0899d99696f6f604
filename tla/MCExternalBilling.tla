------------------------- MODULE MCExternalBilling -------------------------
(* Instances of ExternalBilling for TLC. *)
EXTENDS ExternalBilling, TLC

CONSTANTS t1, t2, c1, c2

\* Transactions are interchangeable, and so are calls.
Symmetry == Permutations(Txns) \cup Permutations(Calls)

-----------------------------------------------------------------------------
(* Statements of the documentation that the code does not meet and that no  *)
(* run checks; the README tells the counterexamples.                        *)

\* A transaction that has left the pending state stays as it is, whoever works
\* on it at the same time (processPostConsume, processCancelConsume).
AlwaysFinal ==
  [][\A t \in Txns : status[t] \notin {"none", "pending"}
                       => status'[t] = status[t]]_vars

\* A cancel of a pending transaction is not refused (ConsumePhaseCancel).
CancelHonoured ==
  \A c \in Calls :
    pc[c] = "refused" /\ op[c] = "cancel" => status[txn[c]] # "pending"

\* "Cancellation refunds the reserved quota in full" (external_billing.md:145):
\* a canceled transaction has cost nothing, and gave back no more than was
\* reserved (processCancelConsume).
CanceledIsFree ==
  \A t \in Txns :
    Quiet(t) /\ status[t] = "canceled" /\ ~missed[t] => userPaid[t] = 0

=============================================================================
