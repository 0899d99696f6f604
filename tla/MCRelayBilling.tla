--------------------------- MODULE MCRelayBilling ---------------------------
(* Instances of RelayBilling for TLC. *)
EXTENDS RelayBilling, TLC

CONSTANTS r1, r2, c1, c2

\* Each request has a context of its own, or both are served by one.
OwnContext    == (r1 :> c1) @@ (r2 :> c2)
SharedContext == (r1 :> c1) @@ (r2 :> c1)
OneContext    == r1 :> c1

-----------------------------------------------------------------------------
(* Statements of the documentation that the code does not meet and that no  *)
(* run checks; the README tells the counterexamples.                        *)

\* "mark reconciled so the safety net doesn't try to refund again"
\* (billing_safety.go:69-70): no attempt is paid back more than was taken for
\* it.  Not with Handlers = {"response"}.
RefundedOnce ==
  \A r \in Requests, a \in Attempts : "user" \notin missed[r] => userPaid[r][a] >= 0

\* An answered request costs its price: not with Handlers = {"rerank"}.
PaidOnce ==
  \A r \in Requests :
    Quiet(r) /\ outcome[r] = "ok" /\ "user" \notin missed[r]
      => userPaid[r][attempt[r]] = Due(r)

\* A request that failed once it may have reached the upstream keeps what was
\* reserved and charged (returnPreConsumedQuotaConservative: no underbilling).
\* Not with CtxOf <- SharedContext, whose second request clears the marks, nor
\* with Transports = {"sdk"}, whose adaptors never set the forwarded mark.
NoUnderbilling ==
  \A r \in Requests :
    Quiet(r) /\ sent[r] /\ "user" \notin missed[r]
      => userPaid[r][attempt[r]] >= IF outcome[r] = "ok" THEN Due(r) ELSE pre[r] + charged[r]

\* An answered request for which the user paid less than its price is reported
\* as unbilled (PostConsumeQuotaWithLog).  Not with a usage beyond UserQuota0.
UnbilledDetected ==
  \A r \in Requests :
    Quiet(r) /\ outcome[r] = "ok" /\ userPaid[r][attempt[r]] < Due(r)
      => alarm[r]

\* "If the request was NOT forwarded upstream, it also attempts to refund the
\* quota" (billing_safety.go:105): with retries, a failed request whose last
\* attempt never left gets that attempt's reservation back.
UnsentAttemptRefunded ==
  \A r \in Requests :
    Quiet(r) /\ outcome[r] = "failed" /\ ~sent[r] /\ "user" \notin missed[r]
      => userPaid[r][attempt[r]] <= 0

=============================================================================
