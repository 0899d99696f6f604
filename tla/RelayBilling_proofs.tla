------------------------ MODULE RelayBilling_proofs ------------------------
(* Type correctness, solvency and the books of every attempt of RelayBilling, *)
(* for every instance.                                                      *)
EXTENDS RelayBilling, TLAPS

\* An entry of a per-attempt ledger is added to, or written.
LEMMA LedgerAdd ==
  ASSUME NEW f \in [Requests -> PerAttempt], NEW r \in Requests, NEW a \in Attempts,
         NEW n \in Int, NEW g, g = [f EXCEPT ![r][a] = @ + n]
  PROVE  /\ g \in [Requests -> PerAttempt] /\ g[r][a] = f[r][a] + n
         /\ \A s \in Requests, b \in Attempts : s # r \/ b # a => g[s][b] = f[s][b]
  BY DEF PerAttempt

LEMMA LedgerSet ==
  ASSUME NEW f \in [Requests -> PerAttempt], NEW r \in Requests, NEW a \in Attempts,
         NEW n \in Int, NEW g, g = [f EXCEPT ![r][a] = n]
  PROVE  /\ g \in [Requests -> PerAttempt] /\ g[r][a] = n
         /\ \A s \in Requests, b \in Attempts : s # r \/ b # a => g[s][b] = f[s][b]
  BY DEF PerAttempt

\* A new PostConsumeTokenQuota call is a task, and stays one as it advances.
LEMMA TaskType ==
  ASSUME TypeOK, NEW r \in Requests, NEW sync \in BOOLEAN, NEW delta \in Int,
         NEW kind \in {"refund", "net", "bill", "flush"},
         NEW leg \in {"check", "user", "token"}
  PROVE  Task(r, kind, sync, delta, leg) \in Tasks
<1>1. attempt[r] \in Attempts
  BY DEF TypeOK
<1> QED
  BY <1>1 DEF Task, Tasks

LEMMA AdvanceType ==
  ASSUME TypeOK, NEW t \in tasks, NEW leg \in {"check", "user", "token"},
         Advance(t, leg)
  PROVE  tasks' \subseteq Tasks
<1>1. t \in Tasks
  BY DEF TypeOK
<1>2. [t EXCEPT !.leg = leg] \in Tasks
  BY <1>1 DEF Tasks
<1> QED
  BY <1>2 DEF TypeOK, Advance

LEMMA FinishType ==
  ASSUME TypeOK, NEW t \in tasks, NEW ok \in BOOLEAN, Finish(t, ok)
  PROVE  /\ tasks' \subseteq Tasks
         /\ charged' \in [Requests -> Int]
         /\ aborted' \in [Requests -> BOOLEAN]
         /\ alarm' \in [Requests -> BOOLEAN]
<1>1. t.req \in Requests /\ t.delta \in Int
  BY DEF TypeOK, Tasks
<1> QED
  BY <1>1 DEF TypeOK, Finish

LEMMA RefundType ==
  ASSUME TypeOK, NEW r \in Requests, NEW sync \in BOOLEAN, Refund(r, sync)
  PROVE  tasks' \subseteq Tasks
<1>1. -pre[r] \in Int
  BY DEF TypeOK
<1>2. Task(r, "refund", sync, -pre[r], "check") \in Tasks
  BY <1>1, TaskType
<1> QED
  BY <1>2 DEF Refund, TypeOK

LEMMA FlushType ==
  ASSUME TypeOK, NEW r \in Requests, NEW n \in Nat, Flush(r, n)
  PROVE  tasks' \subseteq Tasks
<1>1. FlushDelta(r, n) \in Int
  BY DEF TypeOK, FlushDelta, Positive
<1>2. Task(r, "flush", TRUE, FlushDelta(r, n), "check") \in Tasks
  BY <1>1, TaskType
<1> QED
  BY <1>2 DEF Flush, TypeOK

\* A context that serves a request is one of Contexts.
LEMMA CtxType == ASSUME NEW r \in Requests PROVE Ctx(r) \in Contexts
  BY ConstantsAssumption DEF Ctx

IInv == TypeOK /\ Solvent

LEMMA InitIInv == Init => IInv
<1> SUFFICES ASSUME Init PROVE IInv
  OBVIOUS
<1>1. /\ userPaid \in [Requests -> PerAttempt] /\ tokenPaid \in [Requests -> PerAttempt]
      /\ spent \in [Requests -> PerAttempt]
  BY DEF Init, PerAttempt
<1>2. attempt \in [Requests -> Attempts]
  BY ConstantsAssumption DEF Init, Attempts
<1>3. /\ userQuota \in Int /\ tokenQuota \in Int /\ Solvent
      /\ tokenSeen \in [Requests -> Int] /\ pre \in [Requests -> Nat]
      /\ used \in [Requests -> Nat] /\ streamed \in [Requests -> Nat]
      /\ charged \in [Requests -> Int] /\ cpre \in [Contexts -> Nat]
  BY ConstantsAssumption DEF Init, Solvent
<1>4. missed \in [Requests -> SUBSET {"user", "token"}] /\ tasks \subseteq Tasks
  BY DEF Init
<1> QED
  BY <1>1, <1>2, <1>3, <1>4 DEF Init, IInv, TypeOK, PCs

\* Starting and reserving.
LEMMA ReserveIInv ==
  ASSUME IInv, NEW r \in Requests, Start(r) \/ Reserve(r)
  PROVE  IInv'
<1> USE CtxType DEF IInv, PCs
<1>1. CASE Start(r)
  BY <1>1 DEF Start, TypeOK, Solvent, balances, tracker, ledger
<1>2. CASE PreConsumeQuota(r)
  <2>1. estimate[r] \in Nat
    BY ConstantsAssumption DEF TypeOK
  <2> QED
    BY <1>2, <2>1 DEF PreConsumeQuota, Refuse, MarkPreConsumed, TypeOK, Solvent,
       balances, shape, tracker, ledger
<1>3. CASE CheckTokenQuota(r)
  BY <1>3 DEF CheckTokenQuota, Refuse, TypeOK, Solvent, balances, shape, tracker,
     context, ledger
<1>4. CASE CheckUserQuota(r)
  BY <1>4 DEF CheckUserQuota, Refuse, TypeOK, Solvent, balances, shape, tracker,
     context, ledger
<1>5. CASE DecreaseTokenQuota(r)
  <2>1. tokenPaid' \in [Requests -> PerAttempt]
    <3>1. /\ tokenPaid \in [Requests -> PerAttempt] /\ attempt[r] \in Attempts
          /\ pre[r] \in Int
      BY DEF TypeOK
    <3>2. \/ tokenPaid' = tokenPaid
          \/ tokenPaid' = [tokenPaid EXCEPT ![r][attempt[r]] = @ + pre[r]]
      BY <1>5 DEF DecreaseTokenQuota
    <3> QED
      BY <3>1, <3>2, LedgerAdd
  <2> QED
    BY <1>5, <2>1 DEF DecreaseTokenQuota, Refuse, Covers, TypeOK, Solvent, shape,
       tracker, context
<1>6. CASE DecreaseUserQuota(r)
  <2>1. userPaid' \in [Requests -> PerAttempt]
    <3>1. /\ userPaid \in [Requests -> PerAttempt] /\ attempt[r] \in Attempts
          /\ pre[r] \in Int
      BY DEF TypeOK
    <3>2. \/ userPaid' = userPaid
          \/ userPaid' = [userPaid EXCEPT ![r][attempt[r]] = @ + pre[r]]
      BY <1>6 DEF DecreaseUserQuota
    <3> QED
      BY <3>1, <3>2, LedgerAdd
  <2> QED
    BY <1>6, <2>1 DEF DecreaseUserQuota, Refuse, MarkPreConsumed, Covers, TypeOK,
       Solvent, shape, tracker
<1> QED
  BY <1>1, <1>2, <1>3, <1>4, <1>5, <1>6 DEF Reserve

\* Forwarding the request and reading the answer.
LEMMA ForwardIInv ==
  ASSUME IInv, NEW r \in Requests,
         Forward(r) \/ RecordCompletionTokens(r) \/ Answer(r)
  PROVE  IInv'
<1> USE CtxType DEF IInv, PCs
<1>1. CASE ConvertRequest(r)
  <2>1. tasks' \subseteq Tasks
    BY <1>1, RefundType DEF ConvertRequest, ConvertFailed, TypeOK
  <2> QED
    BY <1>1, <2>1 DEF ConvertRequest, Fail, TypeOK, Solvent, balances, shape,
       tracker, context, ledger
<1>2. ASSUME DoRequestFailed(r) PROVE tasks' \subseteq Tasks
  <2>1. handler[r] \in {"text", "response", "rerank"}
    BY ConstantsAssumption DEF TypeOK
  <2> QED
    BY <1>2, <2>1, RefundType DEF DoRequestFailed, TypeOK
<1>3. CASE DoRequest(r)
  <2>1. tasks' \subseteq Tasks
    BY <1>2, <1>3 DEF DoRequest, TypeOK
  <2> QED
    BY <1>3, <2>1 DEF DoRequest, DoRequestFailed, Fail, TypeOK, Solvent,
       balances, shape, tracker, ledger
<1>4. CASE UpstreamReplies(r)
  <2>1. tasks' \subseteq Tasks
    BY <1>2, <1>4, RefundType DEF UpstreamReplies, TypeOK
  <2> QED
    BY <1>4, <2>1 DEF UpstreamReplies, DoRequestFailed, Fail, TypeOK, Solvent,
       balances, shape, tracker, context, ledger
<1>5. CASE RecordCompletionTokens(r)
  <2>1. PICK n \in Usages :
          /\ streamed' = [streamed EXCEPT ![r] = n]
          /\ UNCHANGED tasks \/ Flush(r, n)
    BY <1>5 DEF RecordCompletionTokens
  <2>2. n \in Nat
    BY ConstantsAssumption
  <2>3. tasks' \subseteq Tasks
    BY <2>1, <2>2, FlushType DEF TypeOK
  <2> QED
    BY <1>5, <2>1, <2>2, <2>3 DEF RecordCompletionTokens, TypeOK, Solvent,
       balances, shape, context, ledger
<1>6. CASE DoResponse(r)
  <2>1. tasks' \subseteq Tasks
    BY <1>6, RefundType DEF DoResponse, TypeOK
  <2>2. used' \in [Requests -> Nat]
    <3>1. Usages \subseteq Nat /\ estimate[r] \in Nat /\ streamed[r] \in Nat
      BY ConstantsAssumption DEF TypeOK
    <3>2. Bills(r) \subseteq Nat
      BY <3>1 DEF Bills
    <3> QED
      BY <1>6, <3>2 DEF DoResponse, TypeOK
  <2> QED
    BY <1>6, <2>1, <2>2 DEF DoResponse, Fail, TypeOK, Solvent, balances, shape,
       tracker, context, ledger
<1>7. CASE Finalize(r)
  <2>1. tasks' \subseteq Tasks
    BY <1>7, RefundType, FlushType DEF Finalize, TypeOK
  <2> QED
    BY <1>7, <2>1 DEF Finalize, Fail, TypeOK, Solvent, balances, shape, tracker,
       context, ledger
<1> QED
  BY <1>1, <1>3, <1>4, <1>5, <1>6, <1>7 DEF Forward, Answer

\* Post-billing, the audit and the retry.
LEMMA SettleIInv ==
  ASSUME IInv, NEW r \in Requests, Settle(r)
  PROVE  IInv'
<1> USE CtxType DEF IInv, PCs
<1>1. CASE PreBillingReconcile(r)
  <2>1. tasks' \subseteq Tasks
    BY <1>1, RefundType DEF PreBillingReconcile, TypeOK
  <2> QED
    BY <1>1, <2>1 DEF PreBillingReconcile, TypeOK, Solvent, balances, shape,
       tracker, context, ledger
<1>2. CASE PostConsumeQuota(r)
  <2>1. FinalDelta(r) \in Int
    BY DEF FinalDelta, TypeOK
  <2>2. Task(r, "bill", FALSE, FinalDelta(r), "user") \in Tasks
    BY <2>1, TaskType
  <2>3. tasks' \subseteq Tasks
    BY <1>2, <2>2 DEF PostConsumeQuota, TypeOK
  <2> QED
    BY <1>2, <2>3 DEF PostConsumeQuota, TypeOK, Solvent, balances, shape,
       tracker, ledger
<1>3. CASE BillingAuditSafetyNet(r)
  <2>1. -cpre[Ctx(r)] \in Int
    BY DEF TypeOK
  <2>2. Task(r, "net", FALSE, -cpre[Ctx(r)], "user") \in Tasks
    BY <2>1, TaskType
  <2>3. tasks' \subseteq Tasks
    BY <1>3, <2>2 DEF BillingAuditSafetyNet, TypeOK
  <2> QED
    BY <1>3, <2>3 DEF BillingAuditSafetyNet, TypeOK, Solvent, balances, shape,
       tracker, context, ledger
<1>4. CASE Retry(r)
  <2>1. attempt' \in [Requests -> Attempts]
    <3>1. attempt[r] < MaxAttempts => attempt[r] + 1 \in Attempts
      BY ConstantsAssumption DEF TypeOK, Attempts
    <3> QED
      BY <1>4, <3>1 DEF Retry, MayRetry, NextAttempt, TypeOK
  <2>2. /\ pre' \in [Requests -> Nat] /\ used' \in [Requests -> Nat]
        /\ streamed' \in [Requests -> Nat] /\ charged' \in [Requests -> Int]
    <3>1. /\ pre \in [Requests -> Nat] /\ used \in [Requests -> Nat]
          /\ streamed \in [Requests -> Nat] /\ charged \in [Requests -> Int]
      BY DEF TypeOK
    <3>2. /\ pre' = [pre EXCEPT ![r] = 0] \/ pre' = pre
          /\ used' = [used EXCEPT ![r] = 0] \/ used' = used
          /\ streamed' = [streamed EXCEPT ![r] = 0] \/ streamed' = streamed
          /\ charged' = [charged EXCEPT ![r] = 0] \/ charged' = charged
      BY <1>4 DEF Retry, NewTracker, tracker
    <3>3. pre' \in [Requests -> Nat] /\ used' \in [Requests -> Nat]
      BY <3>1, <3>2
    <3> QED
      BY <3>1, <3>2, <3>3
  <2>4. aborted' \in [Requests -> BOOLEAN] /\ sent' \in [Requests -> BOOLEAN]
    BY <1>4 DEF Retry, NewTracker, TypeOK, tracker
  <2>5. spent' \in [Requests -> PerAttempt]
    <3>1. /\ pre[r] + charged[r] \in Int /\ spent \in [Requests -> PerAttempt]
          /\ attempt[r] \in Attempts
      BY DEF TypeOK
    <3>2. \/ spent' = spent
          \/ spent' = [spent EXCEPT ![r][attempt[r]] = pre[r] + charged[r]]
      BY <1>4 DEF Retry
    <3> QED
      BY <3>1, <3>2, LedgerSet
  <2>3. /\ pc' \in [Requests -> PCs]
        /\ outcome' \in [Requests -> {"none", "ok", "failed"}]
    BY <1>4 DEF Retry, TypeOK
  <2> QED
    BY <1>4, <2>1, <2>2, <2>3, <2>4, <2>5 DEF Retry, TypeOK, Solvent, balances, shape,
       context, ledger
<1> QED
  BY <1>1, <1>2, <1>3, <1>4 DEF Settle

\* The calls of PostConsumeTokenQuota.  The WHERE clause of the conditional
\* updates is what keeps both balances non-negative.
LEMMA WorkIInv ==
  ASSUME IInv, NEW t \in tasks, Work(t)
  PROVE  IInv'
<1> USE DEF IInv, PCs
<1>0. /\ t.req \in Requests /\ t.delta \in Int /\ Ctx(t.req) \in Contexts
      /\ t.att \in Attempts /\ userPaid \in [Requests -> PerAttempt]
      /\ tokenPaid \in [Requests -> PerAttempt]
  BY CtxType DEF TypeOK, Tasks
<1>1. CASE ReturnPreConsumedQuotaConservative(t)
  <2>1. tasks' \subseteq Tasks
    BY <1>1, AdvanceType DEF ReturnPreConsumedQuotaConservative, TypeOK
  <2> QED
    BY <1>0, <1>1, <2>1 DEF ReturnPreConsumedQuotaConservative, TypeOK, Solvent,
       balances, shape, tracker, ledger
<1>2. CASE EnsureQuota(t)
  <2>1. /\ tasks' \subseteq Tasks
        /\ charged' \in [Requests -> Int]
        /\ aborted' \in [Requests -> BOOLEAN]
        /\ alarm' \in [Requests -> BOOLEAN]
    BY <1>2, FinishType, AdvanceType DEF EnsureQuota, TypeOK
  <2> QED
    BY <1>2, <2>1 DEF EnsureQuota, TypeOK, Solvent, balances, shape, context, ledger
<1>3. CASE PostConsumeUser(t)
  <2>1. /\ tasks' \subseteq Tasks
        /\ charged' \in [Requests -> Int]
        /\ aborted' \in [Requests -> BOOLEAN]
        /\ alarm' \in [Requests -> BOOLEAN]
    BY <1>3, FinishType, AdvanceType DEF PostConsumeUser, TypeOK
  <2>2. userPaid' \in [Requests -> PerAttempt]
    <3>1. \/ userPaid' = userPaid
          \/ userPaid' = [userPaid EXCEPT ![t.req][t.att] = @ + t.delta]
      BY <1>3 DEF PostConsumeUser
    <3> QED
      BY <1>0, <3>1, LedgerAdd
  <2> QED
    BY <1>0, <1>3, <2>1, <2>2 DEF PostConsumeUser, Covers, TypeOK, Solvent, shape, context
<1>4. CASE PostConsumeToken(t)
  <2>1. /\ tasks' \subseteq Tasks
        /\ charged' \in [Requests -> Int]
        /\ aborted' \in [Requests -> BOOLEAN]
        /\ alarm' \in [Requests -> BOOLEAN]
    BY <1>4, FinishType DEF PostConsumeToken, Finish, TypeOK
  <2>2. tokenQuota' \in Int /\ tokenQuota' >= 0
    BY <1>0, <1>4 DEF PostConsumeToken, Finish, Covers, TypeOK, Solvent
  <2>3. tokenPaid' \in [Requests -> PerAttempt]
    <3>1. \/ tokenPaid' = tokenPaid
          \/ tokenPaid' = [tokenPaid EXCEPT ![t.req][t.att] = @ + t.delta]
      BY <1>4 DEF PostConsumeToken
    <3> QED
      BY <1>0, <3>1, LedgerAdd
  <2>4. missed' \in [Requests -> SUBSET {"user", "token"}]
    BY <1>0, <1>4 DEF PostConsumeToken, Finish, TypeOK
  <2> QED
    BY <1>4, <2>1, <2>2, <2>3, <2>4 DEF PostConsumeToken, TypeOK, Solvent, shape,
       context
<1> QED
  BY <1>1, <1>2, <1>3, <1>4 DEF Work

LEMMA NextIInv == IInv /\ [Next]_vars => IInv'
<1> SUFFICES ASSUME IInv, [Next]_vars PROVE IInv'
  OBVIOUS
<1>1. CASE \E r \in Requests : Start(r) \/ RecordCompletionTokens(r) \/ Handle(r)
  BY <1>1, ReserveIInv, ForwardIInv, SettleIInv DEF Handle
<1>2. CASE \E t \in tasks : Work(t)
  BY <1>2, WorkIInv
<1>3. CASE UNCHANGED vars
  BY <1>3 DEF IInv, TypeOK, Solvent, vars, balances, shape, tracker, context, ledger
<1> QED
  BY <1>1, <1>2, <1>3 DEF Next, AllQuiet

\* Every variable keeps its type, whatever the number of requests, contexts and
\* attempts and whatever the prices: TypeOK is an invariant.
THEOREM TypeCorrect == Spec => []TypeOK
<1>1. IInv => TypeOK
  BY DEF IInv
<1> QED
  BY <1>1, InitIInv, NextIInv, PTL DEF Spec

\* No interleaving of reservations, flushes, refunds and bills overdraws the
\* user's or the token's row.
THEOREM SolvencyTheorem == Spec => []Solvent
<1>1. IInv => Solvent
  BY DEF IInv
<1> QED
  BY <1>1, InitIInv, NextIInv, PTL DEF Spec

-----------------------------------------------------------------------------
(* The ledger of an attempt.  What its user and its token have paid follows  *)
(* from where its handler is, what it has reserved and charged, and which    *)
(* PostConsumeTokenQuota calls are still running.                            *)

Early     == {"idle", "reserve", "checkToken", "checkUser", "decToken", "decUser"}
Reserved  == {"convert", "send", "sent"}
Answering == {"respond", "finalize", "flushed", "settle"}

Live(r) == pc[r] \notin {"idle", "done"}
Paid(r) == userPaid[r][attempt[r]]

\* The amount of the call of a kind that is in a leg, for one attempt.
Matches(t, r, a, kind, leg) == t.req = r /\ t.att = a /\ t.kind = kind /\ t.leg = leg
InLeg(T, r, a, kind, leg) ==
  IF \E t \in T : Matches(t, r, a, kind, leg)
    THEN (CHOOSE t \in T : Matches(t, r, a, kind, leg)).delta
    ELSE 0

\* A gin context serves one request at a time.
Owners ==
  \A r, s \in Requests : Ctx(r) = Ctx(s) /\ Live(r) /\ Live(s) => r = s

\* Which helpers stream, and what the locals of a handler say of its progress.
Locals(r) ==
  /\ transport[r] = "sdk" \/ stream[r] => handler[r] = "text"
  /\ pc[r] = "sent" => transport[r] = "http"
  /\ pre[r] <= estimate[r]
  /\ handler[r] = "rerank" /\ (pc[r] = "bill" \/ outcome[r] = "ok") => pre[r] = 0
  /\ outcome[r] # "none" <=> pc[r] = "done"
  /\ charged[r] >= 0 /\ (~stream[r] => charged[r] = 0 /\ ~aborted[r])
  /\ pc[r] \in {"finalize", "flushed"} => stream[r]
  /\ pc[r] \in Early \cup Reserved => charged[r] = 0 /\ ~aborted[r]
  /\ pc[r] \in {"settle", "bill"} \/ outcome[r] = "ok" => ~aborted[r]

\* The billing keys of a context while a request holds it.
Marks(r) ==
  /\ pc[r] \in Reserved \cup Answering \cup {"fail"} => cpre[Ctx(r)] = pre[r]
  /\ transport[r] = "http" /\ pc[r] \in {"sent", "bill"} \cup Answering
       => forwarded[Ctx(r)]

\* What each kind of call says about its handler.
FlushCall(t) ==
  t.kind = "flush" =>
    /\ t.sync /\ t.delta > 0 /\ t.att = attempt[t.req]
    /\ pc[t.req] \in {"respond", "flushed"} /\ stream[t.req] /\ ~aborted[t.req]
RefundCall(t) ==
  t.kind = "refund" =>
    /\ t.delta < 0
    /\ t.sync => t.att = attempt[t.req] /\ pc[t.req] \in {"fail", "bill"}
    /\ t.att = attempt[t.req] =>
         /\ pc[t.req] \in {"bill", "fail", "retry", "done"} /\ outcome[t.req] # "ok"
         /\ pc[t.req] = "bill" => t.sync /\ (transport[t.req] = "http" => t.leg = "check")
         /\ pc[t.req] = "fail" /\ handler[t.req] # "response"
              => t.sync \/ forwarded[Ctx(t.req)]
         /\ pc[t.req] = "fail" /\ t.leg # "check" => reconciled[Ctx(t.req)]
NetCall(t) ==
  t.kind = "net" =>
    /\ ~t.sync /\ t.delta < 0
    /\ t.att = attempt[t.req] => pc[t.req] \in {"retry", "done"} /\ outcome[t.req] # "ok"
BillCall(t) ==
  t.kind = "bill" => ~t.sync /\ t.att = attempt[t.req] /\ outcome[t.req] = "ok"

CallShape(t) ==
  /\ t.att <= attempt[t.req]
  /\ t.leg = "check" => t.kind \in {"refund", "flush"}
  /\ t.leg = "token" => ~Unlimited
  /\ FlushCall(t) /\ RefundCall(t) /\ NetCall(t) /\ BillCall(t)

\* An attempt has one call of a kind at a time, and gives its reservation back
\* by a refund or by the audit, never by both (but for the Response API).
Clash(t, u) ==
  /\ t.req = u.req /\ t.att = u.att
  /\ \/ t.kind = u.kind
     \/ /\ t.kind \in {"refund", "net"} /\ u.kind \in {"refund", "net"}
        /\ handler[t.req] # "response"

CallsOf(r) ==
  /\ \A t \in tasks : t.req = r => CallShape(t)
  /\ \A t, u \in tasks : t.req = r /\ Clash(t, u) => t = u

\* What the user has paid while the attempt is reserved, answered and billed.
UserBooks(r) ==
  /\ \A a \in Attempts : a > attempt[r] => userPaid[r][a] = 0 /\ tokenPaid[r][a] = 0
  /\ pc[r] \in Early => Paid(r) = 0
  /\ pc[r] \in Reserved => Paid(r) = pre[r]
  /\ pc[r] \in Answering /\ "user" \notin missed[r] =>
       /\ Paid(r) >= pre[r] + charged[r] + InLeg(tasks, r, attempt[r], "flush", "token")
       /\ ~aborted[r] \/ missed[r] = {} =>
            Paid(r) = pre[r] + charged[r] + InLeg(tasks, r, attempt[r], "flush", "token")
  /\ pc[r] = "bill" /\ "user" \notin missed[r] =>
       /\ handler[r] = "rerank" => Paid(r) \in 0 .. estimate[r]
       /\ handler[r] # "rerank" => Paid(r) <= pre[r] + charged[r]
       /\ handler[r] # "rerank" /\ transport[r] = "http" => Paid(r) = pre[r] + charged[r]

\* What it will have paid once post-billing has run.
Total(r) == Paid(r) + InLeg(tasks, r, attempt[r], "bill", "user")

BillBooks(r) ==
  outcome[r] = "ok" /\ "user" \notin missed[r] =>
    /\ handler[r] = "rerank" => Total(r) \in Due(r) .. (Due(r) + estimate[r])
    /\ handler[r] # "rerank" => Total(r) <= Due(r)
    /\ handler[r] # "rerank" /\ transport[r] = "http" => Total(r) = Due(r)

\* What a failed attempt may cost.
FailBooks(r) ==
  missed[r] = {} =>
    /\ pc[r] \in {"fail", "retry"} \/ outcome[r] = "failed" => Paid(r) <= pre[r] + charged[r]
    /\ \A a \in Attempts : a < attempt[r] => userPaid[r][a] <= spent[r][a]

\* What is about to be given back has been paid.
RefundBooks(r) ==
  handler[r] # "response" /\ transport[r] = "http" /\ "user" \notin missed[r] =>
    /\ \A a \in Attempts : userPaid[r][a] >= 0
    /\ \A t \in tasks : t.req = r /\ t.kind \in {"refund", "net"} /\ t.leg # "token"
         => userPaid[r][t.att] >= -t.delta
    /\ pc[r] = "fail" /\ ~reconciled[Ctx(r)] /\ ~forwarded[Ctx(r)] => Paid(r) >= pre[r]

\* What the user has paid and the token has not yet.
HalfDone(r, a) ==
    InLeg(tasks, r, a, "refund", "token") + InLeg(tasks, r, a, "net", "token")
  + InLeg(tasks, r, a, "bill", "token") + InLeg(tasks, r, a, "flush", "token")

TokenBooks(r) ==
  \A a \in Attempts : ~Unlimited /\ missed[r] = {} =>
    userPaid[r][a] - tokenPaid[r][a] =
      HalfDone(r, a) - (IF a = attempt[r] /\ pc[r] = "decUser" THEN pre[r] ELSE 0)

Progress(r) == Locals(r) /\ Marks(r) /\ CallsOf(r)
BooksOf(r)  == /\ Progress(r) /\ UserBooks(r) /\ BillBooks(r) /\ FailBooks(r)
               /\ RefundBooks(r) /\ TokenBooks(r)
Books       == IInv /\ Owners /\ \A r \in Requests : BooksOf(r)

-----------------------------------------------------------------------------
(* Facts about the calls in a leg. *)

Unique(T, r) ==
  \A t, u \in T : t.req = r /\ u.req = r /\ t.att = u.att /\ t.kind = u.kind => t = u

LEMMA InLegIs ==
  ASSUME NEW T, NEW r, Unique(T, r), NEW t \in T, NEW a, NEW kind, NEW leg,
         Matches(t, r, a, kind, leg)
  PROVE  InLeg(T, r, a, kind, leg) = t.delta
<1> DEFINE u == CHOOSE u \in T : Matches(u, r, a, kind, leg)
<1>1. u \in T /\ Matches(u, r, a, kind, leg)
  BY Zenon
<1>2. u = t
  BY <1>1 DEF Unique, Matches
<1> QED
  BY <1>2 DEF InLeg

LEMMA InLegNone ==
  ASSUME NEW T, NEW r, NEW a, NEW kind, NEW leg,
         \A t \in T : ~Matches(t, r, a, kind, leg)
  PROVE  InLeg(T, r, a, kind, leg) = 0
  BY DEF InLeg

LEMMA InLegType ==
  ASSUME NEW T \in SUBSET Tasks, NEW r, Unique(T, r), NEW a, NEW kind, NEW leg
  PROVE  InLeg(T, r, a, kind, leg) \in Int
<1>1. CASE \E t \in T : Matches(t, r, a, kind, leg)
  <2>1. PICK t \in T : Matches(t, r, a, kind, leg)
    BY <1>1
  <2>2. InLeg(T, r, a, kind, leg) = t.delta
    BY <2>1, InLegIs
  <2> QED
    BY <2>2 DEF Tasks
<1>2. CASE \A t \in T : ~Matches(t, r, a, kind, leg)
  BY <1>2, InLegNone
<1> QED
  BY <1>1, <1>2

LEMMA InLegSame ==
  ASSUME NEW T, NEW S, NEW r, Unique(T, r), Unique(S, r), NEW a, NEW kind, NEW leg,
         \A t \in T : Matches(t, r, a, kind, leg) => t \in S,
         \A t \in S : Matches(t, r, a, kind, leg) => t \in T
  PROVE  InLeg(T, r, a, kind, leg) = InLeg(S, r, a, kind, leg)
<1>1. CASE \E t \in T : Matches(t, r, a, kind, leg)
  <2>1. PICK t \in T : Matches(t, r, a, kind, leg)
    BY <1>1
  <2>2. t \in S
    BY <2>1
  <2>3. InLeg(T, r, a, kind, leg) = t.delta
    BY <2>1, InLegIs
  <2>4. InLeg(S, r, a, kind, leg) = t.delta
    BY <2>1, <2>2, InLegIs
  <2> QED
    BY <2>3, <2>4
<1>2. CASE \A t \in T : ~Matches(t, r, a, kind, leg)
  <2>1. \A t \in S : ~Matches(t, r, a, kind, leg)
    BY <1>2
  <2>2. InLeg(T, r, a, kind, leg) = 0
    BY <1>2, InLegNone
  <2>3. InLeg(S, r, a, kind, leg) = 0
    BY <2>1, InLegNone
  <2> QED
    BY <2>2, <2>3
<1> QED
  BY <1>1, <1>2

LEMMA CallsUnique ==
  ASSUME NEW r \in Requests, CallsOf(r)
  PROVE  Unique(tasks, r)
  BY DEF CallsOf, Clash, Unique

-----------------------------------------------------------------------------
(* A step of one request leaves the books of the others alone. *)

Frame(r) ==
  /\ UNCHANGED <<handler, transport, stream, estimate>>
  /\ \A s \in Requests \ {r} :
       /\ pc'[s] = pc[s] /\ attempt'[s] = attempt[s] /\ pre'[s] = pre[s]
       /\ used'[s] = used[s] /\ charged'[s] = charged[s] /\ aborted'[s] = aborted[s]
       /\ outcome'[s] = outcome[s] /\ missed'[s] = missed[s] /\ spent'[s] = spent[s]
       /\ userPaid'[s] = userPaid[s] /\ tokenPaid'[s] = tokenPaid[s]
       /\ \A t \in tasks : t.req = s => t \in tasks'
       /\ \A t \in tasks' : t.req = s => t \in tasks
       /\ Live(s) => /\ cpre'[Ctx(s)] = cpre[Ctx(s)] /\ forwarded'[Ctx(s)] = forwarded[Ctx(s)]
                     /\ reconciled[Ctx(s)] => reconciled'[Ctx(s)]

LEMMA FrameKeeps ==
  ASSUME NEW r \in Requests, Frame(r), NEW s \in Requests \ {r}, BooksOf(s)
  PROVE  BooksOf(s)'
<1>1. /\ UNCHANGED <<handler, transport, stream, estimate>>
      /\ pc'[s] = pc[s] /\ attempt'[s] = attempt[s] /\ pre'[s] = pre[s]
      /\ used'[s] = used[s] /\ charged'[s] = charged[s] /\ aborted'[s] = aborted[s]
      /\ outcome'[s] = outcome[s] /\ missed'[s] = missed[s] /\ spent'[s] = spent[s]
      /\ userPaid'[s] = userPaid[s] /\ tokenPaid'[s] = tokenPaid[s]
  BY DEF Frame
<1>2. /\ \A t \in tasks : t.req = s => t \in tasks'
      /\ \A t \in tasks' : t.req = s => t \in tasks
  BY DEF Frame
<1>3. /\ Ctx(s)' = Ctx(s)
      /\ Live(s) => /\ cpre'[Ctx(s)] = cpre[Ctx(s)] /\ forwarded'[Ctx(s)] = forwarded[Ctx(s)]
                    /\ reconciled[Ctx(s)] => reconciled'[Ctx(s)]
  BY DEF Frame, Ctx
<1>4. Locals(s)'
  BY <1>1 DEF BooksOf, Progress, Locals
<1>5. Marks(s)'
  BY <1>1, <1>3 DEF BooksOf, Progress, Marks, Live, Reserved, Answering
<1>6. CallsOf(s)'
  <2>1. ASSUME NEW t \in tasks', t.req = s PROVE CallShape(t)'
    <3>1. t \in tasks /\ CallShape(t)
      BY <1>2, <2>1 DEF BooksOf, Progress, CallsOf
    <3>2. FlushCall(t)' /\ NetCall(t)' /\ BillCall(t)'
      BY <1>1, <2>1, <3>1 DEF CallShape, FlushCall, NetCall, BillCall
    <3>3. RefundCall(t)'
      BY <1>1, <1>3, <2>1, <3>1 DEF CallShape, RefundCall, Live
    <3> QED
      BY <1>1, <2>1, <3>1, <3>2, <3>3 DEF CallShape
  <2>2. ASSUME NEW t \in tasks', NEW u \in tasks', t.req = s, Clash(t, u)' PROVE t = u
    BY <1>1, <1>2, <2>2 DEF BooksOf, Progress, CallsOf, Clash
  <2> QED
    BY <2>1, <2>2 DEF CallsOf
<1>7. Unique(tasks, s) /\ Unique(tasks', s)
  BY <1>2, CallsUnique DEF BooksOf, Progress, Unique
<1>8. \A a, kind, leg : InLeg(tasks', s, a, kind, leg) = InLeg(tasks, s, a, kind, leg)
  <2> SUFFICES ASSUME NEW a, NEW kind, NEW leg
               PROVE  InLeg(tasks', s, a, kind, leg) = InLeg(tasks, s, a, kind, leg)
    OBVIOUS
  <2>1. /\ \A t \in tasks : Matches(t, s, a, kind, leg) => t \in tasks'
        /\ \A t \in tasks' : Matches(t, s, a, kind, leg) => t \in tasks
    BY <1>2 DEF Matches
  <2> QED
    BY <1>7, <2>1, InLegSame
<1>9. /\ Paid(s)' = Paid(s) /\ Total(s)' = Total(s) /\ Due(s)' = Due(s)
      /\ \A a : HalfDone(s, a)' = HalfDone(s, a)
  BY <1>1, <1>8 DEF Paid, Total, Due, HalfDone
<1>10. UserBooks(s)'
  BY <1>1, <1>8, <1>9 DEF BooksOf, UserBooks
<1>11. BillBooks(s)' /\ FailBooks(s)' /\ TokenBooks(s)'
  BY <1>1, <1>9 DEF BooksOf, BillBooks, FailBooks, TokenBooks
<1>12. RefundBooks(s)'
  BY <1>1, <1>2, <1>3, <1>9 DEF BooksOf, RefundBooks, Live
<1> QED
  BY <1>4, <1>5, <1>6, <1>10, <1>11, <1>12 DEF BooksOf, Progress

\* The steps of a request's handler.
LEMMA FrameReserve ==
  ASSUME IInv, Owners, NEW r \in Requests, Start(r) \/ Reserve(r)
  PROVE  Frame(r) /\ Owners'
<1> USE DEF IInv
<1>1. /\ UNCHANGED <<handler, transport, stream, estimate, attempt, used, charged, aborted,
                     outcome, spent, tasks>>
      /\ \A s \in Requests \ {r} : pc'[s] = pc[s] /\ pre'[s] = pre[s] /\ missed'[s] = missed[s]
  BY DEF Start, Reserve, PreConsumeQuota, CheckTokenQuota, CheckUserQuota, DecreaseTokenQuota,
     DecreaseUserQuota, Refuse, MarkPreConsumed, shape, tracker, ledger, TypeOK
<1>2. \A s \in Requests \ {r} : userPaid'[s] = userPaid[s] /\ tokenPaid'[s] = tokenPaid[s]
  BY DEF Start, Reserve, PreConsumeQuota, CheckTokenQuota, CheckUserQuota, DecreaseTokenQuota,
     DecreaseUserQuota, ledger, TypeOK
<1>3. \A s \in Requests \ {r} : Live(s) => Ctx(s) # Ctx(r)
  BY DEF Start, Reserve, PreConsumeQuota, CheckTokenQuota, CheckUserQuota, DecreaseTokenQuota,
     DecreaseUserQuota, Owners, Live
<1>4. \A s \in Requests \ {r} : Live(s) =>
        /\ cpre'[Ctx(s)] = cpre[Ctx(s)] /\ forwarded'[Ctx(s)] = forwarded[Ctx(s)]
        /\ reconciled[Ctx(s)] => reconciled'[Ctx(s)]
  BY <1>3, CtxType DEF Start, Reserve, PreConsumeQuota, CheckTokenQuota, CheckUserQuota,
     DecreaseTokenQuota, DecreaseUserQuota, MarkPreConsumed, context, TypeOK
<1>5. Frame(r)
  BY <1>1, <1>2, <1>4 DEF Frame
<1>6. Owners'
  BY <1>1, <1>3 DEF Owners, Live, Ctx
<1> QED
  BY <1>5, <1>6

LEMMA FrameHandle ==
  ASSUME IInv, Owners, NEW r \in Requests,
         Forward(r) \/ RecordCompletionTokens(r) \/ Answer(r) \/ Settle(r)
  PROVE  Frame(r) /\ Owners'
<1> USE DEF IInv
<1>1. Live(r) /\ UNCHANGED <<handler, transport, stream, estimate, userPaid, tokenPaid, missed>>
  BY DEF Forward, ConvertRequest, DoRequest, UpstreamReplies, RecordCompletionTokens, Answer,
     DoResponse, Finalize, Settle, PreBillingReconcile, PostConsumeQuota,
     BillingAuditSafetyNet, Retry, Live, shape, ledger
<1>2. \A s \in Requests \ {r} :
        /\ pc'[s] = pc[s] /\ attempt'[s] = attempt[s] /\ pre'[s] = pre[s]
        /\ used'[s] = used[s] /\ charged'[s] = charged[s] /\ aborted'[s] = aborted[s]
        /\ outcome'[s] = outcome[s] /\ spent'[s] = spent[s]
  <2>1. CASE Forward(r)
    BY <2>1 DEF Forward, ConvertRequest, DoRequest, UpstreamReplies, DoRequestFailed, Fail,
       tracker, TypeOK
  <2>2. CASE RecordCompletionTokens(r) \/ Answer(r)
    BY <2>2 DEF RecordCompletionTokens, Answer, DoResponse, Finalize, Fail, tracker, TypeOK
  <2>3. CASE Settle(r)
    <3>1. CASE Retry(r)
      <4>1. CASE spent' = spent
        BY <3>1, <4>1 DEF Retry, NewTracker, tracker, TypeOK
      <4>2. CASE spent' = [spent EXCEPT ![r][attempt[r]] = pre[r] + charged[r]]
        BY <3>1, <4>2 DEF Retry, NewTracker, tracker, TypeOK
      <4> QED
        BY <3>1, <4>1, <4>2 DEF Retry
    <3>2. CASE PreBillingReconcile(r)
      BY <3>2 DEF PreBillingReconcile, tracker, TypeOK
    <3>3. CASE PostConsumeQuota(r)
      BY <3>3 DEF PostConsumeQuota, tracker, TypeOK
    <3>4. CASE BillingAuditSafetyNet(r)
      BY <3>4 DEF BillingAuditSafetyNet, tracker, TypeOK
    <3> QED
      BY <2>3, <3>1, <3>2, <3>3, <3>4 DEF Settle
  <2> QED
    BY <2>1, <2>2, <2>3
<1>3. \E u : u.req = r /\ (tasks' = tasks \/ tasks' = tasks \cup {u})
  <2>1. \A kind, sync, delta, leg : Task(r, kind, sync, delta, leg).req = r
    BY DEF Task
  <2>2. \A sync : Refund(r, sync) => \E u : u.req = r /\ (tasks' = tasks \/ tasks' = tasks \cup {u})
    BY <2>1 DEF Refund
  <2>3. \A n : Flush(r, n) => \E u : u.req = r /\ (tasks' = tasks \/ tasks' = tasks \cup {u})
    BY <2>1 DEF Flush
  <2>4. tasks' = tasks => \E u : u.req = r /\ (tasks' = tasks \/ tasks' = tasks \cup {u})
    BY <2>1
  <2>5. handler[r] \in {"text", "response", "rerank"}
    BY ConstantsAssumption DEF TypeOK
  <2>6. DoRequestFailed(r) => tasks' = tasks \/ \E sync : Refund(r, sync)
    BY <2>5 DEF DoRequestFailed
  <2>7. CASE Forward(r)
    BY <2>2, <2>4, <2>6, <2>7 DEF Forward, ConvertRequest, ConvertFailed, DoRequest,
       UpstreamReplies
  <2>8. CASE RecordCompletionTokens(r) \/ Answer(r)
    <3>1. tasks' = tasks \/ (\E n : Flush(r, n)) \/ (\E sync : Refund(r, sync))
      BY <2>8, Zenon DEF RecordCompletionTokens, Answer, DoResponse, Finalize
    <3> QED
      BY <2>2, <2>3, <2>4, <3>1
  <2>9. CASE PreBillingReconcile(r) \/ Retry(r)
    BY <2>2, <2>4, <2>9 DEF PreBillingReconcile, Retry
  <2>10. CASE PostConsumeQuota(r) \/ BillingAuditSafetyNet(r)
    <3>1. tasks' = tasks \/ \E kind, sync, delta, leg :
            tasks' = tasks \cup {Task(r, kind, sync, delta, leg)}
      BY <2>10, Zenon DEF PostConsumeQuota, BillingAuditSafetyNet
    <3> QED
      BY <2>1, <2>4, <3>1
  <2> QED
    BY <2>7, <2>8, <2>9, <2>10 DEF Settle
<1>4. \A s \in Requests \ {r} : Live(s) =>
        /\ cpre'[Ctx(s)] = cpre[Ctx(s)] /\ forwarded'[Ctx(s)] = forwarded[Ctx(s)]
        /\ reconciled[Ctx(s)] => reconciled'[Ctx(s)]
  <2>1. \A s \in Requests \ {r} : Live(s) => Ctx(s) # Ctx(r)
    BY <1>1 DEF Owners
  <2> QED
    BY <2>1, CtxType DEF Forward, ConvertRequest, DoRequest, UpstreamReplies,
       RecordCompletionTokens, Answer, DoResponse, Finalize, Settle, PreBillingReconcile,
       PostConsumeQuota, BillingAuditSafetyNet, Retry, context, TypeOK
<1>5. Frame(r)
  BY <1>1, <1>2, <1>3, <1>4 DEF Frame
<1>6. Owners'
  BY <1>1, <1>2 DEF Owners, Live, Ctx
<1> QED
  BY <1>5, <1>6

LEMMA FrameWork ==
  ASSUME IInv, Owners, NEW t \in tasks, Work(t)
  PROVE  Frame(t.req) /\ Owners'
<1> USE DEF IInv
<1>1. /\ t.req \in Requests /\ t.att \in Attempts /\ t.delta \in Int
      /\ [t EXCEPT !.leg = "user"].req = t.req /\ [t EXCEPT !.leg = "token"].req = t.req
  BY DEF TypeOK, Tasks
<1>2. UNCHANGED <<handler, transport, stream, estimate, pc, attempt, pre, used, outcome,
                  spent, cpre, forwarded>>
  BY DEF Work, ReturnPreConsumedQuotaConservative, EnsureQuota, PostConsumeUser,
     PostConsumeToken, shape, context
<1>3. \A s \in Requests \ {t.req} :
        /\ charged'[s] = charged[s] /\ aborted'[s] = aborted[s] /\ missed'[s] = missed[s]
  BY <1>1 DEF Work, ReturnPreConsumedQuotaConservative, EnsureQuota, PostConsumeUser,
     PostConsumeToken, Finish, tracker, ledger, TypeOK
<1>4. \A s \in Requests \ {t.req} : userPaid'[s] = userPaid[s] /\ tokenPaid'[s] = tokenPaid[s]
  BY <1>1 DEF Work, ReturnPreConsumedQuotaConservative, EnsureQuota, PostConsumeUser,
     PostConsumeToken, ledger, TypeOK
<1>5. \A s \in Requests \ {t.req} :
        /\ \A u \in tasks : u.req = s => u \in tasks'
        /\ \A u \in tasks' : u.req = s => u \in tasks
  BY <1>1 DEF Work, ReturnPreConsumedQuotaConservative, EnsureQuota, PostConsumeUser,
     PostConsumeToken, Finish, Advance
<1>6. \A s \in Requests : reconciled[Ctx(s)] => reconciled'[Ctx(s)]
  BY <1>1, CtxType DEF Work, ReturnPreConsumedQuotaConservative, EnsureQuota, PostConsumeUser,
     PostConsumeToken, context, TypeOK
<1>7. Frame(t.req)
  BY <1>2, <1>3, <1>4, <1>5, <1>6 DEF Frame
<1>8. Owners'
  BY <1>2 DEF Owners, Live, Ctx
<1> QED
  BY <1>7, <1>8

-----------------------------------------------------------------------------
(* Steps that move no money. *)

\* Between calls: nothing runs for the current attempt.
AtRest(r) == \A t \in tasks : t.req = r => t.att < attempt[r]

LEMMA RestPlaces ==
  ASSUME IInv, NEW r \in Requests, BooksOf(r),
         \/ pc[r] \in Early \cup Reserved \cup {"settle", "finalize"}
         \/ pc[r] \in {"respond", "flushed", "bill"} /\ ~Busy(r)
  PROVE  AtRest(r)
<1> SUFFICES ASSUME NEW t \in tasks, t.req = r PROVE t.att < attempt[r]
  BY DEF AtRest
<1>1. /\ CallShape(t) /\ t.att \in Int /\ attempt[r] \in Int
      /\ t.kind \in {"refund", "net", "bill", "flush"}
  BY DEF BooksOf, Progress, CallsOf, IInv, TypeOK, Tasks, Attempts
<1>2. t.att <= attempt[r] /\ (t.sync => Busy(r))
  BY <1>1 DEF CallShape, Busy
<1>3. t.att # attempt[r]
  <2>1. outcome[r] # "ok"
    BY DEF BooksOf, Progress, Locals, Early, Reserved
  <2>2. CASE t.kind = "flush"
    BY <1>1, <1>2, <2>2 DEF CallShape, FlushCall, Early, Reserved
  <2>3. CASE t.kind = "refund"
    BY <1>1, <1>2, <2>3 DEF CallShape, RefundCall, Early, Reserved
  <2>4. CASE t.kind = "net"
    BY <1>1, <2>4 DEF CallShape, NetCall, Early, Reserved
  <2>5. CASE t.kind = "bill"
    BY <1>1, <2>1, <2>5 DEF CallShape, BillCall
  <2> QED
    BY <1>1, <2>2, <2>3, <2>4, <2>5
<1> QED
  BY <1>1, <1>2, <1>3

LEMMA RestLegs ==
  ASSUME IInv, NEW r \in Requests, AtRest(r)
  PROVE  \A kind, leg : InLeg(tasks, r, attempt[r], kind, leg) = 0
<1> SUFFICES ASSUME NEW kind, NEW leg PROVE InLeg(tasks, r, attempt[r], kind, leg) = 0
  OBVIOUS
<1>1. \A t \in tasks : t.req = r => t.att # attempt[r]
  BY DEF AtRest, IInv, TypeOK, Tasks, Attempts
<1> QED
  BY <1>1, InLegNone DEF Matches

\* A handler at rest starts at most one call, of its current attempt.
Starts(r, u) ==
  \/ tasks' = tasks
  \/ /\ tasks' = tasks \cup {u} /\ u \in Tasks
     /\ u.req = r /\ u.att = attempt[r] /\ u.leg # "token"
     /\ CallShape(u)'

LEMMA StartCalls ==
  ASSUME IInv, NEW r \in Requests, CallsOf(r), AtRest(r), NEW u, Starts(r, u),
         handler' = handler, attempt'[r] = attempt[r]
  PROVE  /\ CallsOf(r)' /\ Unique(tasks, r) /\ Unique(tasks', r)
         /\ \A a, kind : InLeg(tasks', r, a, kind, "token") = InLeg(tasks, r, a, kind, "token")
<1>0. \A t \in tasks : t.att \in Int /\ attempt[r] \in Int
  BY DEF IInv, TypeOK, Tasks, Attempts
<1>1. ASSUME NEW t \in tasks', t.req = r PROVE CallShape(t)'
  <2>1. CASE t \in tasks
    <3>1. CallShape(t) /\ t.att < attempt[r] /\ t.att # attempt[r]
      BY <1>0, <1>1, <2>1 DEF CallsOf, AtRest
    <3>2. t.kind \notin {"flush", "bill"} /\ (t.kind \in {"refund", "net"} => ~t.sync /\ t.delta < 0)
      BY <1>1, <3>1 DEF CallShape, FlushCall, BillCall, RefundCall, NetCall
    <3> QED
      BY <1>1, <3>1, <3>2 DEF CallShape, FlushCall, BillCall, RefundCall, NetCall
  <2>2. CASE t \notin tasks
    BY <1>1, <2>2 DEF Starts
  <2> QED
    BY <2>1, <2>2
<1>2. ASSUME NEW t \in tasks', NEW v \in tasks', t.req = r, Clash(t, v)' PROVE t = v
  <2>1. Clash(t, v)
    BY <1>2 DEF Clash
  <2>2. CASE t \in tasks /\ v \in tasks
    BY <1>2, <2>1, <2>2 DEF CallsOf
  <2>3. CASE t \notin tasks /\ v \notin tasks
    BY <2>3 DEF Starts
  <2>4. CASE t \in tasks /\ v \notin tasks
    BY <1>0, <1>2, <2>1, <2>4 DEF Starts, Clash, AtRest
  <2>5. CASE t \notin tasks /\ v \in tasks
    BY <1>0, <1>2, <2>1, <2>5 DEF Starts, Clash, AtRest
  <2> QED
    BY <2>2, <2>3, <2>4, <2>5
<1>3. CallsOf(r)'
  BY <1>1, <1>2 DEF CallsOf
<1>4. Unique(tasks, r) /\ Unique(tasks', r)
  BY <1>3 DEF CallsOf, Clash, Unique
<1>5. ASSUME NEW a, NEW kind
      PROVE  InLeg(tasks', r, a, kind, "token") = InLeg(tasks, r, a, kind, "token")
  <2>1. /\ \A t \in tasks : Matches(t, r, a, kind, "token") => t \in tasks'
        /\ \A t \in tasks' : Matches(t, r, a, kind, "token") => t \in tasks
    BY DEF Starts, Matches
  <2> QED
    BY <1>4, <2>1, InLegSame
<1> QED
  BY <1>3, <1>4, <1>5

\* What the user must have paid at a place of the handler, with a reservation b,
\* a charge n and a tracker that has aborted or not.
Fits(r, place, b, n, stopped) ==
  /\ place \in Early => Paid(r) = 0
  /\ place \in Reserved => Paid(r) = b
  /\ place \in Answering /\ "user" \notin missed[r] =>
       Paid(r) >= b + n /\ (~stopped \/ missed[r] = {} => Paid(r) = b + n)
  /\ place \in {"fail", "retry"} /\ missed[r] = {} => Paid(r) <= b + n
  /\ place = "fail" /\ "user" \notin missed[r] => Paid(r) >= b

LEMMA RestFits ==
  ASSUME IInv, NEW r \in Requests, BooksOf(r), AtRest(r),
         pc[r] \in Early \cup Reserved \cup Answering
  PROVE  Fits(r, pc[r], pre[r], charged[r], aborted[r])
<1>1. InLeg(tasks, r, attempt[r], "flush", "token") = 0
  BY RestLegs
<1>2. pre[r] \in Int /\ charged[r] \in Int
  BY DEF IInv, TypeOK
<1> QED
  BY <1>1, <1>2 DEF BooksOf, UserBooks, Fits, Early, Reserved, Answering

LEMMA SteadyBooks ==
  ASSUME IInv, NEW r \in Requests, BooksOf(r), AtRest(r),
         UNCHANGED <<handler, transport, stream, estimate>>,
         attempt'[r] = attempt[r], userPaid'[r] = userPaid[r], tokenPaid'[r] = tokenPaid[r],
         missed'[r] = missed[r], spent'[r] = spent[r],
         pc[r] # "decUser", pc'[r] \notin {"decUser", "bill"}, outcome'[r] = "none",
         NEW u, Starts(r, u), pre'[r] \in Int, charged'[r] \in Int,
         tasks' = tasks \/ "user" \in missed[r] \/ u.kind = "flush"
           \/ (Paid(r) >= -u.delta),
         Locals(r)', Marks(r)', Fits(r, pc'[r], pre'[r], charged'[r], aborted'[r])
  PROVE  BooksOf(r)'
<1>1. /\ CallsOf(r)' /\ Unique(tasks, r) /\ Unique(tasks', r)
      /\ \A a, kind : InLeg(tasks', r, a, kind, "token") = InLeg(tasks, r, a, kind, "token")
  BY StartCalls DEF BooksOf, Progress
<1>2. /\ Paid(r)' = Paid(r) /\ InLeg(tasks', r, attempt'[r], "flush", "token") = 0
      /\ \A a : HalfDone(r, a)' = HalfDone(r, a)
  BY <1>1, RestLegs DEF Paid, HalfDone
<1>3. UserBooks(r)'
  BY <1>2 DEF BooksOf, UserBooks, Fits
<1>4. BillBooks(r)' /\ FailBooks(r)'
  BY <1>2 DEF BooksOf, BillBooks, FailBooks, Fits
<1>5. RefundBooks(r)'
  <2>1. ASSUME NEW t \in tasks', t.req = r, t.kind \in {"refund", "net"}, t.leg # "token",
               "user" \notin missed[r], handler[r] # "response", transport[r] = "http"
        PROVE  userPaid[r][t.att] >= -t.delta
    <3>1. CASE t \in tasks
      BY <2>1, <3>1 DEF BooksOf, RefundBooks
    <3>2. CASE t \notin tasks
      BY <2>1, <3>2 DEF Starts, Paid
    <3> QED
      BY <3>1, <3>2
  <2> QED
    BY <1>2, <2>1 DEF BooksOf, RefundBooks, Fits
<1>6. TokenBooks(r)'
  BY <1>2 DEF BooksOf, TokenBooks
<1> QED
  BY <1>1, <1>3, <1>4, <1>5, <1>6 DEF BooksOf, Progress

LEMMA ReserveSteady ==
  ASSUME Books, IInv', NEW r \in Requests,
         \/ Start(r) \/ PreConsumeQuota(r) \/ CheckTokenQuota(r) \/ CheckUserQuota(r)
  PROVE  BooksOf(r)'
<1> USE DEF Books, IInv
<1>1. /\ UNCHANGED <<handler, transport, stream, estimate, attempt, userPaid, tokenPaid, missed,
                     spent, tasks, charged, aborted, outcome>>
      /\ pc[r] \in {"idle", "reserve", "checkToken", "checkUser"}
  BY DEF Start, PreConsumeQuota, CheckTokenQuota, CheckUserQuota, shape, tracker, ledger
<1>2. pc[r] \in Early /\ AtRest(r)
  BY <1>1, RestPlaces DEF Early
<1>3. /\ pre'[r] \in Int /\ pre'[r] <= estimate[r] /\ charged'[r] \in Int /\ Starts(r, 0)
      /\ outcome'[r] = "none" /\ Locals(r) /\ charged[r] = 0 /\ ~aborted[r]
  <2>1. pre[r] <= estimate[r] /\ estimate[r] \in Int /\ estimate[r] >= 0 /\ pre[r] \in Int
    <3>1. pre[r] <= estimate[r]
      BY DEF BooksOf, Progress, Locals
    <3>2. pre[r] \in Nat /\ estimate[r] \in Nat
      BY ConstantsAssumption DEF TypeOK
    <3> QED
      BY <3>1, <3>2
  <2>2. outcome[r] = "none" /\ Locals(r) /\ charged[r] = 0 /\ ~aborted[r]
    BY <1>1, <1>2 DEF BooksOf, Progress, Locals
  <2>3. pre'[r] \in {pre[r], 0, estimate[r]}
    BY DEF Start, PreConsumeQuota, CheckTokenQuota, CheckUserQuota, Refuse, TypeOK
  <2> QED
    BY <1>1, <2>1, <2>2, <2>3 DEF Starts, TypeOK
<1>4. \/ pc'[r] \in {"reserve", "checkToken", "checkUser", "decToken"}
      \/ pc'[r] = "retry" /\ pre'[r] = 0
      \/ pc'[r] = "convert" /\ pre'[r] = 0 /\ cpre'[Ctx(r)] = 0
  BY CtxType DEF Start, PreConsumeQuota, CheckTokenQuota, CheckUserQuota, Refuse,
     MarkPreConsumed, TypeOK
<1>5. Fits(r, pc[r], pre[r], charged[r], aborted[r])
  BY <1>2, RestFits
<1>6. Fits(r, pc'[r], pre'[r], charged'[r], aborted'[r])
  BY <1>1, <1>2, <1>3, <1>4, <1>5 DEF Fits, Early, Reserved, Answering
<1>7. Locals(r)'
  BY <1>1, <1>3, <1>4 DEF Locals
<1>8. Marks(r)'
  BY <1>1, <1>4 DEF Marks, Reserved, Answering, Ctx
<1> QED
  BY <1>1, <1>2, <1>3, <1>4, <1>6, <1>7, <1>8, SteadyBooks

\* A new refund, started by a failing helper or before post-billing.
LEMMA RefundShape ==
  ASSUME IInv, NEW r \in Requests, NEW sync \in BOOLEAN, Refund(r, sync),
         attempt'[r] = attempt[r], outcome'[r] # "ok", UNCHANGED <<handler, transport>>,
         \/ /\ pc'[r] = "fail"
            /\ sync \/ handler[r] = "response" \/ forwarded'[Ctx(r)]
         \/ pc'[r] = "bill" /\ sync
  PROVE  \E u : Starts(r, u) /\ u.kind = "refund" /\ u.delta = -pre[r]
<1>0. PICK u : u = Task(r, "refund", sync, -pre[r], "check")
  OBVIOUS
<1>1. /\ u.req = r /\ u.att = attempt[r] /\ u.kind = "refund" /\ u.sync = sync
      /\ u.delta = -pre[r] /\ u.leg = "check"
  BY <1>0 DEF Task
<1>2. pre[r] \in Int /\ -pre[r] \in Int /\ attempt[r] \in Int
  BY DEF IInv, TypeOK, Attempts
<1>3. u \in Tasks
  BY <1>0, <1>2, TaskType DEF IInv
<1>4. pre[r] > 0 => CallShape(u)'
  BY <1>1, <1>2 DEF CallShape, FlushCall, RefundCall, NetCall, BillCall, Ctx
<1>5. tasks' = IF pre[r] > 0 THEN tasks \cup {u} ELSE tasks
  BY <1>0 DEF Refund
<1>6. Starts(r, u)
  BY <1>1, <1>3, <1>4, <1>5 DEF Starts
<1> QED
  BY <1>1, <1>6

LEMMA FlushShape ==
  ASSUME IInv, NEW r \in Requests, NEW n \in Nat, Flush(r, n),
         attempt'[r] = attempt[r], UNCHANGED <<handler, transport, stream>>, stream[r],
         pc'[r] \in {"respond", "flushed"}, ~aborted'[r]
  PROVE  \E u : Starts(r, u) /\ u.kind = "flush"
<1>0. PICK u : u = Task(r, "flush", TRUE, FlushDelta(r, n), "check")
  OBVIOUS
<1>1. /\ u.req = r /\ u.att = attempt[r] /\ u.kind = "flush" /\ u.sync = TRUE
      /\ u.delta = FlushDelta(r, n) /\ u.leg = "check"
  BY <1>0 DEF Task
<1>2. FlushDelta(r, n) \in Int /\ attempt[r] \in Int
  BY DEF IInv, TypeOK, Attempts, FlushDelta, Positive
<1>3. u \in Tasks
  BY <1>0, <1>2, TaskType DEF IInv
<1>4. FlushDelta(r, n) > 0 => CallShape(u)'
  BY <1>1, <1>2 DEF CallShape, FlushCall, RefundCall, NetCall, BillCall
<1>5. tasks' = IF FlushDelta(r, n) > 0 THEN tasks \cup {u} ELSE tasks
  BY <1>0 DEF Flush
<1>6. Starts(r, u)
  BY <1>1, <1>3, <1>4, <1>5 DEF Starts
<1> QED
  BY <1>1, <1>6

\* A helper that gives up: whatever it paid stays until the refund has run.
LEMMA FailSteady ==
  ASSUME Books, IInv', NEW r \in Requests, AtRest(r),
         pc[r] \in Reserved \cup {"respond", "finalize", "flushed"}, pc'[r] = "fail",
         UNCHANGED <<handler, transport, stream, estimate, attempt, pre, charged, aborted,
                     userPaid, tokenPaid, missed, spent, outcome, cpre, forwarded>>,
         NEW sync \in BOOLEAN, tasks' = tasks \/ Refund(r, sync),
         sync \/ handler[r] = "response" \/ forwarded[Ctx(r)]
  PROVE  BooksOf(r)'
<1> USE DEF Books, IInv
<1>1. /\ pre[r] \in Int /\ charged[r] \in Int /\ pre[r] >= 0 /\ Locals(r) /\ Marks(r)
      /\ outcome[r] = "none" /\ charged[r] >= 0
  BY DEF TypeOK, BooksOf, Progress, Locals, Reserved
<1>2. Fits(r, pc[r], pre[r], charged[r], aborted[r])
  BY RestFits DEF Answering
<1>3. /\ Paid(r) \in Int /\ (pc[r] \in Reserved => charged[r] = 0)
  BY <1>1 DEF Paid, TypeOK, PerAttempt, Locals
<1>4. Fits(r, pc'[r], pre'[r], charged'[r], aborted'[r])
  BY <1>1, <1>2, <1>3 DEF Fits, Early, Reserved, Answering
<1>5. Locals(r)'
  BY <1>1 DEF Locals, Early, Reserved
<1>6. Marks(r)'
  BY <1>1 DEF Marks, Reserved, Answering, Ctx
<1>7. "user" \notin missed[r] => Paid(r) >= pre[r]
  BY <1>4 DEF Fits
<1>8. PICK u : Starts(r, u) /\ (tasks' = tasks \/ u.delta = -pre[r])
  <2>1. CASE tasks' = tasks
    BY <2>1 DEF Starts
  <2>2. CASE Refund(r, sync)
    BY <1>1, <2>2, RefundShape DEF Ctx
  <2> QED
    BY <2>1, <2>2
<1>9. tasks' = tasks \/ "user" \in missed[r] \/ u.kind = "flush" \/ Paid(r) >= -u.delta
  BY <1>1, <1>7, <1>8
<1> QED
  BY <1>1, <1>4, <1>5, <1>6, <1>8, <1>9, SteadyBooks DEF Reserved

\* A handler that goes on towards its answer, perhaps with a flush.
LEMMA OnwardSteady ==
  ASSUME Books, IInv', NEW r \in Requests, AtRest(r),
         pc[r] \in Reserved \cup Answering,
         \/ pc'[r] \in Reserved /\ pc[r] \in Reserved
         \/ pc'[r] \in Answering,
         pc'[r] = "sent" => transport[r] = "http",
         pc'[r] = "settle" => ~aborted[r],
         pc'[r] \in {"finalize", "flushed"} => stream[r],
         transport[r] = "http" /\ pc'[r] \in {"sent"} \cup Answering => forwarded'[Ctx(r)],
         UNCHANGED <<handler, transport, stream, estimate, attempt, pre, charged, aborted,
                     userPaid, tokenPaid, missed, spent, outcome, cpre>>,
         NEW u, Starts(r, u), tasks' = tasks \/ u.kind = "flush"
  PROVE  BooksOf(r)'
<1> USE DEF Books, IInv
<1>1. /\ pre[r] \in Int /\ charged[r] \in Int /\ Locals(r) /\ Marks(r) /\ outcome[r] = "none"
  BY DEF TypeOK, BooksOf, Progress, Locals, Reserved, Answering
<1>2. Fits(r, pc[r], pre[r], charged[r], aborted[r])
  BY RestFits
<1>3. Paid(r) \in Int /\ (pc[r] \in Reserved => charged[r] = 0)
  BY <1>1 DEF Paid, TypeOK, PerAttempt, Locals
<1>4. Fits(r, pc'[r], pre'[r], charged'[r], aborted'[r])
  BY <1>1, <1>2, <1>3 DEF Fits, Early, Reserved, Answering
<1>5. Locals(r)'
  BY <1>1 DEF Locals, Early, Reserved, Answering
<1>6. Marks(r)'
  BY <1>1 DEF Marks, Reserved, Answering, Ctx
<1>7. pc[r] # "decUser" /\ pc'[r] \notin {"decUser", "bill"}
  BY DEF Reserved, Answering
<1> QED
  BY <1>1, <1>4, <1>5, <1>6, <1>7, SteadyBooks

LEMMA NoTask ==
  ASSUME tasks' = tasks, NEW r PROVE \E u : Starts(r, u)
  BY DEF Starts

LEMMA ForwardBooks ==
  ASSUME Books, IInv', NEW r \in Requests, Forward(r)
  PROVE  BooksOf(r)'
<1> USE DEF Books, IInv
<1>1. /\ UNCHANGED <<handler, transport, stream, estimate, attempt, pre, charged, aborted,
                     userPaid, tokenPaid, missed, spent, outcome, cpre>>
      /\ pc[r] \in Reserved
  BY DEF Forward, ConvertRequest, DoRequest, UpstreamReplies, shape, tracker, ledger, context,
     Reserved
<1>2. AtRest(r) /\ Locals(r) /\ Marks(r)
  BY <1>1, RestPlaces DEF BooksOf, Progress
<1>3. /\ handler[r] \in {"text", "response", "rerank"} /\ transport[r] \in {"http", "sdk"}
      /\ Ctx(r) \in Contexts /\ Ctx(r)' = Ctx(r)
  BY ConstantsAssumption, CtxType DEF TypeOK, Ctx
<1>4. ASSUME DoRequestFailed(r) \/ (Fail(r) /\ ConvertFailed(r)), UNCHANGED forwarded
      PROVE  BooksOf(r)'
  <2>1. pc'[r] = "fail"
    BY <1>4 DEF DoRequestFailed, Fail, TypeOK
  <2>2. \/ tasks' = tasks \/ Refund(r, TRUE)
        \/ Refund(r, FALSE) /\ handler[r] = "response"
    BY <1>3, <1>4 DEF DoRequestFailed, ConvertFailed
  <2>3. CASE tasks' = tasks \/ Refund(r, TRUE)
    BY <1>1, <1>2, <1>4, <2>1, <2>3, FailSteady
  <2>4. CASE Refund(r, FALSE) /\ handler[r] = "response"
    BY <1>1, <1>2, <1>4, <2>1, <2>4, FailSteady
  <2> QED
    BY <2>2, <2>3, <2>4
<1>5. ASSUME tasks' = tasks,
             \/ pc[r] = "convert" /\ pc'[r] = "send"
             \/ pc'[r] = "sent" /\ transport[r] = "http" /\ forwarded'[Ctx(r)]
             \/ pc'[r] = "respond" /\ (transport[r] = "http" => forwarded'[Ctx(r)])
      PROVE  BooksOf(r)'
  <2>1. PICK u : Starts(r, u)
    BY <1>5, NoTask
  <2> QED
    BY <1>1, <1>2, <1>3, <1>5, <2>1, OnwardSteady DEF Reserved, Answering
<1>6. CASE ConvertRequest(r)
  BY <1>4, <1>5, <1>6 DEF ConvertRequest, context, TypeOK
<1>7. CASE DoRequest(r)
  <2>1. CASE DoRequestFailed(r) /\ UNCHANGED forwarded
    BY <1>4, <2>1
  <2>2. CASE /\ transport[r] = "http" /\ forwarded' = [forwarded EXCEPT ![Ctx(r)] = TRUE]
             /\ pc' = [pc EXCEPT ![r] = "sent"] /\ UNCHANGED tasks
    BY <1>3, <1>5, <2>2 DEF TypeOK
  <2>3. CASE transport[r] = "sdk" /\ pc' = [pc EXCEPT ![r] = "respond"] /\ UNCHANGED tasks
    BY <1>5, <2>3 DEF TypeOK
  <2> QED
    BY <1>7, <2>1, <2>2, <2>3 DEF DoRequest
<1>8. CASE UpstreamReplies(r)
  <2>1. pc[r] = "sent" /\ UNCHANGED forwarded /\ forwarded[Ctx(r)] /\ forwarded'[Ctx(r)]
    BY <1>2, <1>8 DEF UpstreamReplies, context, Locals, Marks
  <2>2. CASE DoRequestFailed(r)
    BY <1>4, <2>1, <2>2
  <2>3. CASE Fail(r) /\ Refund(r, FALSE)
    <3>1. pc'[r] = "fail"
      BY <2>3 DEF Fail, TypeOK
    <3> QED
      BY <1>1, <1>2, <2>1, <2>3, <3>1, FailSteady
  <2>4. CASE pc' = [pc EXCEPT ![r] = "respond"] /\ UNCHANGED tasks
    BY <1>5, <2>1, <2>4 DEF TypeOK
  <2> QED
    BY <1>8, <2>2, <2>3, <2>4 DEF UpstreamReplies
<1> QED
  BY <1>6, <1>7, <1>8 DEF Forward

LEMMA AnswerBooks ==
  ASSUME Books, IInv', NEW r \in Requests, RecordCompletionTokens(r) \/ Answer(r)
  PROVE  BooksOf(r)'
<1> USE DEF Books, IInv
<1>1. /\ UNCHANGED <<handler, transport, stream, estimate, attempt, pre, charged, aborted,
                     userPaid, tokenPaid, missed, spent, outcome, cpre, forwarded>>
      /\ pc[r] \in {"respond", "finalize", "flushed"} /\ ~Busy(r)
  BY DEF RecordCompletionTokens, Answer, DoResponse, Finalize, shape, tracker, ledger, context
<1>2. AtRest(r) /\ Locals(r) /\ Marks(r) /\ pc[r] \in Answering
  BY <1>1, RestPlaces DEF BooksOf, Progress, Answering
<1>3. /\ handler[r] \in {"text", "response", "rerank"} /\ transport[r] \in {"http", "sdk"}
      /\ Ctx(r)' = Ctx(r) /\ (transport[r] = "http" => forwarded'[Ctx(r)])
  BY <1>1, <1>2, ConstantsAssumption DEF TypeOK, Ctx, Marks
<1>4. CASE RecordCompletionTokens(r)
  <2>1. PICK n \in Usages : UNCHANGED tasks \/ Flush(r, n)
    BY <1>4 DEF RecordCompletionTokens
  <2>2. n \in Nat /\ pc[r] = "respond" /\ pc' = pc /\ stream[r] /\ ~aborted[r]
    BY <1>4, ConstantsAssumption DEF RecordCompletionTokens
  <2>3. PICK u : Starts(r, u) /\ (tasks' = tasks \/ u.kind = "flush")
    <3>1. CASE UNCHANGED tasks
      BY <3>1, NoTask
    <3>2. CASE Flush(r, n)
      BY <1>1, <2>2, <3>2, FlushShape
    <3> QED
      BY <2>1, <3>1, <3>2
  <2> QED
    BY <1>1, <1>2, <1>3, <2>2, <2>3, OnwardSteady DEF Answering
<1>5. CASE DoResponse(r)
  <2>1. CASE Fail(r) /\ Refund(r, handler[r] = "text")
    <3>1. pc'[r] = "fail" /\ (handler[r] = "text") \in BOOLEAN
      BY <2>1 DEF Fail, TypeOK
    <3>2. (handler[r] = "text") \/ handler[r] = "response" \/ forwarded[Ctx(r)]
      BY <1>1, <1>2, <1>3 DEF Locals
    <3> QED
      BY <1>1, <1>2, <2>1, <3>1, <3>2, FailSteady
  <2>2. CASE pc' = [pc EXCEPT ![r] = IF stream[r] THEN "finalize" ELSE "settle"] /\ UNCHANGED tasks
    <3>1. PICK u : Starts(r, u)
      BY <2>2, NoTask
    <3>2. ~stream[r] => ~aborted[r]
      BY <1>2 DEF Locals
    <3>3. (pc'[r] = "finalize" /\ stream[r]) \/ (pc'[r] = "settle" /\ ~stream[r])
      BY <2>2 DEF TypeOK
    <3> QED
      BY <1>1, <1>2, <1>3, <2>2, <3>1, <3>2, <3>3, OnwardSteady DEF Answering
  <2> QED
    BY <1>5, <2>1, <2>2 DEF DoResponse
<1>6. CASE Finalize(r)
  <2>1. CASE pc[r] \in {"finalize", "flushed"} /\ Fail(r) /\ Refund(r, TRUE)
    <3>1. pc'[r] = "fail"
      BY <2>1 DEF Fail, TypeOK
    <3> QED
      BY <1>1, <1>2, <2>1, <3>1, FailSteady
  <2>2. CASE /\ pc[r] = "finalize" /\ ~aborted[r] /\ pc' = [pc EXCEPT ![r] = "flushed"]
             /\ Flush(r, used[r])
    <3>1. pc'[r] = "flushed" /\ stream[r] /\ used[r] \in Nat
      BY <1>2, <2>2 DEF TypeOK, Locals
    <3>2. PICK u : Starts(r, u) /\ u.kind = "flush"
      BY <1>1, <2>2, <3>1, FlushShape
    <3> QED
      BY <1>1, <1>2, <1>3, <3>1, <3>2, OnwardSteady DEF Answering
  <2>3. CASE /\ pc[r] = "flushed" /\ ~aborted[r] /\ pc' = [pc EXCEPT ![r] = "settle"]
             /\ UNCHANGED tasks
    <3>1. PICK u : Starts(r, u)
      BY <2>3, NoTask
    <3>2. pc'[r] = "settle"
      BY <2>3 DEF TypeOK
    <3> QED
      BY <1>1, <1>2, <1>3, <2>3, <3>1, <3>2, OnwardSteady DEF Answering
  <2> QED
    BY <1>6, <2>1, <2>2, <2>3 DEF Finalize
<1> QED
  BY <1>4, <1>5, <1>6 DEF Answer

-----------------------------------------------------------------------------
(* The reservation takes from the token, then from the user. *)

LEMMA HalfType ==
  ASSUME IInv, NEW r \in Requests, CallsOf(r)
  PROVE  \A a : HalfDone(r, a) \in Int
<1>1. Unique(tasks, r) /\ tasks \in SUBSET Tasks
  BY CallsUnique DEF IInv, TypeOK
<1>2. \A a, kind, leg : InLeg(tasks, r, a, kind, leg) \in Int
  BY <1>1, InLegType
<1> QED
  BY <1>2 DEF HalfDone

\* What the two steps share: no call starts, and the tracker is fresh.
LEMMA TakeFrame ==
  ASSUME Books, NEW r \in Requests, pc[r] \in {"decToken", "decUser"},
         UNCHANGED <<handler, attempt, tasks>>
  PROVE  /\ CallsOf(r)' /\ \A a : HalfDone(r, a)' = HalfDone(r, a) /\ HalfDone(r, a) \in Int
         /\ AtRest(r) /\ Locals(r) /\ Paid(r) = 0 /\ charged[r] = 0 /\ ~aborted[r]
         /\ outcome[r] = "none" /\ pre[r] \in Nat /\ estimate[r] \in Nat
         /\ userPaid[r] \in PerAttempt /\ tokenPaid[r] \in PerAttempt /\ attempt[r] \in Attempts
<1> USE DEF Books
<1>1. AtRest(r) /\ BooksOf(r)
  BY RestPlaces DEF Early
<1>2. Starts(r, 0)
  BY DEF Starts
<1>3. CallsOf(r)' /\ \A a : HalfDone(r, a)' = HalfDone(r, a)
  BY <1>1, <1>2, StartCalls DEF BooksOf, Progress, HalfDone
<1>4. \A a : HalfDone(r, a) \in Int
  BY <1>1, HalfType DEF BooksOf, Progress
<1>5. Locals(r) /\ Paid(r) = 0 /\ charged[r] = 0 /\ ~aborted[r] /\ outcome[r] = "none"
  BY <1>1 DEF BooksOf, Progress, Locals, UserBooks, Early
<1>6. pre[r] \in Nat /\ estimate[r] \in Nat
  BY ConstantsAssumption DEF IInv, TypeOK
<1>7. userPaid[r] \in PerAttempt /\ tokenPaid[r] \in PerAttempt /\ attempt[r] \in Attempts
  BY DEF IInv, TypeOK
<1> QED
  BY <1>1, <1>3, <1>4, <1>5, <1>6, <1>7

LEMMA TakeTokenBooks ==
  ASSUME Books, NEW r \in Requests, DecreaseTokenQuota(r)
  PROVE  BooksOf(r)'
<1> USE DEF Books, IInv
<1>1. /\ UNCHANGED <<handler, transport, stream, estimate, attempt, used, charged, aborted, cpre,
                     forwarded, reconciled, tasks, outcome, userPaid, missed, spent>>
      /\ pc[r] = "decToken"
  BY DEF DecreaseTokenQuota, shape, tracker, context
<1>2. /\ CallsOf(r)' /\ \A a : HalfDone(r, a)' = HalfDone(r, a) /\ HalfDone(r, a) \in Int
      /\ AtRest(r) /\ Locals(r) /\ Paid(r) = 0 /\ charged[r] = 0 /\ ~aborted[r]
      /\ outcome[r] = "none" /\ pre[r] \in Nat /\ estimate[r] \in Nat
      /\ userPaid[r] \in PerAttempt /\ tokenPaid[r] \in PerAttempt /\ attempt[r] \in Attempts
  BY <1>1, TakeFrame
<1>3. \/ pc'[r] = "decUser" /\ pre'[r] = pre[r]
      \/ pc'[r] = "retry" /\ pre'[r] = 0 /\ tokenPaid' = tokenPaid
  BY DEF DecreaseTokenQuota, Refuse, TypeOK
<1>4. /\ \A a \in Attempts : a # attempt[r] => tokenPaid'[r][a] = tokenPaid[r][a]
      /\ pc'[r] = "decUser" /\ ~Unlimited
           => tokenPaid'[r][attempt[r]] = tokenPaid[r][attempt[r]] + pre[r]
  <2>1. CASE tokenPaid' = tokenPaid
    BY <1>3, <2>1 DEF DecreaseTokenQuota, Refuse, TypeOK, PerAttempt
  <2>2. CASE tokenPaid' = [tokenPaid EXCEPT ![r][attempt[r]] = @ + pre[r]]
    <3>1. tokenPaid \in [Requests -> PerAttempt] /\ attempt[r] \in Attempts /\ pre[r] \in Int
      BY DEF TypeOK
    <3>2. /\ tokenPaid'[r][attempt[r]] = tokenPaid[r][attempt[r]] + pre[r]
          /\ \A s \in Requests, b \in Attempts :
               s # r \/ b # attempt[r] => tokenPaid'[s][b] = tokenPaid[s][b]
      BY <2>2, <3>1 DEF PerAttempt
    <3> QED
      BY <3>2
  <2> QED
    BY <2>1, <2>2 DEF DecreaseTokenQuota
<1>5. Paid(r)' = 0 /\ attempt'[r] \in Int
  BY <1>1, <1>2 DEF Paid, Attempts
<1>6. Locals(r)' /\ Marks(r)'
  BY <1>1, <1>2, <1>3 DEF Locals, Marks, Early, Reserved, Answering
<1>7. UserBooks(r)'
  BY <1>1, <1>3, <1>4, <1>5 DEF BooksOf, UserBooks, Early, Reserved, Answering
<1>8. BillBooks(r)' /\ FailBooks(r)' /\ RefundBooks(r)'
  BY <1>1, <1>2, <1>3, <1>5 DEF BooksOf, BillBooks, FailBooks, RefundBooks
<1>9. TokenBooks(r)'
  <2> SUFFICES ASSUME NEW a \in Attempts, ~Unlimited, missed[r] = {}
               PROVE  userPaid[r][a] - tokenPaid'[r][a] =
                        HalfDone(r, a) - (IF a = attempt[r] /\ pc'[r] = "decUser" THEN pre'[r] ELSE 0)
    BY <1>1, <1>2 DEF TokenBooks
  <2>1. userPaid[r][a] - tokenPaid[r][a] = HalfDone(r, a)
    BY <1>1, <1>2 DEF BooksOf, TokenBooks
  <2>2. userPaid[r][a] \in Int /\ tokenPaid[r][a] \in Int
    BY <1>2 DEF PerAttempt
  <2> QED
    BY <1>2, <1>3, <1>4, <2>1, <2>2
<1> QED
  BY <1>2, <1>6, <1>7, <1>8, <1>9 DEF BooksOf, Progress

LEMMA TakeUserBooks ==
  ASSUME Books, NEW r \in Requests, DecreaseUserQuota(r)
  PROVE  BooksOf(r)'
<1> USE DEF Books, IInv
<1>1. /\ UNCHANGED <<handler, transport, stream, estimate, attempt, used, charged, aborted,
                     forwarded, reconciled, tasks, outcome, tokenPaid, spent>>
      /\ pc[r] = "decUser"
  BY DEF DecreaseUserQuota, shape, tracker
<1>2. /\ CallsOf(r)' /\ \A a : HalfDone(r, a)' = HalfDone(r, a) /\ HalfDone(r, a) \in Int
      /\ AtRest(r) /\ Locals(r) /\ Paid(r) = 0 /\ charged[r] = 0 /\ ~aborted[r]
      /\ outcome[r] = "none" /\ pre[r] \in Nat /\ estimate[r] \in Nat
      /\ userPaid[r] \in PerAttempt /\ tokenPaid[r] \in PerAttempt /\ attempt[r] \in Attempts
  BY <1>1, TakeFrame
<1>3. CASE pc'[r] = "retry" /\ pre'[r] = 0 /\ userPaid' = userPaid /\ "user" \in missed'[r]
  <2>1. Locals(r)' /\ Marks(r)'
    BY <1>1, <1>2, <1>3 DEF Locals, Marks, Early, Reserved, Answering
  <2>2. UserBooks(r)'
    BY <1>1, <1>3 DEF BooksOf, UserBooks, Early, Reserved, Answering
  <2>3. BillBooks(r)' /\ FailBooks(r)' /\ RefundBooks(r)' /\ TokenBooks(r)'
    BY <1>1, <1>3 DEF BillBooks, FailBooks, RefundBooks, TokenBooks
  <2> QED
    BY <1>2, <2>1, <2>2, <2>3 DEF BooksOf, Progress
<1>4. CASE /\ pc'[r] = "convert" /\ pre' = pre /\ missed' = missed /\ cpre'[Ctx(r)] = pre[r]
           /\ userPaid' = [userPaid EXCEPT ![r][attempt[r]] = @ + pre[r]]
  <2>1. /\ \A a \in Attempts : a # attempt[r] => userPaid'[r][a] = userPaid[r][a]
        /\ userPaid'[r][attempt[r]] = pre[r]
    <3>1. userPaid \in [Requests -> PerAttempt] /\ attempt[r] \in Attempts /\ pre[r] \in Int
      BY DEF TypeOK
    <3>2. userPaid[r][attempt[r]] = 0
      BY <1>2 DEF Paid
    <3>3. /\ userPaid'[r][attempt[r]] = userPaid[r][attempt[r]] + pre[r]
          /\ \A s \in Requests, b \in Attempts :
               s # r \/ b # attempt[r] => userPaid'[s][b] = userPaid[s][b]
      BY <1>4, <3>1 DEF PerAttempt
    <3> QED
      BY <3>1, <3>2, <3>3
  <2>2. Paid(r)' = pre[r] /\ attempt[r] \in Int
    BY <1>1, <1>2, <2>1 DEF Paid, Attempts
  <2>3. Locals(r)'
    BY <1>1, <1>2, <1>4 DEF Locals, Early, Reserved
  <2>4. Marks(r)'
    BY <1>1, <1>4 DEF Marks, Reserved, Answering, Ctx
  <2>5. UserBooks(r)'
    BY <1>1, <1>2, <1>4, <2>1, <2>2 DEF BooksOf, UserBooks, Early, Reserved, Answering
  <2>6. BillBooks(r)' /\ FailBooks(r)'
    BY <1>1, <1>2, <1>4, <2>1, <2>2 DEF BooksOf, BillBooks, FailBooks
  <2>7. RefundBooks(r)'
    <3>1. \A t \in tasks : t.req = r => t.att # attempt[r] /\ t.att \in Attempts
      BY <1>2, <2>2 DEF AtRest, TypeOK, Tasks, Attempts
    <3> QED
      BY <1>1, <1>2, <1>4, <2>1, <3>1 DEF BooksOf, RefundBooks
  <2>8. TokenBooks(r)'
    <3> SUFFICES ASSUME NEW a \in Attempts, ~Unlimited, missed[r] = {}
                 PROVE  userPaid'[r][a] - tokenPaid[r][a] = HalfDone(r, a)
      BY <1>1, <1>2, <1>4 DEF TokenBooks
    <3>1. userPaid[r][a] - tokenPaid[r][a] =
            HalfDone(r, a) - (IF a = attempt[r] THEN pre[r] ELSE 0)
      BY <1>1, <1>2 DEF BooksOf, TokenBooks
    <3>2. userPaid[r][a] \in Int /\ tokenPaid[r][a] \in Int
      BY <1>2 DEF PerAttempt
    <3>3. userPaid[r][attempt[r]] = 0
      BY <1>2 DEF Paid
    <3> QED
      BY <1>2, <2>1, <3>1, <3>2, <3>3
  <2> QED
    BY <1>2, <2>3, <2>4, <2>5, <2>6, <2>7, <2>8 DEF BooksOf, Progress
<1> QED
  BY <1>3, <1>4, CtxType DEF DecreaseUserQuota, Refuse, MarkPreConsumed, TypeOK

-----------------------------------------------------------------------------
(* Settling: the last refund, post-billing, the audit and the retry. *)

LEMMA LocalTypes ==
  ASSUME IInv, NEW r \in Requests
  PROVE  /\ pre[r] \in Nat /\ charged[r] \in Int /\ Paid(r) \in Int /\ estimate[r] \in Nat
         /\ used[r] \in Nat /\ attempt[r] \in Int /\ transport[r] \in {"http", "sdk"}
         /\ handler[r] \in {"text", "response", "rerank"}
<1> USE DEF IInv
<1>0. attempt[r] \in Attempts /\ userPaid[r] \in PerAttempt
  BY DEF TypeOK
<1>1. Paid(r) \in Int /\ attempt[r] \in Int
  <2>1. Paid(r) \in Int
    BY <1>0 DEF Paid, PerAttempt
  <2>2. attempt[r] \in Int
    BY <1>0 DEF Attempts
  <2> QED
    BY <2>1, <2>2
<1>2. estimate[r] \in Nat /\ pre[r] \in Nat /\ charged[r] \in Int /\ used[r] \in Nat
  BY ConstantsAssumption DEF TypeOK
<1>3. transport[r] \in {"http", "sdk"} /\ handler[r] \in {"text", "response", "rerank"}
  BY ConstantsAssumption DEF TypeOK
<1> QED
  BY <1>1, <1>2, <1>3

LEMMA ReconcileBooks ==
  ASSUME Books, IInv', NEW r \in Requests, PreBillingReconcile(r)
  PROVE  BooksOf(r)'
<1> USE DEF Books, IInv
<1>1. /\ UNCHANGED <<handler, transport, stream, estimate, attempt, used, charged, aborted, cpre,
                     forwarded, reconciled, outcome, userPaid, tokenPaid, missed, spent>>
      /\ pc[r] = "settle" /\ pc'[r] = "bill"
  BY DEF PreBillingReconcile, shape, tracker, context, ledger, TypeOK
<1>2. /\ AtRest(r) /\ BooksOf(r) /\ Locals(r) /\ Marks(r) /\ CallsOf(r) /\ outcome[r] = "none"
      /\ ~aborted[r]
  BY <1>1, RestPlaces DEF BooksOf, Progress, Locals
<1>3. /\ pre[r] \in Nat /\ charged[r] \in Int /\ Paid(r) \in Int /\ estimate[r] \in Nat
      /\ handler[r] \in {"text", "response", "rerank"}
  BY LocalTypes
<1>4. "user" \notin missed[r] => Paid(r) = pre[r] + charged[r]
  <2>1. Fits(r, pc[r], pre[r], charged[r], aborted[r])
    BY <1>1, <1>2, RestFits DEF Answering
  <2> QED
    BY <1>1, <1>2, <2>1 DEF Fits, Answering
<1>5. pre'[r] = IF handler[r] = "rerank" THEN 0 ELSE pre[r]
  BY DEF PreBillingReconcile, TypeOK
<1>6. PICK u : Starts(r, u) /\ (tasks' = tasks \/ u.delta = -pre[r])
  <2>1. CASE tasks' = tasks
    BY <2>1 DEF Starts
  <2>2. CASE Refund(r, TRUE)
    <3>1. PICK u : Starts(r, u) /\ u.kind = "refund" /\ u.delta = -pre[r]
      BY <1>1, <1>2, <2>2, RefundShape
    <3> QED
      BY <3>1
  <2> QED
    BY <2>1, <2>2 DEF PreBillingReconcile
<1>7. /\ CallsOf(r)' /\ Paid(r)' = Paid(r)
      /\ \A a : HalfDone(r, a)' = HalfDone(r, a)
  BY <1>1, <1>2, <1>6, StartCalls DEF HalfDone, Paid
<1>8. Locals(r)'
  BY <1>1, <1>2, <1>3, <1>5 DEF Locals, Early, Reserved
<1>9. Marks(r)'
  BY <1>1, <1>2 DEF Marks, Reserved, Answering, Ctx
<1>10. UserBooks(r)'
  <2>1. handler[r] = "rerank" => charged[r] = 0 /\ pre[r] <= estimate[r]
    BY <1>2 DEF Locals
  <2> QED
    BY <1>1, <1>2, <1>3, <1>4, <1>5, <1>7, <2>1 DEF BooksOf, UserBooks, Early, Reserved, Answering
<1>11. BillBooks(r)' /\ FailBooks(r)' /\ TokenBooks(r)'
  BY <1>1, <1>2, <1>7 DEF BooksOf, BillBooks, FailBooks, TokenBooks
<1>12. RefundBooks(r)'
  <2>1. ASSUME NEW t \in tasks', t.req = r, t.kind \in {"refund", "net"}, t.leg # "token",
               "user" \notin missed[r], handler[r] # "response", transport[r] = "http"
        PROVE  userPaid[r][t.att] >= -t.delta
    <3>1. CASE t \in tasks
      BY <1>2, <2>1, <3>1 DEF BooksOf, RefundBooks
    <3>2. CASE t \notin tasks
      <4>1. t.delta = -pre[r] /\ t.att = attempt[r] /\ charged[r] >= 0
        BY <1>2, <1>6, <3>2 DEF Starts, Locals
      <4> QED
        BY <1>3, <1>4, <2>1, <4>1 DEF Paid
    <3> QED
      BY <3>1, <3>2
  <2> QED
    BY <1>1, <1>2, <2>1 DEF BooksOf, RefundBooks
<1> QED
  BY <1>7, <1>8, <1>9, <1>10, <1>11, <1>12 DEF BooksOf, Progress

\* Post-billing asks for the difference between the price and what was paid.
LEMMA BillingBooks ==
  ASSUME Books, IInv', NEW r \in Requests, PostConsumeQuota(r)
  PROVE  BooksOf(r)'
<1> USE DEF Books, IInv
<1>1. /\ UNCHANGED <<handler, transport, stream, estimate, attempt, used, pre, charged, aborted,
                     userPaid, tokenPaid, missed, spent>>
      /\ pc[r] = "bill" /\ ~Busy(r) /\ pc'[r] = "done" /\ outcome'[r] = "ok"
  BY DEF PostConsumeQuota, shape, tracker, ledger, TypeOK
<1>2. /\ AtRest(r) /\ BooksOf(r) /\ Locals(r) /\ CallsOf(r) /\ ~aborted[r]
      /\ charged[r] >= 0 /\ (handler[r] = "rerank" => pre[r] = 0)
      /\ (handler[r] # "text" => charged[r] = 0 /\ transport[r] # "sdk")
  BY <1>1, RestPlaces DEF BooksOf, Progress, Locals
<1>3. /\ pre[r] \in Nat /\ charged[r] \in Int /\ Paid(r) \in Int /\ estimate[r] \in Nat
      /\ used[r] \in Nat /\ attempt[r] \in Int /\ transport[r] \in {"http", "sdk"}
      /\ handler[r] \in {"text", "response", "rerank"}
  BY LocalTypes
<1>4. "user" \notin missed[r] =>
        /\ handler[r] = "rerank" => Paid(r) \in 0 .. estimate[r]
        /\ handler[r] # "rerank" => Paid(r) <= pre[r] + charged[r]
        /\ handler[r] # "rerank" /\ transport[r] = "http" => Paid(r) = pre[r] + charged[r]
  BY <1>1, <1>2 DEF BooksOf, UserBooks
<1>5. PICK u : u = Task(r, "bill", FALSE, FinalDelta(r), "user")
  OBVIOUS
<1>6. /\ u.req = r /\ u.att = attempt[r] /\ u.kind = "bill" /\ u.sync = FALSE
      /\ u.delta = FinalDelta(r) /\ u.leg = "user"
  BY <1>5 DEF Task
<1>7. FinalDelta(r) = used[r] - pre[r] - charged[r] /\ FinalDelta(r) \in Int
  BY <1>3 DEF FinalDelta
<1>8. tasks' = IF KeepsReservation(r) THEN tasks ELSE tasks \cup {u}
  BY <1>5 DEF PostConsumeQuota
<1>9. Starts(r, u)
  <2>1. u \in Tasks
    BY <1>5, <1>7, TaskType
  <2>2. CallShape(u)'
    BY <1>1, <1>3, <1>6 DEF CallShape, FlushCall, RefundCall, NetCall, BillCall
  <2> QED
    BY <1>6, <1>8, <2>1, <2>2 DEF Starts
<1>10. /\ CallsOf(r)' /\ Paid(r)' = Paid(r) /\ Unique(tasks', r)
       /\ \A a : HalfDone(r, a)' = HalfDone(r, a)
  BY <1>1, <1>2, <1>9, StartCalls DEF HalfDone, Paid
<1>11. InLeg(tasks', r, attempt[r], "bill", "user") = IF KeepsReservation(r) THEN 0 ELSE FinalDelta(r)
  <2>1. CASE KeepsReservation(r)
    BY <1>2, <1>8, <2>1, RestLegs
  <2>2. CASE ~KeepsReservation(r)
    BY <1>6, <1>8, <1>10, <2>2, InLegIs DEF Matches
  <2> QED
    BY <2>1, <2>2
<1>12. Locals(r)' /\ Marks(r)'
  BY <1>1, <1>2 DEF Locals, Marks, Early, Reserved, Answering
<1>13. UserBooks(r)'
  BY <1>1, <1>2 DEF BooksOf, UserBooks, Early, Reserved, Answering
<1>14. BillBooks(r)'
  <2>1. Total(r)' = Paid(r) + IF KeepsReservation(r) THEN 0 ELSE FinalDelta(r)
    BY <1>1, <1>10, <1>11 DEF Total
  <2>2. Due(r)' = IF used[r] = 0 /\ pre[r] > 0 THEN pre[r] + charged[r] ELSE used[r]
    BY <1>1 DEF Due
  <2>3. CASE "user" \in missed[r]
    BY <1>1, <2>3 DEF BillBooks
  <2>4. CASE "user" \notin missed[r] /\ handler[r] = "rerank"
    <3>1. ~KeepsReservation(r) /\ Due(r)' = used[r] /\ FinalDelta(r) = used[r]
      BY <1>2, <1>3, <1>7, <2>2, <2>4 DEF KeepsReservation
    <3>2. Total(r)' \in used[r] .. (used[r] + estimate[r])
      BY <1>3, <1>4, <2>1, <2>4, <3>1
    <3> QED
      BY <1>1, <2>4, <3>1, <3>2 DEF BillBooks
  <2>5. CASE "user" \notin missed[r] /\ handler[r] # "rerank"
    <3>1. CASE KeepsReservation(r)
      <4>1. used[r] = 0 /\ Due(r)' = pre[r] + charged[r] /\ Total(r)' = Paid(r)
        BY <1>2, <1>3, <2>1, <2>2, <3>1 DEF KeepsReservation
      <4> QED
        BY <1>1, <1>4, <2>5, <4>1 DEF BillBooks
    <3>2. CASE ~KeepsReservation(r)
      <4>1. Due(r)' = used[r] /\ Total(r)' = Paid(r) + (used[r] - pre[r] - charged[r])
        BY <1>3, <1>7, <2>1, <2>2, <2>5, <3>2 DEF KeepsReservation
      <4> QED
        BY <1>1, <1>3, <1>4, <2>5, <4>1 DEF BillBooks
    <3> QED
      BY <3>1, <3>2
  <2> QED
    BY <2>3, <2>4, <2>5
<1>15. FailBooks(r)' /\ TokenBooks(r)'
  BY <1>1, <1>2, <1>10 DEF BooksOf, FailBooks, TokenBooks
<1>16. RefundBooks(r)'
  BY <1>1, <1>2, <1>6, <1>8 DEF BooksOf, RefundBooks
<1> QED
  BY <1>10, <1>12, <1>13, <1>14, <1>15, <1>16 DEF BooksOf, Progress

\* The audit gives back a reservation that nothing else gives back.
LEMMA AuditBooks ==
  ASSUME Books, IInv', NEW r \in Requests, BillingAuditSafetyNet(r)
  PROVE  BooksOf(r)'
<1> USE DEF Books, IInv
<1>1. /\ UNCHANGED <<handler, transport, stream, estimate, attempt, used, pre, charged, aborted,
                     cpre, forwarded, reconciled, outcome, userPaid, tokenPaid, missed, spent>>
      /\ pc[r] = "fail" /\ ~Busy(r) /\ pc'[r] = "retry"
  BY DEF BillingAuditSafetyNet, shape, tracker, context, ledger, TypeOK
<1>2. /\ BooksOf(r) /\ Locals(r) /\ Marks(r) /\ CallsOf(r) /\ cpre[Ctx(r)] = pre[r]
      /\ outcome[r] = "none"
  BY <1>1 DEF BooksOf, Progress, Locals, Marks
<1>3. pre[r] \in Nat /\ Paid(r) \in Int /\ attempt[r] \in Int /\ Ctx(r)' = Ctx(r)
  BY LocalTypes DEF Ctx
<1>4. PICK u : u = Task(r, "net", FALSE, -pre[r], "user")
  OBVIOUS
<1>5. /\ u.req = r /\ u.att = attempt[r] /\ u.kind = "net" /\ u.sync = FALSE
      /\ u.delta = -pre[r] /\ u.leg = "user"
  BY <1>4 DEF Task
<1>6. tasks' = IF AuditRefunds(r) THEN tasks \cup {u} ELSE tasks
  BY <1>2, <1>4 DEF BillingAuditSafetyNet
<1>7. AuditRefunds(r) => pre[r] > 0 /\ ~reconciled[Ctx(r)] /\ ~forwarded[Ctx(r)]
  BY <1>2 DEF AuditRefunds
<1>8. ASSUME NEW t \in tasks, t.req = r
      PROVE  /\ CallShape(t) /\ ~t.sync /\ t.kind \in {"refund", "net"}
             /\ t.att = attempt[r] =>
                  t.kind = "refund" /\ (handler[r] # "response" => forwarded[Ctx(r)])
  <2>1. CallShape(t) /\ ~t.sync /\ t.kind \in {"refund", "net", "bill", "flush"}
    BY <1>1, <1>2, <1>8 DEF CallsOf, Busy, TypeOK, Tasks
  <2>2. t.kind \notin {"bill", "flush"}
    BY <1>2, <1>8, <2>1 DEF CallShape, FlushCall, BillCall
  <2>3. t.att = attempt[r] => t.kind = "refund"
    BY <1>1, <1>8, <2>1, <2>2 DEF CallShape, NetCall
  <2>4. t.att = attempt[r] /\ handler[r] # "response" => forwarded[Ctx(r)]
    BY <1>1, <1>8, <2>1, <2>3 DEF CallShape, RefundCall
  <2> QED
    BY <2>1, <2>2, <2>3, <2>4
<1>9. CallsOf(r)'
  <2>1. ASSUME NEW t \in tasks', t.req = r PROVE CallShape(t)'
    <3>1. CASE t \in tasks
      <4>1. /\ CallShape(t) /\ ~t.sync /\ t.kind \in {"refund", "net"} /\ t.delta < 0
        BY <1>8, <2>1, <3>1 DEF CallShape, RefundCall, NetCall
      <4> QED
        BY <1>1, <1>2, <2>1, <4>1 DEF CallShape, FlushCall, RefundCall, NetCall, BillCall
    <3>2. CASE t = u /\ AuditRefunds(r)
      BY <1>1, <1>2, <1>3, <1>5, <1>7, <3>2 DEF CallShape, FlushCall, RefundCall, NetCall, BillCall
    <3> QED
      BY <1>6, <2>1, <3>1, <3>2
  <2>2. ASSUME NEW t \in tasks', NEW v \in tasks', t.req = r, Clash(t, v)' PROVE t = v
    <3>1. Clash(t, v) /\ v.req = r
      BY <1>1, <2>2 DEF Clash
    <3>2. ASSUME NEW w \in tasks, w.req = r, w.att = attempt[r], AuditRefunds(r)
          PROVE  ~Clash(w, u) /\ ~Clash(u, w)
      BY <1>5, <1>7, <1>8, <3>2 DEF Clash
    <3>3. CASE t \in tasks /\ v \in tasks
      BY <1>2, <2>2, <3>1, <3>3 DEF CallsOf
    <3>4. CASE t \in tasks /\ v \notin tasks
      BY <1>5, <1>6, <2>2, <3>1, <3>2, <3>4 DEF Clash
    <3>5. CASE t \notin tasks /\ v \in tasks
      BY <1>5, <1>6, <2>2, <3>1, <3>2, <3>5 DEF Clash
    <3> QED
      BY <1>6, <3>3, <3>4, <3>5
  <2> QED
    BY <2>1, <2>2 DEF CallsOf
<1>10. \A a : HalfDone(r, a)' = HalfDone(r, a)
  <2>1. Unique(tasks, r) /\ Unique(tasks', r)
    BY <1>2, <1>9 DEF CallsOf, Clash, Unique
  <2>2. ASSUME NEW a, NEW kind
        PROVE  InLeg(tasks', r, a, kind, "token") = InLeg(tasks, r, a, kind, "token")
    <3>1. /\ \A t \in tasks : Matches(t, r, a, kind, "token") => t \in tasks'
          /\ \A t \in tasks' : Matches(t, r, a, kind, "token") => t \in tasks
      BY <1>5, <1>6 DEF Matches
    <3> QED
      BY <2>1, <3>1, InLegSame
  <2> QED
    BY <2>2 DEF HalfDone
<1>11. Paid(r)' = Paid(r)
  BY <1>1 DEF Paid
<1>12. Locals(r)' /\ Marks(r)'
  BY <1>1, <1>2 DEF Locals, Marks, Early, Reserved, Answering
<1>13. UserBooks(r)'
  BY <1>1, <1>2 DEF BooksOf, UserBooks, Early, Reserved, Answering
<1>14. BillBooks(r)' /\ FailBooks(r)' /\ TokenBooks(r)'
  BY <1>1, <1>2, <1>10, <1>11 DEF BooksOf, BillBooks, FailBooks, TokenBooks
<1>15. RefundBooks(r)'
  <2>1. ASSUME NEW t \in tasks', t.req = r, t.kind \in {"refund", "net"}, t.leg # "token",
               "user" \notin missed[r], handler[r] # "response", transport[r] = "http"
        PROVE  userPaid[r][t.att] >= -t.delta
    <3>1. CASE t \in tasks
      BY <1>2, <2>1, <3>1 DEF BooksOf, RefundBooks
    <3>2. CASE t = u /\ AuditRefunds(r)
      <4>1. Paid(r) >= pre[r]
        BY <1>1, <1>2, <1>7, <2>1, <3>2 DEF BooksOf, RefundBooks
      <4> QED
        BY <1>3, <1>5, <3>2, <4>1 DEF Paid
    <3> QED
      BY <1>6, <3>1, <3>2
  <2> QED
    BY <1>1, <1>2, <2>1 DEF BooksOf, RefundBooks
<1> QED
  BY <1>9, <1>12, <1>13, <1>14, <1>15 DEF BooksOf, Progress

\* A retry opens the books of a new attempt and closes those of the old one.
LEMMA RetryBooks ==
  ASSUME Books, IInv', NEW r \in Requests, Retry(r)
  PROVE  BooksOf(r)'
<1> USE DEF Books, IInv
<1>1. /\ UNCHANGED <<handler, transport, stream, estimate, cpre, forwarded, reconciled, tasks,
                     userPaid, tokenPaid, missed>>
      /\ pc[r] = "retry"
  BY DEF Retry, shape, context, ledger
<1>2. BooksOf(r) /\ Locals(r) /\ CallsOf(r) /\ outcome[r] = "none"
  BY <1>1 DEF BooksOf, Progress, Locals
<1>3. /\ pre[r] \in Nat /\ charged[r] \in Int /\ Paid(r) \in Int /\ attempt[r] \in Int
      /\ estimate[r] \in Nat
  BY LocalTypes
<1>4. \A a : HalfDone(r, a)' = HalfDone(r, a)
  BY <1>1 DEF HalfDone
<1>5. ASSUME NEW t \in tasks, t.req = r
      PROVE  /\ CallShape(t) /\ ~t.sync /\ t.kind \in {"refund", "net"} /\ t.delta < 0
             /\ t.att <= attempt[r] /\ t.att \in Int
  <2>1. CallShape(t) /\ t.kind \in {"refund", "net", "bill", "flush"} /\ t.att \in Int
    BY <1>2, <1>5 DEF CallsOf, TypeOK, Tasks, Attempts
  <2>2. t.kind \notin {"bill", "flush"}
    BY <1>1, <1>2, <1>5, <2>1 DEF CallShape, FlushCall, BillCall
  <2> QED
    BY <1>1, <1>5, <2>1, <2>2 DEF CallShape, RefundCall, NetCall
<1>6. CallsOf(r)' <=> \A t \in tasks : t.req = r => CallShape(t)'
  BY <1>1, <1>2 DEF CallsOf, Clash
<1>7. CASE /\ pc'[r] = "reserve" /\ attempt'[r] = attempt[r] + 1 /\ pre'[r] = 0 /\ charged'[r] = 0
           /\ ~aborted'[r] /\ outcome'[r] = "none"
           /\ spent' = [spent EXCEPT ![r][attempt[r]] = pre[r] + charged[r]]
  <2>1. CallsOf(r)'
    <3>1. ASSUME NEW t \in tasks, t.req = r PROVE CallShape(t)'
      <4>1. t.att < attempt'[r] /\ t.att <= attempt'[r] /\ t.att # attempt'[r]
        BY <1>3, <1>5, <1>7, <3>1
      <4> QED
        BY <1>5, <3>1, <4>1 DEF CallShape, FlushCall, RefundCall, NetCall, BillCall
    <3> QED
      BY <1>6, <3>1
  <2>2. attempt'[r] \in Attempts
    BY DEF TypeOK
  <2>3. Paid(r)' = 0
    BY <1>1, <1>2, <1>3, <1>7, <2>2 DEF BooksOf, UserBooks, Paid
  <2>4. Locals(r)' /\ Marks(r)'
    BY <1>1, <1>2, <1>3, <1>7 DEF Locals, Marks, Early, Reserved, Answering
  <2>5. UserBooks(r)'
    <3>1. \A a \in Attempts : a > attempt'[r] => a > attempt[r]
      BY <1>3, <1>7 DEF Attempts
    <3> QED
      BY <1>1, <1>2, <1>7, <2>3, <3>1 DEF BooksOf, UserBooks, Reserved, Answering
  <2>6. BillBooks(r)'
    BY <1>7 DEF BillBooks
  <2>7. FailBooks(r)'
    <3>1. spent[r] \in PerAttempt /\ attempt[r] \in Attempts /\ spent \in [Requests -> PerAttempt]
      BY DEF TypeOK
    <3>2. /\ spent'[r][attempt[r]] = pre[r] + charged[r]
          /\ \A a \in Attempts : a # attempt[r] => spent'[r][a] = spent[r][a]
      BY <1>3, <1>7, <3>1 DEF PerAttempt
    <3>3. \A a \in Attempts : a < attempt'[r] => a = attempt[r] \/ a < attempt[r]
      BY <1>3, <1>7 DEF Attempts
    <3>4. \A a \in Attempts : a < attempt[r] => a # attempt[r]
      BY <1>3
    <3>5. missed[r] = {} => userPaid[r][attempt[r]] <= pre[r] + charged[r]
      BY <1>1, <1>2 DEF BooksOf, FailBooks, Paid
    <3>6. ASSUME NEW a \in Attempts, a < attempt'[r], missed[r] = {}
          PROVE  userPaid[r][a] <= spent'[r][a]
      <4>1. CASE a = attempt[r]
        BY <3>2, <3>5, <3>6, <4>1
      <4>2. CASE a < attempt[r]
        BY <1>2, <3>2, <3>4, <3>6, <4>2 DEF BooksOf, FailBooks
      <4> QED
        BY <3>3, <3>6, <4>1, <4>2
    <3> QED
      BY <1>1, <1>7, <3>6 DEF FailBooks
  <2>8. RefundBooks(r)'
    BY <1>1, <1>2, <1>7 DEF BooksOf, RefundBooks
  <2>9. TokenBooks(r)'
    BY <1>1, <1>2, <1>4, <1>7 DEF BooksOf, TokenBooks
  <2> QED
    BY <2>1, <2>4, <2>5, <2>6, <2>7, <2>8, <2>9 DEF BooksOf, Progress
<1>8. CASE /\ pc'[r] = "done" /\ outcome'[r] = "failed"
           /\ UNCHANGED <<attempt, spent, pre, used, charged, aborted>>
  <2>1. CallsOf(r)'
    <3>1. ASSUME NEW t \in tasks, t.req = r PROVE CallShape(t)'
      BY <1>5, <1>8, <3>1 DEF CallShape, FlushCall, RefundCall, NetCall, BillCall
    <3> QED
      BY <1>6, <3>1
  <2>2. Locals(r)' /\ Marks(r)'
    BY <1>1, <1>2, <1>8 DEF Locals, Marks, Early, Reserved, Answering
  <2>3. UserBooks(r)' /\ BillBooks(r)'
    BY <1>1, <1>2, <1>8 DEF BooksOf, UserBooks, BillBooks, Early, Reserved, Answering
  <2>4. FailBooks(r)'
    BY <1>1, <1>2, <1>8 DEF BooksOf, FailBooks, Paid
  <2>5. RefundBooks(r)' /\ TokenBooks(r)'
    BY <1>1, <1>2, <1>4, <1>8 DEF BooksOf, RefundBooks, TokenBooks
  <2> QED
    BY <2>1, <2>2, <2>3, <2>4, <2>5 DEF BooksOf, Progress
<1> QED
  <2>1. CASE /\ MayRetry(r) /\ attempt' = [attempt EXCEPT ![r] = NextAttempt(r)]
             /\ pc' = [pc EXCEPT ![r] = "reserve"]
             /\ spent' = [spent EXCEPT ![r][attempt[r]] = pre[r] + charged[r]]
             /\ pre' = [pre EXCEPT ![r] = 0] /\ NewTracker(r) /\ UNCHANGED outcome
    BY <1>2, <1>7, <2>1 DEF NewTracker, NextAttempt, TypeOK
  <2>2. CASE /\ pc' = [pc EXCEPT ![r] = "done"] /\ outcome' = [outcome EXCEPT ![r] = "failed"]
             /\ UNCHANGED <<attempt, spent, pre, used, tracker, sent>>
    BY <1>8, <2>2 DEF TypeOK, tracker
  <2> QED
    BY <2>1, <2>2 DEF Retry

-----------------------------------------------------------------------------
(* The steps of a call of PostConsumeTokenQuota. *)

\* What no step of a call changes, and what a failed flush does to its tracker.
Steady(t) ==
  /\ UNCHANGED <<handler, transport, stream, estimate, pc, attempt, pre, used, outcome, spent,
                 cpre, forwarded>>
  /\ reconciled[Ctx(t.req)] => reconciled'[Ctx(t.req)]
  /\ aborted'[t.req] = aborted[t.req] \/ t.kind = "flush"

LEMMA WorkSteady ==
  ASSUME IInv, NEW t \in tasks, Work(t)
  PROVE  Steady(t) /\ t.req \in Requests
<1> USE DEF IInv
<1>1. t.req \in Requests /\ Ctx(t.req) \in Contexts
  BY CtxType DEF TypeOK, Tasks
<1>2. UNCHANGED <<handler, transport, stream, estimate, pc, attempt, pre, used, outcome, spent,
                  cpre, forwarded>>
  BY DEF Work, ReturnPreConsumedQuotaConservative, EnsureQuota, PostConsumeUser,
     PostConsumeToken, shape, context
<1>3. reconciled[Ctx(t.req)] => reconciled'[Ctx(t.req)]
  BY <1>1 DEF Work, ReturnPreConsumedQuotaConservative, EnsureQuota, PostConsumeUser,
     PostConsumeToken, context, TypeOK
<1>4. aborted'[t.req] = aborted[t.req] \/ t.kind = "flush"
  BY <1>1 DEF Work, ReturnPreConsumedQuotaConservative, EnsureQuota, PostConsumeUser,
     PostConsumeToken, Finish, tracker
<1> QED
  BY <1>1, <1>2, <1>3, <1>4 DEF Steady

\* The other calls of the request are as they were.
LEMMA OtherCalls ==
  ASSUME IInv, NEW t \in tasks, Steady(t), CallsOf(t.req), NEW u \in tasks, u.req = t.req, u # t
  PROVE  CallShape(u)'
<1>1. CallShape(u) /\ CallShape(t) /\ ~Clash(t, u)
  BY DEF CallsOf
<1>2. Ctx(u.req)' = Ctx(u.req)
  BY DEF Ctx
<1>3. u.kind = "flush" => aborted'[u.req] = aborted[u.req]
  BY <1>1 DEF CallShape, FlushCall, Clash, Steady
<1>4. FlushCall(u)' /\ NetCall(u)' /\ BillCall(u)'
  BY <1>1, <1>3 DEF CallShape, FlushCall, NetCall, BillCall, Steady
<1>5. RefundCall(u)'
  BY <1>1, <1>2 DEF CallShape, RefundCall, Steady
<1> QED
  BY <1>1, <1>4, <1>5 DEF CallShape, Steady

\* A call ends: its leg is empty, the others hold what they held.
LEMMA EndCall ==
  ASSUME IInv, NEW t \in tasks, Steady(t), CallsOf(t.req), tasks' = tasks \ {t}
  PROVE  /\ CallsOf(t.req)' /\ Unique(tasks, t.req)
         /\ InLeg(tasks, t.req, t.att, t.kind, t.leg) = t.delta
         /\ \A a, kind, leg : InLeg(tasks', t.req, a, kind, leg) =
              IF Matches(t, t.req, a, kind, leg) THEN 0 ELSE InLeg(tasks, t.req, a, kind, leg)
<1>1. CallsOf(t.req)'
  BY OtherCalls DEF CallsOf, Clash, Steady
<1>2. Unique(tasks, t.req) /\ Unique(tasks', t.req)
  BY <1>1 DEF CallsOf, Clash, Unique
<1>3. InLeg(tasks, t.req, t.att, t.kind, t.leg) = t.delta
  BY <1>2, InLegIs DEF Matches
<1>4. ASSUME NEW a, NEW kind, NEW leg
      PROVE  InLeg(tasks', t.req, a, kind, leg) =
               IF Matches(t, t.req, a, kind, leg) THEN 0 ELSE InLeg(tasks, t.req, a, kind, leg)
  <2>1. CASE Matches(t, t.req, a, kind, leg)
    <3>1. \A u \in tasks' : ~Matches(u, t.req, a, kind, leg)
      BY <1>2, <2>1 DEF Unique, Matches
    <3> QED
      BY <2>1, <3>1, InLegNone
  <2>2. CASE ~Matches(t, t.req, a, kind, leg)
    <3>1. /\ \A u \in tasks : Matches(u, t.req, a, kind, leg) => u \in tasks'
          /\ \A u \in tasks' : Matches(u, t.req, a, kind, leg) => u \in tasks
      BY <2>2
    <3> QED
      BY <1>2, <2>2, <3>1, InLegSame
  <2> QED
    BY <2>1, <2>2
<1> QED
  BY <1>1, <1>2, <1>3, <1>4

\* A call advances: what one leg held the next one holds.
LEMMA AdvanceCall ==
  ASSUME IInv, NEW t \in tasks, Steady(t), CallsOf(t.req), NEW next \in {"user", "token"},
         next # t.leg, Advance(t, next),
         \A v : (v = [t EXCEPT !.leg = next]) => CallShape(v)'
  PROVE  /\ CallsOf(t.req)' /\ Unique(tasks, t.req)
         /\ InLeg(tasks, t.req, t.att, t.kind, t.leg) = t.delta
         /\ InLeg(tasks, t.req, t.att, t.kind, next) = 0
         /\ \A a, kind, leg : InLeg(tasks', t.req, a, kind, leg) =
              IF Matches(t, t.req, a, kind, leg) THEN 0
              ELSE IF a = t.att /\ kind = t.kind /\ leg = next THEN t.delta
              ELSE InLeg(tasks, t.req, a, kind, leg)
<1>0. PICK v : v = [t EXCEPT !.leg = next]
  OBVIOUS
<1>1. /\ v.req = t.req /\ v.att = t.att /\ v.kind = t.kind /\ v.delta = t.delta /\ v.leg = next
      /\ tasks' = (tasks \ {t}) \cup {v} /\ CallShape(v)' /\ v # t
  <2>1. t \in Tasks
    BY DEF IInv, TypeOK
  <2> QED
    BY <1>0, <2>1 DEF Tasks, Advance
<1>2. CallsOf(t.req)'
  <2>1. ASSUME NEW u \in tasks', u.req = t.req PROVE CallShape(u)'
    BY <1>1, <2>1, OtherCalls
  <2>2. ASSUME NEW u \in tasks', NEW w \in tasks', u.req = t.req, Clash(u, w)' PROVE u = w
    <3>1. Clash(u, w)
      BY <2>2 DEF Clash, Steady
    <3>2. \A x \in tasks : x # t => ~Clash(t, x) /\ (x.req = t.req => ~Clash(x, t))
      BY DEF CallsOf
    <3>3. \A x : (Clash(v, x) <=> Clash(t, x)) /\ (Clash(x, v) <=> Clash(x, t))
      BY <1>1 DEF Clash
    <3> QED
      BY <1>1, <2>2, <3>1, <3>2, <3>3 DEF CallsOf
  <2> QED
    BY <2>1, <2>2 DEF CallsOf, Steady
<1>3. Unique(tasks, t.req) /\ Unique(tasks', t.req)
  BY <1>2 DEF CallsOf, Clash, Unique
<1>4. InLeg(tasks, t.req, t.att, t.kind, t.leg) = t.delta
  BY <1>3, InLegIs DEF Matches
<1>5. InLeg(tasks, t.req, t.att, t.kind, next) = 0
  <2>1. \A u \in tasks : ~Matches(u, t.req, t.att, t.kind, next)
    BY <1>3 DEF Unique, Matches
  <2> QED
    BY <2>1, InLegNone
<1>6. ASSUME NEW a, NEW kind, NEW leg
      PROVE  InLeg(tasks', t.req, a, kind, leg) =
               IF Matches(t, t.req, a, kind, leg) THEN 0
               ELSE IF a = t.att /\ kind = t.kind /\ leg = next THEN t.delta
               ELSE InLeg(tasks, t.req, a, kind, leg)
  <2>1. CASE Matches(t, t.req, a, kind, leg)
    <3>1. \A u \in tasks' : ~Matches(u, t.req, a, kind, leg)
      BY <1>1, <1>3, <2>1 DEF Unique, Matches
    <3> QED
      BY <2>1, <3>1, InLegNone
  <2>2. CASE ~Matches(t, t.req, a, kind, leg) /\ a = t.att /\ kind = t.kind /\ leg = next
    <3>1. Matches(v, t.req, a, kind, leg) /\ v \in tasks'
      BY <1>1, <2>2 DEF Matches
    <3>2. InLeg(tasks', t.req, a, kind, leg) = v.delta
      BY <1>3, <3>1, InLegIs
    <3> QED
      BY <1>1, <2>2, <3>2
  <2>3. CASE ~Matches(t, t.req, a, kind, leg) /\ ~(a = t.att /\ kind = t.kind /\ leg = next)
    <3>1. /\ \A u \in tasks : Matches(u, t.req, a, kind, leg) => u \in tasks'
          /\ \A u \in tasks' : Matches(u, t.req, a, kind, leg) => u \in tasks
      BY <1>1, <2>3 DEF Matches
    <3> QED
      BY <1>3, <2>3, <3>1, InLegSame
  <2> QED
    BY <2>1, <2>2, <2>3
<1> QED
  BY <1>2, <1>3, <1>4, <1>5, <1>6

\* The legs a call may be in, and the fields a step leaves alone.
LEMMA CallTypes ==
  ASSUME Books, NEW t \in tasks
  PROVE  /\ t.req \in Requests /\ t.att \in Attempts /\ t.delta \in Int /\ t.att \in Int
         /\ t.kind \in {"refund", "net", "bill", "flush"} /\ t.leg \in {"check", "user", "token"}
         /\ BooksOf(t.req) /\ CallsOf(t.req) /\ Locals(t.req) /\ Marks(t.req)
         /\ CallShape(t) /\ Ctx(t.req) \in Contexts
         /\ \A v, leg : (v = [t EXCEPT !.leg = leg]) =>
              /\ v.req = t.req /\ v.att = t.att /\ v.sync = t.sync /\ v.kind = t.kind
              /\ v.delta = t.delta /\ v.leg = leg
<1>1. t \in Tasks
  BY DEF Books, IInv, TypeOK
<1>2. /\ t.req \in Requests /\ t.att \in Attempts /\ t.delta \in Int /\ t.att \in Int
      /\ t.kind \in {"refund", "net", "bill", "flush"} /\ t.leg \in {"check", "user", "token"}
      /\ \A v, leg : (v = [t EXCEPT !.leg = leg]) =>
           /\ v.req = t.req /\ v.att = t.att /\ v.sync = t.sync /\ v.kind = t.kind
           /\ v.delta = t.delta /\ v.leg = leg
  BY <1>1 DEF Tasks, Attempts
<1>3. BooksOf(t.req) /\ CallsOf(t.req) /\ Locals(t.req) /\ Marks(t.req) /\ CallShape(t)
  BY <1>2 DEF Books, BooksOf, Progress, CallsOf
<1> QED
  BY <1>2, <1>3, CtxType

LEMMA ConservativeBooks ==
  ASSUME Books, NEW t \in tasks, ReturnPreConsumedQuotaConservative(t)
  PROVE  BooksOf(t.req)'
<1> USE DEF Books
<1>0. PICK r \in Requests : r = t.req
  BY CallTypes
<1>1. /\ Steady(t) /\ UNCHANGED <<charged, aborted, userPaid, tokenPaid, missed>>
      /\ t.kind = "refund" /\ t.leg = "check" /\ reconciled'[Ctx(r)]
  <2>1. Steady(t) /\ Ctx(r) \in Contexts
    BY <1>0, CallTypes, WorkSteady DEF Work
  <2> QED
    BY <1>0, <2>1 DEF ReturnPreConsumedQuotaConservative, tracker, ledger, IInv, TypeOK
<1>2. /\ BooksOf(r) /\ CallsOf(r) /\ Locals(r) /\ Marks(r) /\ CallShape(t)
      /\ t.att \in Attempts /\ t.delta \in Int
  BY <1>0, CallTypes
<1>3. /\ CallsOf(r)'
      /\ \A a, kind : InLeg(tasks', r, a, kind, "token") = InLeg(tasks, r, a, kind, "token")
      /\ \A a : InLeg(tasks', r, a, "bill", "user") = InLeg(tasks, r, a, "bill", "user")
      /\ \A u \in tasks' : u \in tasks \/ (u.att = t.att /\ u.delta = t.delta)
  <2>1. CASE tasks' = tasks \ {t}
    BY <1>0, <1>1, <1>2, <2>1, EndCall DEF Matches
  <2>2. CASE Advance(t, "user") /\ ~forwarded[Ctx(r)]
    <3>1. ASSUME NEW v, v = [t EXCEPT !.leg = "user"] PROVE CallShape(v)'
      <4>1. /\ v.req = r /\ v.att = t.att /\ v.sync = t.sync /\ v.kind = "refund"
            /\ v.delta = t.delta /\ v.leg = "user"
        BY <1>0, <1>1, <3>1, CallTypes
      <4>2. ~(transport[r] = "http" /\ pc[r] = "bill")
        BY <1>2, <2>2 DEF Marks
      <4>3. RefundCall(v)'
        BY <1>0, <1>1, <1>2, <4>1, <4>2 DEF CallShape, RefundCall, Steady, Ctx
      <4> QED
        BY <1>0, <1>1, <1>2, <4>1, <4>3 DEF CallShape, FlushCall, NetCall, BillCall, Steady
    <3>2. /\ CallsOf(r)'
          /\ \A a, kind, leg : InLeg(tasks', r, a, kind, leg) =
               IF Matches(t, r, a, kind, leg) THEN 0
               ELSE IF a = t.att /\ kind = t.kind /\ leg = "user" THEN t.delta
               ELSE InLeg(tasks, r, a, kind, leg)
      BY <1>0, <1>1, <1>2, <2>2, <3>1, AdvanceCall
    <3>3. \A u \in tasks' : u \in tasks \/ (u.att = t.att /\ u.delta = t.delta)
      BY <2>2, CallTypes DEF Advance
    <3> QED
      BY <1>1, <3>2, <3>3 DEF Matches
  <2> QED
    BY <1>0, <2>1, <2>2 DEF ReturnPreConsumedQuotaConservative, SkipsRefund
<1>4. /\ Paid(r)' = Paid(r) /\ Total(r)' = Total(r) /\ Due(r)' = Due(r)
      /\ \A a : HalfDone(r, a)' = HalfDone(r, a)
  BY <1>1, <1>3 DEF Paid, Total, Due, HalfDone, Steady
<1>5. Locals(r)' /\ Marks(r)'
  BY <1>1, <1>2 DEF Locals, Marks, Steady, Ctx
<1>6. UserBooks(r)'
  BY <1>1, <1>2, <1>3, <1>4 DEF BooksOf, UserBooks, Steady
<1>7. BillBooks(r)' /\ FailBooks(r)' /\ TokenBooks(r)'
  BY <1>1, <1>2, <1>4 DEF BooksOf, BillBooks, FailBooks, TokenBooks, Steady
<1>8. RefundBooks(r)'
  BY <1>0, <1>1, <1>2, <1>3, <1>4 DEF BooksOf, RefundBooks, Steady, Ctx
<1> QED
  BY <1>0, <1>3, <1>5, <1>6, <1>7, <1>8 DEF BooksOf, Progress

LEMMA EnsureBooks ==
  ASSUME Books, NEW t \in tasks, EnsureQuota(t)
  PROVE  BooksOf(t.req)'
<1> USE DEF Books
<1>0. PICK r \in Requests : r = t.req
  BY CallTypes
<1>1. /\ Steady(t) /\ UNCHANGED <<charged, userPaid, tokenPaid, missed, reconciled>>
      /\ t.kind = "flush" /\ t.leg = "check"
  <2>1. Steady(t)
    BY WorkSteady DEF Work
  <2> QED
    BY <2>1 DEF EnsureQuota, Finish, ledger, context
<1>2. /\ BooksOf(r) /\ CallsOf(r) /\ Locals(r) /\ Marks(r) /\ CallShape(t)
      /\ t.att \in Attempts /\ t.delta \in Int
  BY <1>0, CallTypes
<1>3. /\ t.att = attempt[r] /\ pc[r] \in {"respond", "flushed"} /\ stream[r] /\ ~aborted[r]
  BY <1>0, <1>1, <1>2 DEF CallShape, FlushCall
<1>4. /\ CallsOf(r)' /\ Unique(tasks, r)
      /\ \A a, kind : InLeg(tasks', r, a, kind, "token") = InLeg(tasks, r, a, kind, "token")
      /\ \A a : InLeg(tasks', r, a, "bill", "user") = InLeg(tasks, r, a, "bill", "user")
      /\ \A u \in tasks' : u \in tasks \/ u.kind = "flush"
  <2>1. CASE tasks' = tasks \ {t}
    <3>1. /\ CallsOf(r)' /\ Unique(tasks, r)
          /\ \A a, kind, leg : InLeg(tasks', r, a, kind, leg) =
               IF Matches(t, r, a, kind, leg) THEN 0 ELSE InLeg(tasks, r, a, kind, leg)
      BY <1>0, <1>1, <1>2, <2>1, EndCall
    <3> QED
      BY <1>1, <2>1, <3>1 DEF Matches
  <2>2. CASE Advance(t, "user") /\ UNCHANGED aborted
    <3>1. ASSUME NEW v, v = [t EXCEPT !.leg = "user"] PROVE CallShape(v)'
      <4>1. /\ v.req = r /\ v.att = t.att /\ v.sync = t.sync /\ v.kind = "flush"
            /\ v.delta = t.delta /\ v.leg = "user"
        BY <1>0, <1>1, <3>1, CallTypes
      <4> QED
        BY <1>0, <1>1, <1>2, <2>2, <4>1 DEF CallShape, FlushCall, RefundCall, NetCall, BillCall,
           Steady
    <3>2. /\ CallsOf(r)' /\ Unique(tasks, r)
          /\ \A a, kind, leg : InLeg(tasks', r, a, kind, leg) =
               IF Matches(t, r, a, kind, leg) THEN 0
               ELSE IF a = t.att /\ kind = t.kind /\ leg = "user" THEN t.delta
               ELSE InLeg(tasks, r, a, kind, leg)
      BY <1>0, <1>1, <1>2, <2>2, <3>1, AdvanceCall
    <3>3. \A u \in tasks' : u \in tasks \/ u.kind = "flush"
      BY <1>1, <2>2, CallTypes DEF Advance
    <3> QED
      BY <1>1, <3>2, <3>3 DEF Matches
  <2> QED
    BY <2>1, <2>2 DEF EnsureQuota, Finish
<1>5. /\ Paid(r)' = Paid(r) /\ Total(r)' = Total(r) /\ Due(r)' = Due(r)
      /\ \A a : HalfDone(r, a)' = HalfDone(r, a)
  BY <1>1, <1>4 DEF Paid, Total, Due, HalfDone, Steady
<1>6. Locals(r)' /\ Marks(r)'
  BY <1>1, <1>2, <1>3 DEF Locals, Marks, Steady, Ctx, Early, Reserved
<1>7. UserBooks(r)'
  BY <1>1, <1>2, <1>3, <1>4, <1>5 DEF BooksOf, UserBooks, Steady, Early, Reserved, Answering
<1>8. BillBooks(r)' /\ FailBooks(r)' /\ TokenBooks(r)'
  BY <1>1, <1>2, <1>5 DEF BooksOf, BillBooks, FailBooks, TokenBooks, Steady
<1>9. RefundBooks(r)'
  BY <1>0, <1>1, <1>2, <1>4, <1>5 DEF BooksOf, RefundBooks, Steady, Ctx
<1> QED
  BY <1>0, <1>4, <1>6, <1>7, <1>8, <1>9 DEF BooksOf, Progress

\* The token's row: what was half done is done, or the token's charge is missed.
LEMMA TokenLegBooks ==
  ASSUME Books, NEW t \in tasks, PostConsumeToken(t)
  PROVE  BooksOf(t.req)'
<1> USE DEF Books
<1>0. PICK r \in Requests : r = t.req
  BY CallTypes
<1>1. /\ Steady(t) /\ UNCHANGED <<userPaid, reconciled>> /\ t.leg = "token" /\ tasks' = tasks \ {t}
  <2>1. Steady(t)
    BY WorkSteady DEF Work
  <2> QED
    BY <2>1 DEF PostConsumeToken, Finish, context
<1>2. /\ BooksOf(r) /\ CallsOf(r) /\ Locals(r) /\ Marks(r) /\ CallShape(t)
      /\ t.att \in Attempts /\ t.delta \in Int /\ t.att \in Int
      /\ t.kind \in {"refund", "net", "bill", "flush"}
  BY <1>0, CallTypes
<1>3. /\ CallsOf(r)' /\ Unique(tasks, r) /\ InLeg(tasks, r, t.att, t.kind, "token") = t.delta
      /\ \A a, kind, leg : InLeg(tasks', r, a, kind, leg) =
           IF a = t.att /\ kind = t.kind /\ leg = "token" THEN 0
           ELSE InLeg(tasks, r, a, kind, leg)
  <2>1. /\ CallsOf(r)' /\ Unique(tasks, r) /\ InLeg(tasks, r, t.att, t.kind, t.leg) = t.delta
        /\ \A a, kind, leg : InLeg(tasks', r, a, kind, leg) =
             IF Matches(t, r, a, kind, leg) THEN 0 ELSE InLeg(tasks, r, a, kind, leg)
    BY <1>0, <1>1, <1>2, EndCall
  <2> QED
    BY <1>0, <1>1, <2>1 DEF Matches
<1>4. /\ t.att <= attempt[r] /\ ~Unlimited
      /\ t.kind = "flush" => /\ t.att = attempt[r] /\ pc[r] \in {"respond", "flushed"}
                             /\ stream[r] /\ ~aborted[r] /\ t.delta > 0
  BY <1>0, <1>1, <1>2 DEF CallShape, FlushCall
<1>5. /\ pre[r] \in Nat /\ charged[r] \in Int /\ Paid(r) \in Int /\ attempt[r] \in Int
      /\ charged[r] >= 0 /\ userPaid[r] \in PerAttempt /\ tokenPaid[r] \in PerAttempt
  BY <1>2, LocalTypes DEF Locals, IInv, TypeOK
<1>6. \A a, kind, leg : InLeg(tasks, r, a, kind, leg) \in Int
  BY <1>3, InLegType DEF IInv, TypeOK
<1>7. \A a : HalfDone(r, a)' = HalfDone(r, a) - (IF a = t.att THEN t.delta ELSE 0)
  <2> SUFFICES ASSUME NEW a
               PROVE  HalfDone(r, a)' = HalfDone(r, a) - (IF a = t.att THEN t.delta ELSE 0)
    OBVIOUS
  <2>1. \A kind : InLeg(tasks', r, a, kind, "token") =
          IF a = t.att /\ kind = t.kind THEN 0 ELSE InLeg(tasks, r, a, kind, "token")
    BY <1>3
  <2> QED
    BY <1>2, <1>3, <1>6, <2>1 DEF HalfDone
<1>8. \/ /\ charged'[r] = charged[r] + (IF t.kind = "flush" THEN t.delta ELSE 0)
         /\ aborted'[r] = aborted[r] /\ missed'[r] = missed[r]
         /\ tokenPaid'[r][t.att] = tokenPaid[r][t.att] + t.delta
         /\ \A a \in Attempts : a # t.att => tokenPaid'[r][a] = tokenPaid[r][a]
      \/ /\ charged'[r] = charged[r] /\ (IF t.kind = "flush" THEN aborted'[r] ELSE aborted'[r] = aborted[r])
         /\ missed'[r] = missed[r] \cup {"token"} /\ tokenPaid' = tokenPaid
  <2>1. /\ charged \in [Requests -> Int] /\ aborted \in [Requests -> BOOLEAN]
        /\ tokenPaid \in [Requests -> PerAttempt]
        /\ missed \in [Requests -> SUBSET {"user", "token"}]
    BY DEF IInv, TypeOK
  <2>2. CASE /\ tokenPaid' = [tokenPaid EXCEPT ![t.req][t.att] = @ + t.delta]
             /\ Finish(t, TRUE) /\ UNCHANGED missed
    <3>1. /\ charged'[r] = charged[r] + (IF t.kind = "flush" THEN t.delta ELSE 0)
          /\ aborted'[r] = aborted[r] /\ missed'[r] = missed[r]
      BY <1>0, <1>5, <2>1, <2>2 DEF Finish
    <3>2. /\ tokenPaid'[r][t.att] = tokenPaid[r][t.att] + t.delta
          /\ \A a \in Attempts : a # t.att => tokenPaid'[r][a] = tokenPaid[r][a]
      BY <1>0, <1>2, <2>1, <2>2 DEF PerAttempt
    <3> QED
      BY <3>1, <3>2
  <2>3. CASE /\ missed' = [missed EXCEPT ![t.req] = @ \cup {"token"}]
             /\ Finish(t, FALSE) /\ UNCHANGED tokenPaid
    BY <1>0, <2>1, <2>3 DEF Finish
  <2> QED
    BY <2>2, <2>3 DEF PostConsumeToken
<1>9. /\ Paid(r)' = Paid(r) /\ Total(r)' = Total(r)
      /\ t.kind # "flush" => Due(r)' = Due(r) /\ charged'[r] = charged[r] /\ aborted'[r] = aborted[r]
  <2>1. Paid(r)' = Paid(r) /\ Total(r)' = Total(r)
    BY <1>1, <1>3 DEF Paid, Total, Steady
  <2>2. t.kind # "flush" => charged'[r] = charged[r] /\ aborted'[r] = aborted[r]
    BY <1>5, <1>8 DEF IInv, TypeOK
  <2> QED
    BY <1>1, <2>1, <2>2 DEF Due, Steady
<1>10. Locals(r)' /\ Marks(r)'
  <2>1. charged'[r] >= 0 /\ (~stream[r] => charged'[r] = charged[r] /\ aborted'[r] = aborted[r])
    BY <1>2, <1>4, <1>5, <1>8, <1>9
  <2>2. Locals(r)'
    <3>1. CASE t.kind = "flush"
      BY <1>1, <1>2, <1>4, <2>1, <3>1 DEF Locals, Steady, Early, Reserved
    <3>2. CASE t.kind # "flush"
      BY <1>1, <1>2, <1>9, <2>1, <3>2 DEF Locals, Steady
    <3> QED
      BY <3>1, <3>2
  <2>3. Marks(r)'
    BY <1>1, <1>2 DEF Marks, Steady, Ctx
  <2> QED
    BY <2>2, <2>3
<1>11. UserBooks(r)'
  <2>1. \A a \in Attempts : a > attempt[r] => userPaid[r][a] = 0 /\ tokenPaid'[r][a] = 0
    <3>1. \A a \in Attempts : a > attempt[r] => a # t.att
      BY <1>2, <1>4, <1>5 DEF Attempts
    <3> QED
      BY <1>2, <1>8, <3>1 DEF BooksOf, UserBooks
  <2>2. CASE t.kind = "flush"
    <3>1. /\ InLeg(tasks, r, attempt[r], "flush", "token") = t.delta
          /\ InLeg(tasks', r, attempt[r], "flush", "token") = 0
      BY <1>3, <1>4, <2>2
    <3>2. "user" \notin missed[r] => Paid(r) = pre[r] + charged[r] + t.delta
      BY <1>2, <1>4, <2>2, <3>1 DEF BooksOf, UserBooks, Answering
    <3>3. "user" \notin missed'[r] => "user" \notin missed[r]
      BY <1>8
    <3>4. "user" \notin missed[r] =>
            /\ Paid(r) >= pre[r] + charged'[r] + 0
            /\ ~aborted'[r] \/ missed'[r] = {} => Paid(r) = pre[r] + charged'[r] + 0
      <4>1. CASE charged'[r] = charged[r] + t.delta
        BY <1>2, <1>5, <3>2, <4>1
      <4>2. CASE charged'[r] = charged[r] /\ aborted'[r] /\ "token" \in missed'[r]
        <5>1. ~(~aborted'[r] \/ missed'[r] = {})
          BY <4>2
        <5> QED
          BY <1>2, <1>4, <1>5, <2>2, <3>2, <4>2, <5>1
      <4> QED
        BY <1>8, <2>2, <4>1, <4>2
    <3> QED
      BY <1>1, <1>4, <1>9, <2>1, <2>2, <3>1, <3>3, <3>4 DEF UserBooks, Steady, Early, Reserved
  <2>3. CASE t.kind # "flush"
    <3>1. InLeg(tasks', r, attempt[r], "flush", "token") = InLeg(tasks, r, attempt[r], "flush", "token")
      BY <1>3, <2>3
    <3>2. /\ "user" \notin missed'[r] => "user" \notin missed[r]
          /\ missed'[r] = {} => missed[r] = {}
      BY <1>8
    <3> QED
      BY <1>1, <1>2, <1>9, <2>1, <2>3, <3>1, <3>2 DEF BooksOf, UserBooks, Steady
  <2> QED
    BY <2>2, <2>3
<1>12. BillBooks(r)'
  <2>1. outcome[r] = "ok" => t.kind # "flush"
    BY <1>2, <1>4 DEF Locals
  <2>2. "user" \notin missed'[r] => "user" \notin missed[r]
    BY <1>8
  <2> QED
    BY <1>1, <1>2, <1>9, <2>1, <2>2 DEF BooksOf, BillBooks, Steady
<1>13. FailBooks(r)'
  <2>1. pc[r] \in {"fail", "retry"} \/ outcome[r] = "failed" => t.kind # "flush"
    BY <1>2, <1>4 DEF Locals
  <2>2. missed'[r] = {} => missed[r] = {}
    BY <1>8
  <2> QED
    BY <1>1, <1>2, <1>9, <2>1, <2>2 DEF BooksOf, FailBooks, Steady
<1>14. RefundBooks(r)'
  <2>1. "user" \notin missed'[r] => "user" \notin missed[r]
    BY <1>8
  <2> QED
    BY <1>1, <1>2, <1>9, <2>1 DEF BooksOf, RefundBooks, Steady, Ctx
<1>15. TokenBooks(r)'
  <2> SUFFICES ASSUME NEW a \in Attempts, missed'[r] = {}
               PROVE  userPaid[r][a] - tokenPaid'[r][a] =
                        (HalfDone(r, a) - (IF a = t.att THEN t.delta ELSE 0))
                        - (IF a = attempt[r] /\ pc[r] = "decUser" THEN pre[r] ELSE 0)
    BY <1>1, <1>7 DEF TokenBooks, Steady
  <2>1. userPaid[r][a] - tokenPaid[r][a] =
          HalfDone(r, a) - (IF a = attempt[r] /\ pc[r] = "decUser" THEN pre[r] ELSE 0)
    BY <1>2, <1>4, <1>8 DEF BooksOf, TokenBooks
  <2>2. tokenPaid'[r][a] = tokenPaid[r][a] + (IF a = t.att THEN t.delta ELSE 0)
    BY <1>5, <1>8 DEF PerAttempt
  <2>3. userPaid[r][a] \in Int /\ tokenPaid[r][a] \in Int /\ HalfDone(r, a) \in Int
    BY <1>2, <1>5, HalfType DEF PerAttempt
  <2> QED
    BY <1>2, <1>5, <2>1, <2>2, <2>3
<1> QED
  BY <1>0, <1>3, <1>10, <1>11, <1>12, <1>13, <1>14, <1>15 DEF BooksOf, Progress

\* The user's row: the call ends when the token is unlimited, or goes on to it.
LEMMA UserLegCalls ==
  ASSUME Books, NEW t \in tasks, PostConsumeUser(t)
  PROVE  /\ CallsOf(t.req)' /\ Unique(tasks, t.req)
         /\ InLeg(tasks, t.req, t.att, t.kind, "user") = t.delta
         /\ InLeg(tasks, t.req, t.att, t.kind, "token") = 0
         /\ \A a, kind : InLeg(tasks', t.req, a, kind, "user") =
              IF a = t.att /\ kind = t.kind THEN 0 ELSE InLeg(tasks, t.req, a, kind, "user")
         /\ \A a, kind : InLeg(tasks', t.req, a, kind, "token") =
              IF a = t.att /\ kind = t.kind THEN (IF Unlimited THEN 0 ELSE t.delta)
              ELSE InLeg(tasks, t.req, a, kind, "token")
         /\ \A u \in tasks' : (u \in tasks /\ u # t) \/ u.leg = "token"
         /\ charged'[t.req] =
              IF t.kind = "flush" /\ Unlimited THEN charged[t.req] + t.delta ELSE charged[t.req]
         /\ aborted' = aborted
<1> USE DEF Books
<1>0. PICK r \in Requests : r = t.req
  BY CallTypes
<1>1. /\ Steady(t) /\ t.leg = "user" /\ CallsOf(r) /\ CallShape(t)
      /\ charged \in [Requests -> Int]
  BY <1>0, CallTypes, WorkSteady DEF Work, PostConsumeUser, IInv, TypeOK
<1>2. CASE Unlimited
  <2>1. tasks' = tasks \ {t} /\ Finish(t, TRUE)
    BY <1>2 DEF PostConsumeUser, EndsAfterUser, Finish
  <2>2. /\ CallsOf(r)' /\ Unique(tasks, r) /\ InLeg(tasks, r, t.att, t.kind, t.leg) = t.delta
        /\ \A a, kind, leg : InLeg(tasks', r, a, kind, leg) =
             IF Matches(t, r, a, kind, leg) THEN 0 ELSE InLeg(tasks, r, a, kind, leg)
    <3>1. IInv /\ CallsOf(t.req) /\ Steady(t) /\ tasks' = tasks \ {t}
      BY <1>0, <1>1, <2>1
    <3>2. /\ CallsOf(t.req)' /\ Unique(tasks, t.req)
          /\ InLeg(tasks, t.req, t.att, t.kind, t.leg) = t.delta
          /\ \A a, kind, leg : InLeg(tasks', t.req, a, kind, leg) =
               IF Matches(t, t.req, a, kind, leg) THEN 0 ELSE InLeg(tasks, t.req, a, kind, leg)
      BY <3>1, EndCall
    <3> HIDE DEF Books
    <3> QED
      BY <1>0, <3>2
  <2>3. InLeg(tasks, r, t.att, t.kind, "token") = 0
    <3>1. \A u \in tasks : ~Matches(u, r, t.att, t.kind, "token")
      BY <1>0, <1>1, <2>2 DEF Unique, Matches
    <3> QED
      BY <3>1, InLegNone
  <2>4. /\ charged'[r] = IF t.kind = "flush" THEN charged[r] + t.delta ELSE charged[r]
        /\ aborted' = aborted
    BY <1>0, <1>1, <2>1 DEF Finish
  <2>5. /\ \A a, kind : InLeg(tasks', r, a, kind, "user") =
             IF a = t.att /\ kind = t.kind THEN 0 ELSE InLeg(tasks, r, a, kind, "user")
        /\ \A a, kind : InLeg(tasks', r, a, kind, "token") = InLeg(tasks, r, a, kind, "token")
    BY <1>0, <1>1, <2>2 DEF Matches
  <2>6. InLeg(tasks, r, t.att, t.kind, "user") = t.delta
    BY <1>1, <2>2
  <2>7. \A a, kind : InLeg(tasks', r, a, kind, "token") =
          IF a = t.att /\ kind = t.kind THEN (IF Unlimited THEN 0 ELSE t.delta)
          ELSE InLeg(tasks, r, a, kind, "token")
    BY <1>2, <2>3, <2>5
  <2>8. \A u \in tasks' : u \in tasks /\ u # t
    BY <2>1
  <2> HIDE DEF Books
  <2> QED
    BY <1>0, <1>2, <2>2, <2>3, <2>4, <2>5, <2>6, <2>7, <2>8
<1>3. CASE ~Unlimited
  <2>1. Advance(t, "token") /\ UNCHANGED <<charged, aborted>>
    BY <1>3 DEF PostConsumeUser, EndsAfterUser
  <2>2. ASSUME NEW v, v = [t EXCEPT !.leg = "token"] PROVE CallShape(v)'
    <3>1. /\ v.req = r /\ v.att = t.att /\ v.sync = t.sync /\ v.kind = t.kind
          /\ v.delta = t.delta /\ v.leg = "token"
      BY <1>0, <2>2, CallTypes
    <3>2. FlushCall(v)' /\ NetCall(v)' /\ BillCall(v)'
      BY <1>0, <1>1, <2>1, <3>1 DEF CallShape, FlushCall, NetCall, BillCall, Steady
    <3>3. RefundCall(v)'
      BY <1>0, <1>1, <3>1 DEF CallShape, RefundCall, Steady, Ctx
    <3> QED
      BY <1>0, <1>1, <1>3, <3>1, <3>2, <3>3 DEF CallShape, Steady
  <2>3. /\ CallsOf(r)' /\ Unique(tasks, r) /\ InLeg(tasks, r, t.att, t.kind, t.leg) = t.delta
        /\ InLeg(tasks, r, t.att, t.kind, "token") = 0
        /\ \A a, kind, leg : InLeg(tasks', r, a, kind, leg) =
             IF Matches(t, r, a, kind, leg) THEN 0
             ELSE IF a = t.att /\ kind = t.kind /\ leg = "token" THEN t.delta
             ELSE InLeg(tasks, r, a, kind, leg)
    BY <1>0, <1>1, <2>1, <2>2, AdvanceCall
  <2>4. \A u \in tasks' : (u \in tasks /\ u # t) \/ u.leg = "token"
    <3>1. PICK v : v = [t EXCEPT !.leg = "token"]
      OBVIOUS
    <3>2. tasks' = (tasks \ {t}) \cup {v}
      BY <2>1, <3>1 DEF Advance
    <3>3. v.leg = "token"
      BY <3>1, CallTypes
    <3> QED
      BY <3>2, <3>3
  <2>5. /\ \A a, kind : InLeg(tasks', r, a, kind, "user") =
             IF a = t.att /\ kind = t.kind THEN 0 ELSE InLeg(tasks, r, a, kind, "user")
        /\ \A a, kind : InLeg(tasks', r, a, kind, "token") =
             IF a = t.att /\ kind = t.kind THEN t.delta ELSE InLeg(tasks, r, a, kind, "token")
    BY <1>0, <1>1, <2>3 DEF Matches
  <2> QED
    BY <1>0, <1>1, <1>3, <2>1, <2>3, <2>4, <2>5
<1> QED
  BY <1>2, <1>3

\* What the kind of a call says about where its attempt stands.
LEMMA CallPlace ==
  ASSUME Books, NEW t \in tasks, t.leg = "user"
  PROVE  LET r == t.req IN
         /\ t.att <= attempt[r]
         /\ t.kind = "flush" => /\ t.att = attempt[r] /\ pc[r] \in {"respond", "flushed"}
                                /\ stream[r] /\ ~aborted[r] /\ t.delta > 0
         /\ t.kind = "bill"  => t.att = attempt[r] /\ outcome[r] = "ok" /\ pc[r] = "done"
         /\ t.kind \in {"refund", "net"} =>
              /\ t.delta < 0
              /\ t.att = attempt[r] =>
                   /\ pc[r] \in {"bill", "fail", "retry", "done"} /\ outcome[r] # "ok"
                   /\ pc[r] = "bill" => transport[r] # "http" /\ handler[r] = "text"
                   /\ pc[r] = "fail" => t.kind = "refund" /\ reconciled[Ctx(r)]
<1>0. PICK r \in Requests : r = t.req
  BY CallTypes
<1>1. Locals(r) /\ CallShape(t) /\ t.kind \in {"refund", "net", "bill", "flush"}
  BY <1>0, CallTypes
<1>2. t.att <= attempt[r]
  BY <1>0, <1>1 DEF CallShape
<1>3. t.kind = "flush" => /\ t.att = attempt[r] /\ pc[r] \in {"respond", "flushed"}
                          /\ stream[r] /\ ~aborted[r] /\ t.delta > 0
  BY <1>0, <1>1 DEF CallShape, FlushCall
<1>4. t.kind = "bill" => t.att = attempt[r] /\ outcome[r] = "ok" /\ pc[r] = "done"
  BY <1>0, <1>1 DEF CallShape, BillCall, Locals
<1>5. t.kind = "net" =>
        /\ t.delta < 0
        /\ t.att = attempt[r] => pc[r] \in {"retry", "done"} /\ outcome[r] # "ok"
  BY <1>0, <1>1 DEF CallShape, NetCall
<1>6. transport[r] # "http" => handler[r] = "text"
  BY <1>1, LocalTypes DEF Locals, Books
<1>7. t.kind = "refund" =>
        /\ t.delta < 0
        /\ t.att = attempt[r] =>
             /\ pc[r] \in {"bill", "fail", "retry", "done"} /\ outcome[r] # "ok"
             /\ pc[r] = "bill" => transport[r] # "http"
             /\ pc[r] = "fail" => reconciled[Ctx(r)]
  BY <1>0, <1>1 DEF CallShape, RefundCall
<1> QED
  BY <1>0, <1>1, <1>2, <1>3, <1>4, <1>5, <1>6, <1>7

LEMMA UserLegBooks ==
  ASSUME Books, NEW t \in tasks, PostConsumeUser(t)
  PROVE  BooksOf(t.req)'
<1> USE DEF Books
<1>0. PICK r \in Requests : r = t.req
  BY CallTypes
<1>1. /\ Steady(t) /\ UNCHANGED <<tokenPaid, reconciled>> /\ t.leg = "user"
  BY WorkSteady DEF Work, PostConsumeUser, context
<1>2. /\ BooksOf(r) /\ Locals(r) /\ Marks(r)
      /\ t.att \in Attempts /\ t.delta \in Int /\ t.att \in Int
      /\ t.kind \in {"refund", "net", "bill", "flush"}
  BY <1>0, CallTypes
<1>3. /\ CallsOf(r)' /\ Unique(tasks, r)
      /\ InLeg(tasks, r, t.att, t.kind, "user") = t.delta
      /\ InLeg(tasks, r, t.att, t.kind, "token") = 0
      /\ \A a, kind : InLeg(tasks', r, a, kind, "user") =
           IF a = t.att /\ kind = t.kind THEN 0 ELSE InLeg(tasks, r, a, kind, "user")
      /\ \A a, kind : InLeg(tasks', r, a, kind, "token") =
           IF a = t.att /\ kind = t.kind THEN (IF Unlimited THEN 0 ELSE t.delta)
           ELSE InLeg(tasks, r, a, kind, "token")
      /\ \A u \in tasks' : (u \in tasks /\ u # t) \/ u.leg = "token"
      /\ charged'[r] = IF t.kind = "flush" /\ Unlimited THEN charged[r] + t.delta ELSE charged[r]
      /\ aborted' = aborted
  BY <1>0, UserLegCalls
<1>4. /\ t.att <= attempt[r]
      /\ t.kind = "flush" => /\ t.att = attempt[r] /\ pc[r] \in {"respond", "flushed"}
                             /\ stream[r] /\ ~aborted[r] /\ t.delta > 0
      /\ t.kind = "bill"  => t.att = attempt[r] /\ outcome[r] = "ok" /\ pc[r] = "done"
      /\ t.kind \in {"refund", "net"} =>
           /\ t.delta < 0
           /\ t.att = attempt[r] =>
                /\ pc[r] \in {"bill", "fail", "retry", "done"} /\ outcome[r] # "ok"
                /\ pc[r] = "bill" => transport[r] # "http" /\ handler[r] = "text"
                /\ pc[r] = "fail" => t.kind = "refund" /\ reconciled[Ctx(r)]
  BY <1>0, <1>1, CallPlace
<1>5. /\ pre[r] \in Nat /\ charged[r] \in Int /\ Paid(r) \in Int /\ attempt[r] \in Int
      /\ attempt[r] \in Attempts /\ used[r] \in Nat
      /\ charged[r] >= 0 /\ userPaid[r] \in PerAttempt /\ tokenPaid[r] \in PerAttempt
  BY <1>2, LocalTypes DEF Locals, IInv, TypeOK
<1>6. \A a, kind, leg : InLeg(tasks, r, a, kind, leg) \in Int
  BY <1>3, InLegType DEF IInv, TypeOK
<1>7. Locals(r)' /\ Marks(r)'
  <2>1. CASE t.kind = "flush"
    BY <1>1, <1>2, <1>3, <1>4, <1>5, <2>1 DEF Locals, Steady, Early, Reserved, Marks, Ctx
  <2>2. CASE t.kind # "flush"
    BY <1>1, <1>2, <1>3, <2>2 DEF Locals, Steady, Marks, Ctx
  <2> QED
    BY <2>1, <2>2
<1>8. CASE /\ missed' = [missed EXCEPT ![t.req] = @ \cup {"user"}] /\ userPaid' = userPaid
  <2>1. "user" \in missed'[r]
    BY <1>0, <1>8 DEF IInv, TypeOK
  <2>2. UserBooks(r)'
    BY <1>1, <1>2, <1>8, <2>1 DEF BooksOf, UserBooks, Steady, Paid
  <2>3. BillBooks(r)' /\ FailBooks(r)' /\ RefundBooks(r)' /\ TokenBooks(r)'
    BY <2>1 DEF BillBooks, FailBooks, RefundBooks, TokenBooks
  <2> QED
    BY <1>0, <1>3, <1>7, <2>2, <2>3 DEF BooksOf, Progress
<1>9. CASE /\ missed' = missed /\ userPaid' = [userPaid EXCEPT ![t.req][t.att] = @ + t.delta]
  <2>1. /\ userPaid'[r][t.att] = userPaid[r][t.att] + t.delta
        /\ \A a \in Attempts : a # t.att => userPaid'[r][a] = userPaid[r][a]
    <3>1. userPaid \in [Requests -> PerAttempt]
      BY DEF IInv, TypeOK
    <3> QED
      BY <1>0, <1>2, <1>9, <3>1 DEF PerAttempt
  <2>2. /\ \A a \in Attempts : userPaid[r][a] \in Int /\ tokenPaid[r][a] \in Int
        /\ Paid(r) = userPaid[r][attempt[r]]
        /\ Paid(r)' = IF t.att = attempt[r] THEN Paid(r) + t.delta ELSE Paid(r)
    BY <1>1, <1>5, <2>1 DEF PerAttempt, Paid, Steady
  <2>3. UserBooks(r)'
    <3>1. \A a \in Attempts : a > attempt[r] => userPaid'[r][a] = 0 /\ tokenPaid[r][a] = 0
      <4>1. \A a \in Attempts : a > attempt[r] => a # t.att
        BY <1>2, <1>4, <1>5 DEF Attempts
      <4> QED
        BY <1>2, <2>1, <4>1 DEF BooksOf, UserBooks
    <3>2. CASE t.att # attempt[r]
      <4>1. /\ InLeg(tasks', r, attempt[r], "flush", "token") =
                 InLeg(tasks, r, attempt[r], "flush", "token")
            /\ charged'[r] = charged[r] /\ Paid(r)' = Paid(r)
        BY <1>3, <1>4, <2>2, <3>2
      <4> QED
        BY <1>1, <1>2, <1>3, <1>9, <3>1, <4>1 DEF BooksOf, UserBooks, Steady
    <3>3. CASE t.att = attempt[r] /\ t.kind = "flush"
      <4>1. /\ InLeg(tasks, r, attempt[r], "flush", "token") = 0
            /\ InLeg(tasks', r, attempt[r], "flush", "token") = IF Unlimited THEN 0 ELSE t.delta
        BY <1>3, <3>3
      <4>2. "user" \notin missed[r] => Paid(r) = pre[r] + charged[r]
        BY <1>2, <1>4, <1>5, <3>3, <4>1 DEF BooksOf, UserBooks, Answering
      <4>3. "user" \notin missed[r] =>
              Paid(r)' = pre[r] + charged'[r] + InLeg(tasks', r, attempt[r], "flush", "token")
        BY <1>2, <1>3, <1>5, <2>2, <3>3, <4>1, <4>2
      <4>4. "user" \notin missed[r] =>
              Paid(r)' >= pre[r] + charged'[r] + InLeg(tasks', r, attempt[r], "flush", "token")
        <5>1. Paid(r)' \in Int
          BY <1>2, <1>5, <2>2
        <5> QED
          BY <4>3, <5>1
      <4> QED
        BY <1>1, <1>4, <1>9, <3>1, <3>3, <4>3, <4>4 DEF UserBooks, Steady, Early, Reserved
    <3>4. CASE t.att = attempt[r] /\ t.kind # "flush"
      <4>1. pc[r] \in {"bill", "fail", "retry", "done"} /\ charged'[r] = charged[r]
        BY <1>2, <1>3, <1>4, <3>4
      <4>2. pc[r] = "bill" => transport[r] # "http" /\ handler[r] = "text" /\ t.delta < 0
        BY <1>2, <1>4, <3>4
      <4>3. pc[r] = "bill" /\ "user" \notin missed[r] => Paid(r)' <= pre[r] + charged[r]
        <5>1. pc[r] = "bill" /\ "user" \notin missed[r] => Paid(r) <= pre[r] + charged[r]
          BY <1>2, <4>2 DEF BooksOf, UserBooks
        <5> QED
          BY <1>2, <1>5, <2>2, <3>4, <4>2, <5>1
      <4> QED
        BY <1>1, <1>9, <3>1, <4>1, <4>2, <4>3 DEF UserBooks, Steady, Early, Reserved, Answering
    <3> QED
      BY <3>2, <3>3, <3>4
  <2>4. BillBooks(r)' /\ (t.kind = "bill" => Total(r) = Paid(r) + t.delta)
    <3>1. t.kind = "bill" => Total(r) = Paid(r) + t.delta
      BY <1>3, <1>4 DEF Total
    <3>2. ASSUME outcome[r] = "ok"
          PROVE  Total(r)' = Total(r) /\ Due(r)' = Due(r)
      <4>1. t.kind # "flush"
        BY <1>2, <1>4, <3>2 DEF Locals
      <4>2. t.att = attempt[r] => t.kind = "bill"
        BY <1>2, <1>4, <3>2, <4>1
      <4>3. Due(r)' = Due(r)
        BY <1>1, <1>3, <4>1 DEF Due, Steady
      <4>4. CASE t.kind = "bill"
        <5>1. InLeg(tasks', r, attempt[r], "bill", "user") = 0 /\ Paid(r)' = Paid(r) + t.delta
          BY <1>3, <1>4, <2>2, <4>4
        <5> QED
          BY <1>1, <1>2, <1>5, <3>1, <4>3, <4>4, <5>1 DEF Total, Steady
      <4>5. CASE t.kind # "bill"
        <5>1. InLeg(tasks', r, attempt[r], "bill", "user") = InLeg(tasks, r, attempt[r], "bill", "user")
          BY <1>3, <4>5
        <5> QED
          BY <1>1, <2>2, <4>2, <4>3, <4>5, <5>1 DEF Total, Steady
      <4> QED
        BY <4>4, <4>5
    <3> QED
      BY <1>1, <1>2, <1>9, <3>1, <3>2 DEF BooksOf, BillBooks, Steady
  <2>5. FailBooks(r)'
    <3>1. ASSUME missed[r] = {}, pc[r] \in {"fail", "retry"} \/ outcome[r] = "failed"
          PROVE  Paid(r)' <= pre[r] + charged'[r]
      <4>1. t.kind \in {"refund", "net"}
        BY <1>2, <1>4, <3>1 DEF Locals
      <4>2. Paid(r) <= pre[r] + charged[r]
        BY <1>2, <3>1 DEF BooksOf, FailBooks
      <4> QED
        BY <1>2, <1>3, <1>4, <1>5, <2>2, <4>1, <4>2
    <3>2. ASSUME missed[r] = {}, NEW a \in Attempts, a < attempt[r]
          PROVE  userPaid'[r][a] <= spent[r][a]
      <4>1. userPaid[r][a] <= spent[r][a] /\ spent[r][a] \in Int
        BY <1>2, <3>2 DEF BooksOf, FailBooks, IInv, TypeOK, PerAttempt
      <4>2. a = t.att => t.kind \in {"refund", "net"}
        BY <1>2, <1>4, <1>5, <3>2
      <4> QED
        BY <1>2, <1>4, <2>1, <2>2, <4>1, <4>2
    <3> QED
      BY <1>1, <1>9, <3>1, <3>2 DEF FailBooks, Steady
  <2>6. RefundBooks(r)'
    <3> SUFFICES ASSUME handler[r] # "response", transport[r] = "http", "user" \notin missed[r]
                 PROVE  /\ \A a \in Attempts : userPaid'[r][a] >= 0
                        /\ \A u \in tasks' : u.req = r /\ u.kind \in {"refund", "net"} /\ u.leg # "token"
                             => userPaid'[r][u.att] >= -u.delta
                        /\ pc[r] = "fail" /\ ~reconciled[Ctx(r)] /\ ~forwarded[Ctx(r)]
                             => Paid(r)' >= pre[r]
      BY <1>1, <1>9 DEF RefundBooks, Steady, Ctx
    <3>1. /\ \A a \in Attempts : userPaid[r][a] >= 0
          /\ \A u \in tasks : u.req = r /\ u.kind \in {"refund", "net"} /\ u.leg # "token"
               => userPaid[r][u.att] >= -u.delta
          /\ pc[r] = "fail" /\ ~reconciled[Ctx(r)] /\ ~forwarded[Ctx(r)] => Paid(r) >= pre[r]
      BY <1>2 DEF BooksOf, RefundBooks
    <3>2. userPaid'[r][t.att] >= 0
      <4>1. CASE t.kind = "flush"
        BY <1>2, <1>4, <2>1, <2>2, <3>1, <4>1
      <4>2. CASE t.kind \in {"refund", "net"}
        <5>1. userPaid[r][t.att] >= -t.delta
          BY <1>0, <1>1, <3>1, <4>2
        <5> QED
          BY <1>2, <2>1, <2>2, <5>1
      <4>3. CASE t.kind = "bill"
        <5>1. Due(r) >= 0 /\ Due(r) \in Int
          BY <1>5 DEF Due
        <5>2. Total(r) >= Due(r) /\ Total(r) \in Int
          <6>1. Total(r) \in Int
            BY <1>5, <1>6 DEF Total
          <6>2. CASE handler[r] = "rerank"
            BY <1>2, <1>4, <4>3, <5>1, <6>1, <6>2 DEF BooksOf, BillBooks
          <6>3. CASE handler[r] # "rerank"
            BY <1>2, <1>4, <4>3, <5>1, <6>1, <6>3 DEF BooksOf, BillBooks
          <6> QED
            BY <6>1, <6>2, <6>3
        <5>3. userPaid'[r][t.att] = Total(r)
          BY <1>4, <2>1, <2>2, <2>4, <4>3
        <5> QED
          BY <5>1, <5>2, <5>3
      <4> QED
        BY <1>2, <4>1, <4>2, <4>3
    <3>3. ASSUME NEW u \in tasks', u.req = r, u.kind \in {"refund", "net"}, u.leg # "token"
          PROVE  userPaid'[r][u.att] >= -u.delta
      <4>1. u \in tasks /\ u # t /\ userPaid[r][u.att] >= -u.delta
        BY <1>3, <3>1, <3>3
      <4>2. u.att \in Attempts /\ u.delta \in Int /\ CallShape(u)
        BY <1>0, <4>1, CallTypes
      <4>3. CASE u.att # t.att
        BY <2>1, <4>1, <4>2, <4>3
      <4>4. CASE u.att = t.att
        <5>1. t.kind # "bill"
          BY <1>4, <3>3, <4>2, <4>4 DEF CallShape, RefundCall, NetCall
        <5>2. t.kind \notin {"refund", "net"}
          <6>1. t.kind \in {"refund", "net"} => Clash(t, u)
            BY <1>0, <3>3, <4>4 DEF Clash
          <6>2. CallsOf(r)
            BY <1>2 DEF BooksOf, Progress
          <6> QED
            BY <1>0, <4>1, <6>1, <6>2 DEF CallsOf
        <5>3. t.delta > 0
          BY <1>2, <1>4, <5>1, <5>2
        <5> QED
          BY <1>2, <2>1, <2>2, <4>1, <4>2, <4>4, <5>3
      <4> QED
        BY <4>3, <4>4
    <3>4. pc[r] = "fail" /\ ~reconciled[Ctx(r)] => t.att # attempt[r]
      BY <1>2, <1>4
    <3> QED
      BY <2>1, <2>2, <3>1, <3>2, <3>3, <3>4
  <2>7. TokenBooks(r)'
    <3> SUFFICES ASSUME NEW a \in Attempts, ~Unlimited, missed[r] = {}
                 PROVE  userPaid'[r][a] - tokenPaid[r][a] = HalfDone(r, a)'
                          - (IF a = attempt[r] /\ pc[r] = "decUser" THEN pre[r] ELSE 0)
      BY <1>1, <1>9 DEF TokenBooks, Steady
    <3>1. userPaid[r][a] - tokenPaid[r][a] =
            HalfDone(r, a) - (IF a = attempt[r] /\ pc[r] = "decUser" THEN pre[r] ELSE 0)
      BY <1>2 DEF BooksOf, TokenBooks
    <3>2. userPaid'[r][a] = userPaid[r][a] + (IF a = t.att THEN t.delta ELSE 0)
      BY <2>1, <2>2
    <3>3. HalfDone(r, a)' = HalfDone(r, a) + (IF a = t.att THEN t.delta ELSE 0)
      <4>1. \A kind : InLeg(tasks', r, a, kind, "token") =
              IF a = t.att /\ kind = t.kind THEN t.delta ELSE InLeg(tasks, r, a, kind, "token")
        BY <1>3
      <4> QED
        BY <1>2, <1>3, <1>6, <4>1 DEF HalfDone
    <3>4. userPaid[r][a] \in Int /\ tokenPaid[r][a] \in Int /\ HalfDone(r, a) \in Int
      BY <1>2, <2>2, HalfType DEF BooksOf, Progress
    <3> QED
      BY <1>2, <1>5, <3>1, <3>2, <3>3, <3>4
  <2> QED
    BY <1>0, <1>3, <1>7, <2>3, <2>4, <2>5, <2>6, <2>7 DEF BooksOf, Progress
<1> QED
  BY <1>8, <1>9 DEF PostConsumeUser

-----------------------------------------------------------------------------
(* The invariant and what it means once a request is quiet. *)

LEMMA InitBooks == Init => Books
<1> SUFFICES ASSUME Init PROVE Books
  OBVIOUS
<1>1. IInv
  BY InitIInv
<1>2. Owners
  BY DEF Init, Owners, Live
<1>3. ASSUME NEW r \in Requests PROVE BooksOf(r)
  <2>1. /\ pc[r] = "idle" /\ attempt[r] = 1 /\ pre[r] = 0 /\ charged[r] = 0 /\ ~aborted[r]
        /\ outcome[r] = "none" /\ tasks = {} /\ missed[r] = {}
        /\ (transport[r] = "sdk" \/ stream[r] => handler[r] = "text")
    BY DEF Init
  <2>2. \A a \in Attempts : userPaid[r][a] = 0 /\ tokenPaid[r][a] = 0
    BY DEF Init
  <2>3. estimate[r] \in Nat /\ attempt[r] \in Attempts
    BY <1>1, LocalTypes DEF IInv, TypeOK
  <2>4. Locals(r) /\ Marks(r) /\ CallsOf(r)
    BY <2>1, <2>3 DEF Locals, Marks, CallsOf, Early, Reserved, Answering
  <2>5. UserBooks(r)
    BY <2>1, <2>2, <2>3 DEF UserBooks, Paid, Reserved, Answering
  <2>6. BillBooks(r) /\ RefundBooks(r)
    BY <2>1, <2>2 DEF BillBooks, RefundBooks
  <2>7. FailBooks(r)
    BY <2>1 DEF FailBooks, Attempts
  <2>8. TokenBooks(r)
    <3>1. \A a, kind : InLeg(tasks, r, a, kind, "token") = 0
      BY <2>1, InLegNone
    <3> QED
      BY <2>1, <2>2, <3>1 DEF TokenBooks, HalfDone
  <2> QED
    BY <2>4, <2>5, <2>6, <2>7, <2>8 DEF BooksOf, Progress
<1> QED
  BY <1>1, <1>2, <1>3 DEF Books

LEMMA NextBooks == Books /\ [Next]_vars => Books'
<1> SUFFICES ASSUME Books, [Next]_vars PROVE Books'
  OBVIOUS
<1>1. IInv /\ Owners /\ (\A r \in Requests : BooksOf(r)) /\ IInv'
  BY NextIInv DEF Books
<1>2. ASSUME NEW r \in Requests, Frame(r), Owners', BooksOf(r)' PROVE Books'
  <2>1. \A s \in Requests \ {r} : BooksOf(s)'
    BY <1>1, <1>2, FrameKeeps
  <2> QED
    BY <1>1, <1>2, <2>1 DEF Books
<1>3. ASSUME NEW r \in Requests, Start(r) \/ Reserve(r) PROVE Books'
  <2>1. Frame(r) /\ Owners'
    BY <1>1, <1>3, FrameReserve
  <2>2. BooksOf(r)'
    BY <1>1, <1>3, ReserveSteady, TakeTokenBooks, TakeUserBooks DEF Reserve
  <2> QED
    BY <1>2, <2>1, <2>2
<1>4. ASSUME NEW r \in Requests, Forward(r) \/ RecordCompletionTokens(r) \/ Answer(r) \/ Settle(r)
      PROVE  Books'
  <2>1. Frame(r) /\ Owners'
    BY <1>1, <1>4, FrameHandle
  <2>2. BooksOf(r)'
    BY <1>1, <1>4, ForwardBooks, AnswerBooks, ReconcileBooks, BillingBooks, AuditBooks, RetryBooks
       DEF Settle
  <2> QED
    BY <1>2, <2>1, <2>2
<1>5. ASSUME NEW t \in tasks, Work(t) PROVE Books'
  <2>1. Frame(t.req) /\ Owners' /\ t.req \in Requests
    BY <1>1, <1>5, FrameWork, CallTypes
  <2>2. BooksOf(t.req)'
    BY <1>5, ConservativeBooks, EnsureBooks, UserLegBooks, TokenLegBooks DEF Work
  <2> QED
    BY <1>2, <2>1, <2>2
<1>6. CASE UNCHANGED vars
  <2>1. /\ UNCHANGED <<handler, transport, stream, estimate, pc, attempt, pre, used, charged,
                       aborted, outcome, missed, spent, userPaid, tokenPaid, tasks, cpre,
                       forwarded, reconciled>>
    BY <1>6 DEF vars, shape, tracker, context, ledger
  <2>2. Owners'
    BY <1>1, <2>1 DEF Owners, Live, Ctx
  <2>3. ASSUME NEW r \in Requests PROVE BooksOf(r)'
    <3>1. Progress(r)'
      BY <1>1, <2>1 DEF BooksOf, Progress, Locals, Marks, CallsOf, Clash, CallShape, FlushCall,
         RefundCall, NetCall, BillCall, Ctx
    <3>2. UserBooks(r)' /\ BillBooks(r)'
      BY <1>1, <2>1 DEF BooksOf, UserBooks, BillBooks, Paid, Total, Due
    <3>3. FailBooks(r)' /\ RefundBooks(r)' /\ TokenBooks(r)'
      BY <1>1, <2>1 DEF BooksOf, FailBooks, RefundBooks, TokenBooks, Paid, HalfDone, Ctx
    <3> QED
      BY <3>1, <3>2, <3>3 DEF BooksOf
  <2> QED
    BY <1>1, <2>2, <2>3 DEF Books
<1> QED
  BY <1>3, <1>4, <1>5, <1>6 DEF Next, Handle, AllQuiet

\* A quiet request has nothing in any leg.
LEMMA QuietLegs ==
  ASSUME NEW r \in Requests, Quiet(r)
  PROVE  /\ \A a, kind, leg : InLeg(tasks, r, a, kind, leg) = 0
         /\ \A a : HalfDone(r, a) = 0
<1>1. \A t \in tasks : t.req # r
  BY DEF Quiet
<1>2. \A a, kind, leg : InLeg(tasks, r, a, kind, leg) = 0
  BY <1>1, InLegNone DEF Matches
<1> QED
  BY <1>2 DEF HalfDone

\* No attempt is paid back more than was taken for it: of the refunds of the
\* helper, of its goroutines and of the deferred audit at most one happens,
\* for any number of requests, contexts, attempts and prices.
THEOREM RefundTheorem == Spec => []NeverOverRefunded
<1>1. Books => NeverOverRefunded
  BY DEF Books, BooksOf, RefundBooks, NeverOverRefunded
<1> QED
  BY <1>1, InitBooks, NextBooks, PTL DEF Spec

\* The answered attempt costs exactly its price: the reservation, the streaming
\* flushes and post-billing add up (a rerank never costs less).
THEOREM SettlementTheorem == Spec => []ExactSettlement
<1>1. Books => ExactSettlement
  <2> SUFFICES ASSUME Books, NEW r \in Requests, Quiet(r), outcome[r] = "ok",
                      transport[r] = "http", "user" \notin missed[r]
               PROVE  \/ userPaid[r][attempt[r]] = Due(r)
                      \/ handler[r] = "rerank" /\ userPaid[r][attempt[r]] >= Due(r)
    BY DEF ExactSettlement
  <2>1. Total(r) = Paid(r) /\ Paid(r) = userPaid[r][attempt[r]] /\ Due(r) \in Int
    BY QuietLegs, LocalTypes DEF Books, Total, Paid, Due
  <2>2. CASE handler[r] = "rerank"
    BY <2>1, <2>2 DEF Books, BooksOf, BillBooks
  <2>3. CASE handler[r] # "rerank"
    BY <2>1, <2>3 DEF Books, BooksOf, BillBooks
  <2> QED
    BY <2>2, <2>3
<1> QED
  BY <1>1, InitBooks, NextBooks, PTL DEF Spec

\* Once a request is quiet its token has paid what its user has paid, in every
\* attempt, unless a charge was missed: PostConsumeTokenQuota and
\* PreConsumeTokenQuota move the two rows together though each is a statement
\* of its own.
THEOREM TokenTheorem == Spec => []TokenFollowsUser
<1>1. Books => TokenFollowsUser
  <2> SUFFICES ASSUME Books, NEW r \in Requests, Quiet(r), ~Unlimited, missed[r] = {}
               PROVE  tokenPaid[r] = userPaid[r]
    BY DEF TokenFollowsUser
  <2>1. tokenPaid[r] \in PerAttempt /\ userPaid[r] \in PerAttempt
    BY DEF Books, IInv, TypeOK
  <2>2. ASSUME NEW a \in Attempts PROVE tokenPaid[r][a] = userPaid[r][a]
    <3>1. userPaid[r][a] - tokenPaid[r][a] = 0
      BY QuietLegs DEF Books, BooksOf, TokenBooks, Quiet
    <3> QED
      BY <2>1, <3>1 DEF PerAttempt
  <2> QED
    BY <2>1, <2>2 DEF PerAttempt
<1> QED
  BY <1>1, InitBooks, NextBooks, PTL DEF Spec

\* With retries, every failed attempt costs at most what it had reserved and
\* charged, and the answered one at most its price (rerank: and its estimate).
THEOREM RetryCostTheorem == Spec => []RetryCostBounded
<1>1. Books => RetryCostBounded
  <2> SUFFICES ASSUME Books, NEW r \in Requests, Quiet(r), missed[r] = {},
                      NEW a \in 1 .. attempt[r]
               PROVE  userPaid[r][a] <= CostCap(r, a)
    BY DEF RetryCostBounded
  <2>1. /\ BooksOf(r) /\ Locals(r) /\ pc[r] = "done" /\ attempt[r] \in Attempts
        /\ outcome[r] \in {"ok", "failed"}
    BY DEF Books, BooksOf, Progress, Locals, Quiet, IInv, TypeOK
  <2>2. a \in Attempts /\ a \in Int /\ attempt[r] \in Int
    BY <2>1, ConstantsAssumption DEF Attempts
  <2>3. CASE a < attempt[r]
    BY <2>1, <2>2, <2>3 DEF BooksOf, FailBooks, CostCap
  <2>4. CASE a = attempt[r] /\ outcome[r] = "failed"
    <3>1. ~(a < attempt[r]) /\ outcome[r] # "ok"
      BY <2>2, <2>4
    <3> QED
      BY <2>1, <2>4, <3>1 DEF BooksOf, FailBooks, CostCap, Paid
  <2>5. CASE a = attempt[r] /\ outcome[r] = "ok"
    <3>1. Total(r) = Paid(r) /\ Paid(r) = userPaid[r][attempt[r]] /\ Due(r) \in Int
          /\ estimate[r] \in Nat /\ ~(a < attempt[r])
      BY <2>5, QuietLegs, LocalTypes DEF Books, Total, Paid, Due
    <3>2. CASE handler[r] = "rerank"
      BY <2>1, <2>5, <3>1, <3>2 DEF BooksOf, BillBooks, CostCap
    <3>3. CASE handler[r] # "rerank"
      BY <2>1, <2>5, <3>1, <3>3 DEF BooksOf, BillBooks, CostCap
    <3> QED
      BY <3>2, <3>3
  <2> QED
    BY <2>1, <2>2, <2>3, <2>4, <2>5 DEF Attempts
<1> QED
  BY <1>1, InitBooks, NextBooks, PTL DEF Spec

=============================================================================
