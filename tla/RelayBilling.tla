---------------------------- MODULE RelayBilling ----------------------------
(***************************************************************************)
(* The life of the quota of a relayed request: reservation before the      *)
(* upstream call, incremental charges while the answer streams, refund or  *)
(* reconciliation afterwards, the deferred audit, and the retry of a       *)
(* failed attempt on another channel.                                      *)
(*                                                                         *)
(* All requests belong to one user and one token, the two rows of the      *)
(* database they contend for.  Every SQL statement is one step; the        *)
(* goroutines started by graceful.GoCritical are members of `tasks' and    *)
(* interleave with every handler.  Redis and batch updates are off, so a   *)
(* quota read is a read of the row.                                        *)
(***************************************************************************)
EXTENDS Integers, FiniteSets

CONSTANTS
  Requests,      \* relay requests
  Contexts,      \* gin contexts; gin keeps them in a pool and reuses them
  CtxOf,         \* the context that serves each request
  Handlers,      \* which relay helpers requests may use
  Transports,    \* "http": DoRequestHelper; "sdk": adaptors that call an SDK
  UserQuota0,    \* initial users.quota
  TokenQuota0,   \* initial tokens.remain_quota
  Unlimited,     \* tokens.unlimited_quota
  Estimates,     \* possible reservations (estimatePreConsumedQuota)
  Usages,        \* possible final prices; 0 stands for a zero-usage answer
  TrustFactor,   \* 100 in the code
  MaxAttempts    \* 1 + retry times

ASSUME ConstantsAssumption ==
  /\ Handlers \subseteq {"text", "response", "rerank"}
  /\ Transports \subseteq {"http", "sdk"}
  /\ CtxOf \in [Requests -> Contexts]
  /\ UserQuota0 \in Nat /\ TokenQuota0 \in Nat
  /\ Unlimited \in BOOLEAN
  /\ Estimates \subseteq Nat \ {0}
  /\ Usages \subseteq Nat
  /\ TrustFactor \in Nat
  /\ MaxAttempts \in Nat \ {0}

VARIABLES
  userQuota, tokenQuota,                  \* the two database rows
  pc, attempt, handler, transport, stream, estimate, tokenSeen, pre, used,
                                          \* a handler's local variables
  streamed, charged, aborted,             \* its streaming QuotaTracker
  cpre, forwarded, reconciled,            \* billing keys of a gin context
  tasks,                                  \* PostConsumeTokenQuota calls in progress
  outcome, sent, userPaid, tokenPaid, missed, alarm, spent
                                          \* what really happened (audit only);
                                          \* paid and spent are per attempt

balances == <<userQuota, tokenQuota>>
shape    == <<handler, transport, stream, estimate, tokenSeen>>
tracker  == <<streamed, charged, aborted>>
context  == <<cpre, forwarded, reconciled>>
ledger   == <<userPaid, tokenPaid, missed>>
vars     == <<balances, pc, attempt, shape, pre, used, tracker, context, tasks,
              outcome, sent, ledger, alarm, spent>>

PCs == {"idle", "reserve", "checkToken", "checkUser", "decToken", "decUser",
        "convert", "send", "sent", "respond", "finalize", "flushed", "settle",
        "bill", "fail", "retry", "done"}

Attempts   == 1 .. MaxAttempts
PerAttempt == [Attempts -> Int]

\* A call of PostConsumeTokenQuota: by returnPreConsumedQuotaConservative
\* ("refund"), by the audit ("net"), by post-billing ("bill") or by the
\* streaming tracker ("flush").  The handler waits for a sync one.
Tasks == [req : Requests, att : Attempts, sync : BOOLEAN,
          kind : {"refund", "net", "bill", "flush"}, delta : Int, leg : {"check", "user", "token"}]

Ctx(r)   == CtxOf[r]
Busy(r)  == \E t \in tasks : t.req = r /\ t.sync
Quiet(r) == pc[r] = "done" /\ \A t \in tasks : t.req # r

\* The WHERE clause of the conditional updates: quota >= n.
Covers_Always(quota, n) == TRUE
Covers(quota, n) == n <= quota

Positive(n) == IF n > 0 THEN n ELSE 0

Task(r, kind, sync, delta, leg) ==
  [req |-> r, att |-> attempt[r], kind |-> kind, sync |-> sync,
   delta |-> delta, leg |-> leg]

-----------------------------------------------------------------------------
(* Initially no request has arrived. *)
Init ==
  /\ userQuota = UserQuota0 /\ tokenQuota = TokenQuota0
  /\ pc = [r \in Requests |-> "idle"] /\ attempt = [r \in Requests |-> 1]
  /\ handler \in [Requests -> Handlers]
  /\ transport \in [Requests -> Transports]
  /\ \A r \in Requests : transport[r] = "sdk" => handler[r] = "text"
  /\ stream \in [Requests -> BOOLEAN]
  /\ \A r \in Requests : stream[r] => handler[r] = "text"
  /\ estimate \in [Requests -> Estimates]
  /\ tokenSeen = [r \in Requests |-> 0]
  /\ pre = [r \in Requests |-> 0] /\ used = [r \in Requests |-> 0]
  /\ streamed = [r \in Requests |-> 0] /\ charged = [r \in Requests |-> 0]
  /\ aborted = [r \in Requests |-> FALSE]
  /\ cpre = [c \in Contexts |-> 0]
  /\ forwarded = [c \in Contexts |-> FALSE]
  /\ reconciled = [c \in Contexts |-> FALSE]
  /\ tasks = {}
  /\ outcome = [r \in Requests |-> "none"] /\ sent = [r \in Requests |-> FALSE]
  /\ userPaid = [r \in Requests |-> [a \in Attempts |-> 0]]
  /\ tokenPaid = [r \in Requests |-> [a \in Attempts |-> 0]]
  /\ missed = [r \in Requests |-> {}] /\ alarm = [r \in Requests |-> FALSE]
  /\ spent = [r \in Requests |-> [a \in Attempts |-> 0]]

\* gin takes a context from its pool, clears its keys, and the authentication
\* middleware stores the token's remaining quota in it.
Start(r) ==
  /\ pc[r] = "idle"
  /\ \A s \in Requests \ {r} : Ctx(s) = Ctx(r) => pc[s] \in {"idle", "done"}
  /\ tokenSeen' = [tokenSeen EXCEPT ![r] = tokenQuota]
  /\ cpre' = [cpre EXCEPT ![Ctx(r)] = 0]
  /\ forwarded' = [forwarded EXCEPT ![Ctx(r)] = FALSE]
  /\ reconciled' = [reconciled EXCEPT ![Ctx(r)] = FALSE]
  /\ pc' = [pc EXCEPT ![r] = "reserve"]
  /\ UNCHANGED <<balances, attempt, handler, transport, stream, estimate, pre,
                 used, tracker, tasks, outcome, sent, ledger, alarm, spent>>

-----------------------------------------------------------------------------
(* Reservation: preConsumeQuota and PreConsumeTokenQuota. *)

\* The reservation fails: the helper returns its error before it defers the
\* audit, so only the retry loop follows.
Refuse(r) == /\ pc' = [pc EXCEPT ![r] = "retry"]
             /\ pre' = [pre EXCEPT ![r] = 0]

\* The checks that the helper makes itself refuse the request.
Insufficient(r) ==
  \/ userQuota < estimate[r]
  \/ /\ handler[r] = "response" /\ ~Unlimited
     /\ tokenSeen[r] > 0 /\ tokenSeen[r] < estimate[r]

\* preConsumeQuota and preConsumeRerankQuota do not reserve when both
\* balances are far above the estimate; the Response API always reserves.
Trusted(r) ==
  /\ handler[r] # "response"
  /\ userQuota > TrustFactor * estimate[r]
  /\ Unlimited \/ tokenSeen[r] > TrustFactor * estimate[r]

\* markPreConsumed, after a successful or skipped reservation of amount n.
MarkPreConsumed(r, n) ==
  /\ cpre' = [cpre EXCEPT ![Ctx(r)] = n]
  /\ pc' = [pc EXCEPT ![r] = "convert"]

PreConsumeQuota(r) ==
  /\ pc[r] = "reserve"
  /\ \/ Insufficient(r) /\ Refuse(r) /\ UNCHANGED cpre
     \/ /\ ~Insufficient(r) /\ Trusted(r)
        /\ pre' = [pre EXCEPT ![r] = 0]
        /\ MarkPreConsumed(r, 0)
     \/ /\ ~Insufficient(r) /\ ~Trusted(r)
        /\ pre' = [pre EXCEPT ![r] = estimate[r]]
        /\ pc' = [pc EXCEPT ![r] = "checkToken"]
        /\ UNCHANGED cpre
  /\ UNCHANGED <<balances, attempt, shape, used, tracker, forwarded, reconciled,
                 tasks, outcome, sent, ledger, alarm, spent>>

\* PreConsumeTokenQuota reads the token row, then the user row ...
CheckTokenQuota(r) ==
  /\ pc[r] = "checkToken"
  /\ IF ~Unlimited /\ tokenQuota < pre[r]
       THEN Refuse(r)
       ELSE pc' = [pc EXCEPT ![r] = "checkUser"] /\ UNCHANGED pre
  /\ UNCHANGED <<balances, attempt, shape, used, tracker, context, tasks,
                 outcome, sent, ledger, alarm, spent>>

CheckUserQuota(r) ==
  /\ pc[r] = "checkUser"
  /\ IF userQuota < pre[r]
       THEN Refuse(r)
       ELSE pc' = [pc EXCEPT ![r] = "decToken"] /\ UNCHANGED pre
  /\ UNCHANGED <<balances, attempt, shape, used, tracker, context, tasks,
                 outcome, sent, ledger, alarm, spent>>

\* ... then updates the token row, whose WHERE clause tests the balance again ...
DecreaseTokenQuota(r) ==
  /\ pc[r] = "decToken"
  /\ \/ /\ Unlimited
        /\ pc' = [pc EXCEPT ![r] = "decUser"]
        /\ UNCHANGED <<tokenQuota, tokenPaid, pre>>
     \/ /\ ~Unlimited /\ Covers(tokenQuota, pre[r])
        /\ tokenQuota' = tokenQuota - pre[r]
        /\ tokenPaid' = [tokenPaid EXCEPT ![r][attempt[r]] = @ + pre[r]]
        /\ pc' = [pc EXCEPT ![r] = "decUser"]
        /\ UNCHANGED pre
     \/ /\ ~Unlimited /\ ~Covers(tokenQuota, pre[r])
        /\ Refuse(r)
        /\ UNCHANGED <<tokenQuota, tokenPaid>>
  /\ UNCHANGED <<userQuota, attempt, shape, used, tracker, context, tasks,
                 outcome, sent, userPaid, missed, alarm, spent>>

\* ... then the user row.  When that fails the token row is not restored.
DecreaseUserQuota(r) ==
  /\ pc[r] = "decUser"
  /\ \/ /\ Covers(userQuota, pre[r])
        /\ userQuota' = userQuota - pre[r]
        /\ userPaid' = [userPaid EXCEPT ![r][attempt[r]] = @ + pre[r]]
        /\ MarkPreConsumed(r, pre[r])
        /\ UNCHANGED <<missed, pre>>
     \/ /\ ~Covers(userQuota, pre[r])
        /\ missed' = [missed EXCEPT ![r] = @ \cup {"user"}]
        /\ Refuse(r)
        /\ UNCHANGED <<userQuota, userPaid, cpre>>
  /\ UNCHANGED <<tokenQuota, attempt, shape, used, tracker, forwarded,
                 reconciled, tasks, outcome, sent, tokenPaid, alarm, spent>>

-----------------------------------------------------------------------------
(* The upstream call.  Each helper handles a failure in its own way. *)

\* returnPreConsumedQuotaConservative(pre): called by the handler (sync) or
\* handed to GoCritical.  Nothing to do when nothing was reserved.
Refund(r, sync) ==
  tasks' = IF pre[r] > 0
             THEN tasks \cup {Task(r, "refund", sync, -pre[r], "check")}
             ELSE tasks

\* The helper returns an error; its deferred audit runs next.
Fail(r) == pc' = [pc EXCEPT ![r] = "fail"]

\* What a helper does about its reservation when it cannot build the body.
ConvertFailed_AsyncRefund(r) == Refund(r, FALSE)
ConvertFailed(r) ==
  IF handler[r] = "rerank" THEN Refund(r, TRUE) ELSE UNCHANGED tasks

\* Building the upstream body.  Only the rerank helper refunds by itself when
\* it fails; the others leave the reservation to the deferred audit.
ConvertRequest(r) ==
  /\ pc[r] = "convert"
  /\ \/ pc' = [pc EXCEPT ![r] = "send"] /\ UNCHANGED tasks
     \/ Fail(r) /\ ConvertFailed(r)
  /\ UNCHANGED <<balances, attempt, shape, pre, used, tracker, context, outcome,
                 sent, ledger, alarm, spent>>

\* DoRequest returned an error, before or after the request left.
DoRequestFailed(r) ==
  /\ Fail(r)
  /\ CASE handler[r] = "text"     -> UNCHANGED tasks
       [] handler[r] = "response" -> Refund(r, FALSE)
       [] handler[r] = "rerank"   -> Refund(r, TRUE)

\* DoRequestHelper: the request cannot be built, or the forwarding mark is set
\* and the request is sent.  An SDK adaptor's DoRequest does nothing; its call
\* happens in DoResponse and sets no mark.
DoRequest(r) ==
  /\ pc[r] = "send"
  /\ \/ /\ DoRequestFailed(r)
        /\ UNCHANGED <<forwarded, sent>>
     \/ /\ transport[r] = "http"
        /\ forwarded' = [forwarded EXCEPT ![Ctx(r)] = TRUE]
        /\ sent' = [sent EXCEPT ![r] = TRUE]
        /\ pc' = [pc EXCEPT ![r] = "sent"]
        /\ UNCHANGED tasks
     \/ /\ transport[r] = "sdk"
        /\ pc' = [pc EXCEPT ![r] = "respond"]
        /\ UNCHANGED <<forwarded, sent, tasks>>
  /\ UNCHANGED <<balances, attempt, shape, pre, used, tracker, cpre, reconciled,
                 outcome, ledger, alarm, spent>>

\* What comes back: a transport error, an HTTP error, or an answer.
UpstreamReplies(r) ==
  /\ pc[r] = "sent"
  /\ \/ DoRequestFailed(r)
     \/ Fail(r) /\ Refund(r, FALSE)
     \/ pc' = [pc EXCEPT ![r] = "respond"] /\ UNCHANGED tasks
  /\ UNCHANGED <<balances, attempt, shape, pre, used, tracker, context, outcome,
                 sent, ledger, alarm, spent>>

-----------------------------------------------------------------------------
(* The answer and the streaming quota tracker. *)

\* flushLocked: charge what the price n so far exceeds the reservation and the
\* earlier flushes.
FlushDelta(r, n) == Positive(n - pre[r]) - charged[r]

Flush(r, n) ==
  tasks' = IF FlushDelta(r, n) > 0
             THEN tasks \cup {Task(r, "flush", TRUE, FlushDelta(r, n), "check")}
             ELSE tasks

\* A chunk arrives: the price so far grows, and a flush runs when the flush
\* interval has elapsed and no earlier flush aborted the tracker.
RecordCompletionTokens(r) ==
  /\ pc[r] = "respond" /\ stream[r] /\ ~Busy(r) /\ ~aborted[r]
  /\ \E n \in Usages :
       /\ n > streamed[r]
       /\ streamed' = [streamed EXCEPT ![r] = n]
       /\ UNCHANGED tasks \/ Flush(r, n)
  /\ sent' = [sent EXCEPT ![r] = TRUE]
  /\ UNCHANGED <<balances, pc, attempt, shape, pre, used, charged, aborted,
                 context, outcome, ledger, alarm, spent>>

\* What an answer may be worth.  A streamed answer may bring no usage of its
\* own: the tracker's count is used.  Rerank has a price per call.
Bills(r) == IF handler[r] = "rerank" THEN {estimate[r]}
            ELSE IF stream[r] THEN Usages \cup {streamed[r]} ELSE Usages

\* DoResponse ends without usage, or reports usage (perhaps with an error the
\* helper then ignores).
DoResponse(r) ==
  /\ pc[r] = "respond" /\ ~Busy(r)
  /\ sent' = [sent EXCEPT ![r] = TRUE]
  /\ \/ /\ Fail(r)
        /\ Refund(r, handler[r] = "text")
        /\ UNCHANGED used
     \/ /\ \E n \in Bills(r) : used' = [used EXCEPT ![r] = n]
        /\ pc' = [pc EXCEPT ![r] = IF stream[r] THEN "finalize" ELSE "settle"]
        /\ UNCHANGED tasks
  /\ UNCHANGED <<balances, attempt, shape, pre, tracker, context, outcome,
                 ledger, alarm, spent>>

\* QuotaTracker.Finalize flushes the rest; an aborted tracker fails the request.
Finalize(r) ==
  /\ ~Busy(r)
  /\ \/ /\ pc[r] \in {"finalize", "flushed"} /\ aborted[r]
        /\ Fail(r) /\ Refund(r, TRUE)
     \/ /\ pc[r] = "finalize" /\ ~aborted[r]
        /\ pc' = [pc EXCEPT ![r] = "flushed"]
        /\ Flush(r, used[r])
     \/ /\ pc[r] = "flushed" /\ ~aborted[r]
        /\ pc' = [pc EXCEPT ![r] = "settle"]
        /\ UNCHANGED tasks
  /\ UNCHANGED <<balances, attempt, shape, pre, used, tracker, context, outcome,
                 sent, ledger, alarm, spent>>

-----------------------------------------------------------------------------
(* Post-billing, the deferred audit and the retry loop. *)

\* "pre_billing_reconcile": the text and rerank helpers call the conservative
\* refund before billing; rerank also forgets the amount it had reserved.
PreBillingReconcile(r) ==
  /\ pc[r] = "settle"
  /\ IF handler[r] = "response" THEN UNCHANGED tasks ELSE Refund(r, TRUE)
  /\ pre' = IF handler[r] = "rerank" THEN [pre EXCEPT ![r] = 0] ELSE pre
  /\ pc' = [pc EXCEPT ![r] = "bill"]
  /\ UNCHANGED <<balances, attempt, shape, used, tracker, context, outcome,
                 sent, ledger, alarm, spent>>

\* The zero-usage guards keep the reservation as the price.

KeepsReservation(r) ==
  /\ used[r] = 0
  /\ handler[r] = "response" \/ (handler[r] = "text" /\ pre[r] > 0)

FinalDelta_IgnoresFlushes(r) == used[r] - pre[r]
FinalDelta(r) == used[r] - pre[r] - charged[r]

\* markBillingReconciled, then post-billing is handed to GoCritical with the
\* difference between the price and what was taken so far.
PostConsumeQuota(r) ==
  /\ pc[r] = "bill" /\ ~Busy(r)
  /\ reconciled' = [reconciled EXCEPT ![Ctx(r)] = TRUE]
  /\ tasks' = IF KeepsReservation(r)
                THEN tasks
                ELSE tasks \cup {Task(r, "bill", FALSE, FinalDelta(r), "user")}
  /\ outcome' = [outcome EXCEPT ![r] = "ok"]
  /\ pc' = [pc EXCEPT ![r] = "done"]
  /\ UNCHANGED <<balances, attempt, shape, pre, used, tracker, cpre, forwarded,
                 sent, ledger, alarm, spent>>

AuditRefunds_Never(r) == FALSE
AuditRefunds(r) ==
  ~reconciled[Ctx(r)] /\ cpre[Ctx(r)] > 0 /\ ~forwarded[Ctx(r)]

\* billingAuditSafetyNet, deferred by the failed helper.
BillingAuditSafetyNet(r) ==
  /\ pc[r] = "fail" /\ ~Busy(r)
  /\ tasks' = IF AuditRefunds(r)
                THEN tasks \cup {Task(r, "net", FALSE, -cpre[Ctx(r)], "user")}
                ELSE tasks
  /\ pc' = [pc EXCEPT ![r] = "retry"]
  /\ UNCHANGED <<balances, attempt, shape, pre, used, tracker, context, outcome,
                 sent, ledger, alarm, spent>>

\* The retry budget of Relay, and a fresh streaming tracker per attempt.
MayRetry(r) == attempt[r] < MaxAttempts

NextAttempt_Uncounted(r) == attempt[r]
NextAttempt(r) == attempt[r] + 1

NewTracker(r) ==
  /\ streamed' = [streamed EXCEPT ![r] = 0]
  /\ charged' = [charged EXCEPT ![r] = 0]
  /\ aborted' = [aborted EXCEPT ![r] = FALSE]

\* Relay calls the helper again on another channel, with the same gin context
\* and nothing in it reset, or answers with the error.
Retry(r) ==
  /\ pc[r] = "retry"
  /\ \/ /\ MayRetry(r)
        /\ attempt' = [attempt EXCEPT ![r] = NextAttempt(r)]
        /\ pc' = [pc EXCEPT ![r] = "reserve"]
        /\ spent' = [spent EXCEPT ![r][attempt[r]] = pre[r] + charged[r]]
        /\ pre' = [pre EXCEPT ![r] = 0]
        /\ used' = [used EXCEPT ![r] = 0]
        /\ NewTracker(r)
        /\ sent' = [sent EXCEPT ![r] = FALSE]
        /\ UNCHANGED outcome
     \/ /\ pc' = [pc EXCEPT ![r] = "done"]
        /\ outcome' = [outcome EXCEPT ![r] = "failed"]
        /\ UNCHANGED <<attempt, spent, pre, used, tracker, sent>>
  /\ UNCHANGED <<balances, shape, context, tasks, ledger, alarm>>

-----------------------------------------------------------------------------
(* The calls of PostConsumeTokenQuota in progress. *)

\* The end of a call: a flush adds to the tracker's charge or aborts it; a
\* failed post-billing logs "unbilled request detected".
Finish(t, ok) ==
  /\ tasks' = tasks \ {t}
  /\ charged' = IF t.kind = "flush" /\ ok
                  THEN [charged EXCEPT ![t.req] = @ + t.delta] ELSE charged
  /\ aborted' = IF t.kind = "flush" /\ ~ok
                  THEN [aborted EXCEPT ![t.req] = TRUE] ELSE aborted
  /\ alarm' = IF t.kind = "bill" /\ ~ok
                THEN [alarm EXCEPT ![t.req] = TRUE] ELSE alarm

Advance(t, leg) == tasks' = (tasks \ {t}) \cup {[t EXCEPT !.leg = leg]}

\* shouldSkipPreConsumedRefund
SkipsRefund(r) == forwarded[Ctx(r)]

\* returnPreConsumedQuotaConservative: no refund once the request may have been
\* forwarded; either way the context is marked reconciled.
ReturnPreConsumedQuotaConservative(t) ==
  /\ t.kind = "refund" /\ t.leg = "check"
  /\ reconciled' = [reconciled EXCEPT ![Ctx(t.req)] = TRUE]
  /\ IF SkipsRefund(t.req) THEN tasks' = tasks \ {t} ELSE Advance(t, "user")
  /\ UNCHANGED <<balances, pc, attempt, shape, pre, used, tracker, cpre,
                 forwarded, outcome, sent, ledger, alarm, spent>>

\* ensureQuotaLocked reads the user's quota before the flush charges it.
EnsureQuota(t) ==
  /\ t.kind = "flush" /\ t.leg = "check"
  /\ IF userQuota < t.delta
       THEN Finish(t, FALSE)
       ELSE Advance(t, "user") /\ UNCHANGED <<charged, aborted, alarm>>
  /\ UNCHANGED <<balances, pc, attempt, shape, pre, used, streamed, context,
                 outcome, sent, ledger, spent>>

\* An unlimited token's row is left alone.
EndsAfterUser_Refunds(t) == Unlimited \/ t.delta < 0
EndsAfterUser(t) == Unlimited

\* PostConsumeTokenQuota, user row.  A failure is forgotten: the token row is
\* updated next, and an unlimited token ends the call without an error.
PostConsumeUser(t) ==
  /\ t.leg = "user"
  /\ IF Covers(userQuota, t.delta)
       THEN /\ userQuota' = userQuota - t.delta
            /\ userPaid' = [userPaid EXCEPT ![t.req][t.att] = @ + t.delta]
            /\ UNCHANGED missed
       ELSE /\ missed' = [missed EXCEPT ![t.req] = @ \cup {"user"}]
            /\ UNCHANGED <<userQuota, userPaid>>
  /\ IF EndsAfterUser(t)
       THEN Finish(t, TRUE)
       ELSE Advance(t, "token") /\ UNCHANGED <<charged, aborted, alarm>>
  /\ UNCHANGED <<tokenQuota, pc, attempt, shape, pre, used, streamed, context,
                 outcome, sent, tokenPaid, spent>>

\* PostConsumeTokenQuota, token row.
PostConsumeToken(t) ==
  /\ t.leg = "token"
  /\ IF Covers(tokenQuota, t.delta)
       THEN /\ tokenQuota' = tokenQuota - t.delta
            /\ tokenPaid' = [tokenPaid EXCEPT ![t.req][t.att] = @ + t.delta]
            /\ Finish(t, TRUE)
            /\ UNCHANGED missed
       ELSE /\ missed' = [missed EXCEPT ![t.req] = @ \cup {"token"}]
            /\ Finish(t, FALSE)
            /\ UNCHANGED <<tokenQuota, tokenPaid>>
  /\ UNCHANGED <<userQuota, pc, attempt, shape, pre, used, streamed, context,
                 outcome, sent, userPaid, spent>>

-----------------------------------------------------------------------------
Reserve(r) == \/ PreConsumeQuota(r) \/ CheckTokenQuota(r) \/ CheckUserQuota(r)
              \/ DecreaseTokenQuota(r) \/ DecreaseUserQuota(r)
Forward(r) == ConvertRequest(r) \/ DoRequest(r) \/ UpstreamReplies(r)
Answer(r)  == DoResponse(r) \/ Finalize(r)
Settle(r)  == \/ PreBillingReconcile(r) \/ PostConsumeQuota(r)
              \/ BillingAuditSafetyNet(r) \/ Retry(r)

Handle(r)  == Reserve(r) \/ Forward(r) \/ Answer(r) \/ Settle(r)

Work(t) == \/ ReturnPreConsumedQuotaConservative(t) \/ EnsureQuota(t)
           \/ PostConsumeUser(t) \/ PostConsumeToken(t)

\* Every request has been answered and every call has ended.
AllQuiet == (\A r \in Requests : Quiet(r)) /\ UNCHANGED vars

Next == \/ \E r \in Requests : Start(r) \/ RecordCompletionTokens(r) \/ Handle(r)
        \/ \E t \in tasks : Work(t)
        \/ AllQuiet

\* What the server does by itself for a request.  The reply of the upstream and
\* the end of its answer are the upstream's: RELAY_TIMEOUT is 0 unless it is
\* configured, and the HTTP client then waits without a bound.
Own(r) == \/ Reserve(r) \/ ConvertRequest(r) \/ DoRequest(r)
          \/ Finalize(r) \/ Settle(r)

\* The Go scheduler runs every goroutine; nothing forces the upstream to reply,
\* to send more chunks or to end its answer.
Fairness == /\ \A r \in Requests : WF_vars(Own(r))
            /\ WF_vars(\E t \in tasks : Work(t))

Spec     == Init /\ [][Next]_vars
FairSpec == Spec /\ Fairness

-----------------------------------------------------------------------------
(* Properties. *)

\* Every variable has its type.
TypeOK ==
  /\ userQuota \in Int /\ tokenQuota \in Int
  /\ pc \in [Requests -> PCs] /\ attempt \in [Requests -> Attempts]
  /\ handler \in [Requests -> Handlers]
  /\ transport \in [Requests -> Transports]
  /\ stream \in [Requests -> BOOLEAN]
  /\ estimate \in [Requests -> Estimates]
  /\ tokenSeen \in [Requests -> Int]
  /\ pre \in [Requests -> Nat] /\ used \in [Requests -> Nat]
  /\ streamed \in [Requests -> Nat] /\ charged \in [Requests -> Int]
  /\ aborted \in [Requests -> BOOLEAN]
  /\ cpre \in [Contexts -> Nat]
  /\ forwarded \in [Contexts -> BOOLEAN] /\ reconciled \in [Contexts -> BOOLEAN]
  /\ tasks \subseteq Tasks
  /\ outcome \in [Requests -> {"none", "ok", "failed"}]
  /\ sent \in [Requests -> BOOLEAN]
  /\ userPaid \in [Requests -> PerAttempt]
  /\ tokenPaid \in [Requests -> PerAttempt]
  /\ missed \in [Requests -> SUBSET {"user", "token"}]
  /\ alarm \in [Requests -> BOOLEAN]
  /\ spent \in [Requests -> PerAttempt]

\* Neither balance is ever overdrawn, although every check of a balance is a
\* separate statement from the update that relies on it
\* (PreConsumeTokenQuota, ensureQuotaLocked, PostConsumeTokenQuota).
Solvent == userQuota >= 0 /\ tokenQuota >= 0

\* What a request costs: its price, or what was taken already when the
\* answer carried no usage and something had been reserved.
Due(r) == IF used[r] = 0 /\ pre[r] > 0 THEN pre[r] + charged[r] ELSE used[r]

\* No attempt is ever paid back more than was taken for it, unless a charge of
\* the user's row was missed: a reservation is refunded at most once, whoever
\* of the handler, its goroutines and the audit does it, at whichever attempt
\* they run.  (Not so for the Response API helper, see RefundedOnce in
\* MCRelayBilling, nor for the adaptors that call an SDK.)
NeverOverRefunded ==
  \A r \in Requests, a \in Attempts :
    handler[r] # "response" /\ transport[r] = "http" /\ "user" \notin missed[r]
      => userPaid[r][a] >= 0

\* The attempt that was answered costs the user exactly its price: the
\* reservation, the streaming flushes and post-billing add up, however they
\* interleave with another request's and with what earlier attempts left
\* running (postConsumeQuota, flushLocked).  The rerank helper may charge the
\* reservation on top (PaidOnce in MCRelayBilling), and never less.
ExactSettlement ==
  \A r \in Requests :
    /\ Quiet(r) /\ outcome[r] = "ok"
    /\ transport[r] = "http" /\ "user" \notin missed[r]
    => \/ userPaid[r][attempt[r]] = Due(r)
       \/ handler[r] = "rerank" /\ userPaid[r][attempt[r]] >= Due(r)

\* The token's row and the user's row move together, in every attempt.
TokenFollowsUser ==
  \A r \in Requests :
    Quiet(r) /\ ~Unlimited /\ missed[r] = {} => tokenPaid[r] = userPaid[r]

\* The most that an attempt of a request may cost: what it had reserved and
\* charged when it failed, or its price (rerank: and its reservation).
CostCap(r, a) ==
  IF a < attempt[r] THEN spent[r][a]
  ELSE IF outcome[r] # "ok" THEN pre[r] + charged[r]
  ELSE IF handler[r] = "rerank" THEN Due(r) + estimate[r]
  ELSE Due(r)

\* With retries, an answered request costs at most its price and what its
\* failed attempts had reserved and charged, attempt by attempt.
RetryCostBounded ==
  \A r \in Requests :
    Quiet(r) /\ missed[r] = {}
      => \A a \in 1 .. attempt[r] : userPaid[r][a] <= CostCap(r, a)

\* Every failed request that never left gets its reservation back in the end.
EventuallyRefunded ==
  \A r \in Requests :
    (pc[r] = "fail" /\ ~sent[r]) ~> (Quiet(r) /\ userPaid[r][attempt[r]] <= 0)

\* Nothing of a request is left to do until the upstream says something.
Waiting(r) == pc[r] \in {"sent", "respond"} /\ \A t \in tasks : t.req # r

\* Every request that starts is answered and its billing ends, unless the
\* upstream leaves one of its attempts waiting forever.
EventuallySettled ==
  \A r \in Requests : <>[]Waiting(r) \/ (pc[r] = "reserve" ~> Quiet(r))

=============================================================================
