---------------------------- MODULE MediaBilling ----------------------------
(***************************************************************************)
(* Billing in the helpers that do not share the chat protocol: images,     *)
(* audio, video, OCR, Claude messages and realtime sessions.  Each has its *)
(* own rule for what it reserves, for what a failure gives back and for    *)
(* what the consume log says afterwards, and Relay may call it again on    *)
(* another channel with the same gin context.                              *)
(*                                                                         *)
(* All requests belong to one user whose token is unlimited, so that       *)
(* PreConsumeTokenQuota and PostConsumeTokenQuota touch one row.  The      *)
(* adaptors of images, video, OCR and Claude send with DoRequestHelper.    *)
(***************************************************************************)
EXTENDS Integers, FiniteSets

CONSTANTS
  Requests,
  KindsOf,       \* helpers that each request may use
  Quota0,        \* users.quota
  Estimates,     \* possible reservations: calculateImageBaseQuota and the like
  Usages,        \* what the tokens of an answer may cost
  Ids, NoId,     \* response ids of realtime events, and a missing one
  MaxEvents,     \* bound on the events without an id of a session
  TrustFactor,   \* 100 in the code
  MaxAttempts    \* 1 + retry times

Kinds == {"image", "audio", "video", "ocr", "claude", "realtime"}

ASSUME MediaAssumption ==
  /\ KindsOf \in [Requests -> SUBSET Kinds]
  /\ Quota0 \in Nat /\ Estimates \subseteq Nat \ {0} /\ Usages \subseteq Nat
  /\ NoId \notin Ids /\ MaxEvents \in Nat
  /\ TrustFactor \in Nat /\ MaxAttempts \in Nat \ {0}

VARIABLES
  quota,                              \* users.quota
  kind, perCall, estimate,            \* a request; perCall: image priced per image
  pc, attempt, pre, used, resent,     \* a helper's local variables
  cpre, forwarded, reconciled,        \* billing keys of the gin context
  log,                                \* quota of the request's consume log row
  pumps, counted, meter,              \* a realtime session
  tasks,                              \* PostConsumeTokenQuota calls in progress
  anonymous, sent, billed, outcome, paid, missed, spent
                                      \* what really happened (audit only);
                                      \* paid and spent are per attempt

shape   == <<kind, perCall, estimate>>
marks   == <<cpre, forwarded, reconciled>>
session == <<pumps, counted, meter, anonymous>>
audit   == <<sent, billed, outcome, spent>>
money   == <<quota, paid, missed>>
vars    == <<shape, pc, attempt, pre, used, resent, marks, log, session, tasks,
             audit, money>>

Attempts == 1..MaxAttempts

PCs == {"idle", "reserve", "take", "send", "sent", "session", "respond",
        "settle", "copy", "fail", "retry", "done"}

\* "cons": returnPreConsumedQuotaConservative; "roll": a refund that looks at
\* no mark any more; "net": the audit's refund; "bill": post-billing of a total.
\* The helper waits for a sync one.
Tasks == [req : Requests, att : Attempts, kind : {"cons", "roll", "net", "bill"},
          sync : BOOLEAN, delta : Int, total : Nat]

Busy(r)  == \E t \in tasks : t.req = r /\ t.sync
Quiet(r) == pc[r] = "done" /\ \A t \in tasks : t.req # r

Task(r, k, sync, delta, total) ==
  [req |-> r, att |-> attempt[r], kind |-> k, sync |-> sync,
   delta |-> delta, total |-> total]

Goto(r, next) == pc' = [pc EXCEPT ![r] = next]

-----------------------------------------------------------------------------
Init ==
  /\ quota = Quota0
  /\ kind \in [Requests -> Kinds] /\ perCall \in [Requests -> BOOLEAN]
  /\ \A r \in Requests : kind[r] \in KindsOf[r]
  /\ \A r \in Requests : kind[r] # "image" => perCall[r]
  /\ estimate = [r \in Requests |-> 0]
  /\ pc = [r \in Requests |-> "idle"] /\ attempt = [r \in Requests |-> 1]
  /\ pre = [r \in Requests |-> 0] /\ used = [r \in Requests |-> 0]
  /\ resent = [r \in Requests |-> FALSE]
  /\ cpre = [r \in Requests |-> 0]
  /\ forwarded = [r \in Requests |-> FALSE]
  /\ reconciled = [r \in Requests |-> FALSE]
  /\ log = [r \in Requests |-> 0]
  /\ pumps = [r \in Requests |-> {}] /\ counted = [r \in Requests |-> {}]
  /\ meter = [r \in Requests |-> 0] /\ anonymous = [r \in Requests |-> 0]
  /\ tasks = {}
  /\ sent = [r \in Requests |-> FALSE] /\ billed = [r \in Requests |-> FALSE]
  /\ outcome = [r \in Requests |-> "none"] /\ missed = [r \in Requests |-> FALSE]
  /\ paid = [r \in Requests |-> [a \in Attempts |-> 0]]
  /\ spent = [r \in Requests |-> [a \in Attempts |-> 0]]

\* The helper parses, validates and prices the request: it is refused, or it
\* has a price, which is 0 when a ratio is.
Start(r) ==
  /\ pc[r] = "idle"
  /\ \/ Goto(r, "retry") /\ UNCHANGED estimate
     \/ /\ \E n \in Estimates \cup {0} : estimate' = [estimate EXCEPT ![r] = n]
        /\ Goto(r, "reserve")
  /\ UNCHANGED <<kind, perCall, attempt, pre, used, resent, marks, log, session,
                 tasks, audit, money>>

-----------------------------------------------------------------------------
(* Reservation *)

\* Images are reserved when they have a price each.  The other helpers trust a
\* user who has far more than they need.
Trusts(r) == quota > TrustFactor * estimate[r]
Reserves(r) ==
  estimate[r] > 0 /\ IF kind[r] = "image" THEN perCall[r] ELSE ~Trusts(r)

\* The helper's own check of the balance.  OCR, Claude and realtime mark the
\* skipped reservation too; no refund ever follows a mark of 0.
Check(r) ==
  /\ pc[r] = "reserve"
  /\ used' = [used EXCEPT ![r] = estimate[r]]
  /\ pre' = [pre EXCEPT ![r] = 0]
  /\ cpre' = IF quota >= estimate[r] /\ ~Reserves(r)
                  /\ kind[r] \in {"ocr", "claude", "realtime"}
               THEN [cpre EXCEPT ![r] = 0] ELSE cpre
  /\ Goto(r, IF quota < estimate[r] THEN "retry"
             ELSE IF Reserves(r) THEN "take" ELSE "send")
  /\ UNCHANGED <<shape, attempt, resent, forwarded, reconciled, log, session,
                 tasks, audit, money>>

\* PreConsumeTokenQuota, markPreConsumed and recordProvisionalLog.
Take(r) ==
  /\ pc[r] = "take"
  /\ \/ /\ quota >= estimate[r]
        /\ quota' = quota - estimate[r]
        /\ paid' = [paid EXCEPT ![r][attempt[r]] = @ + estimate[r]]
        /\ pre' = [pre EXCEPT ![r] = estimate[r]]
        /\ cpre' = [cpre EXCEPT ![r] = estimate[r]]
        /\ log' = [log EXCEPT ![r] = estimate[r]]
        /\ Goto(r, "send")
     \/ /\ quota < estimate[r]
        /\ Goto(r, "retry")
        /\ UNCHANGED <<quota, paid, pre, cpre, log>>
  /\ UNCHANGED <<shape, attempt, used, resent, forwarded, reconciled, session,
                 tasks, audit, missed>>

-----------------------------------------------------------------------------
(* What a failure gives back *)

Add(r, t) == tasks' = IF pre[r] > 0 THEN tasks \cup {t} ELSE tasks

\* returnPreConsumedQuotaConservative, called by the helper or by GoCritical.
Conservative(r, sync) ==
  /\ Add(r, Task(r, "cons", sync, -pre[r], 0))
  /\ UNCHANGED <<reconciled, log>>

\* The deferred functions of the audio and video helpers: everything that was
\* reserved goes back, whether or not the request left.  Video empties the log
\* row; audio does it only when the upstream answered with an error status.
RollBack(r, empties) ==
  /\ reconciled' = [reconciled EXCEPT ![r] = TRUE]
  /\ Add(r, Task(r, "roll", FALSE, -pre[r], 0))
  /\ log' = IF empties THEN [log EXCEPT ![r] = 0] ELSE log

\* The image helper refunds at once unless the request may have left; after an
\* error status it empties the log row in either case.
ImageReturn_Always(r, empties) ==
  /\ reconciled' = [reconciled EXCEPT ![r] = TRUE]
  /\ Add(r, Task(r, "roll", TRUE, -pre[r], 0))
  /\ log' = IF empties THEN [log EXCEPT ![r] = 0] ELSE log
ImageReturn(r, empties) ==
  /\ reconciled' = [reconciled EXCEPT ![r] = TRUE]
  /\ IF forwarded[r]
       THEN UNCHANGED tasks
       ELSE Add(r, Task(r, "roll", TRUE, -pre[r], 0))
  /\ log' = IF empties THEN [log EXCEPT ![r] = 0] ELSE log

\* How each helper handles a request that could not be sent or has no answer,
\* and (answered) one that the upstream answers with an error.
AudioFails(r, answered) == RollBack(r, answered)
VideoFails(r) == RollBack(r, TRUE)
OCRFails(r, answered) == Conservative(r, ~answered)
ClaudeFails(r, answered) ==
  IF answered THEN Conservative(r, FALSE) ELSE UNCHANGED <<tasks, reconciled, log>>
RealtimeFails(r) ==
  IF pre[r] > 0 THEN RollBack(r, TRUE) ELSE UNCHANGED <<tasks, reconciled, log>>

Fails(r, answered) ==
  /\ Goto(r, "fail")
  /\ CASE kind[r] = "image"  -> ImageReturn(r, answered)
       [] kind[r] = "audio"  -> AudioFails(r, answered)
       [] kind[r] = "video"  -> VideoFails(r)
       [] kind[r] = "ocr"    -> OCRFails(r, answered)
       [] kind[r] = "claude" -> ClaudeFails(r, answered)

-----------------------------------------------------------------------------
(* The upstream call *)

\* Nothing is sent, or DoRequestHelper sets its mark and sends.  The audio
\* helper uses the HTTP client itself and sets no mark.
DoRequest(r) ==
  /\ pc[r] = "send" /\ kind[r] # "realtime"
  /\ \/ Fails(r, FALSE) /\ UNCHANGED <<forwarded, sent>>
     \/ /\ forwarded' = IF kind[r] = "audio" THEN forwarded
                        ELSE [forwarded EXCEPT ![r] = TRUE]
        /\ sent' = [sent EXCEPT ![r] = TRUE]
        /\ Goto(r, "sent")
        /\ UNCHANGED <<tasks, reconciled, log>>
  /\ UNCHANGED <<shape, attempt, pre, used, resent, cpre, session, billed,
                 outcome, spent, money>>

\* A transport error, an error status, one more try without the rejected
\* thinking blocks (Claude only), or an answer.
UpstreamReplies(r) ==
  /\ pc[r] = "sent"
  /\ \/ \E answered \in BOOLEAN : Fails(r, answered) /\ UNCHANGED resent
     \/ /\ kind[r] = "claude" /\ ~resent[r]
        /\ resent' = [resent EXCEPT ![r] = TRUE]
        /\ Goto(r, "send") /\ UNCHANGED <<tasks, reconciled, log>>
     \/ Goto(r, "respond") /\ UNCHANGED <<resent, tasks, reconciled, log>>
  /\ UNCHANGED <<shape, attempt, pre, used, cpre, forwarded, session, audit, money>>

\* finalizeImageQuota: tokens are added to a price per image.  They replace the
\* other price when the model has a price for them, and are added to it at the
\* legacy ratio when it has none.
ImagePrices(r, n) ==
  IF perCall[r] \/ n = 0 THEN {estimate[r] + n} ELSE {n, estimate[r] + n}

\* Audio, video and OCR cost what was estimated, Claude what was used.
FinalPrices(r, n) == CASE kind[r] = "image"  -> ImagePrices(r, n)
                       [] kind[r] = "claude" -> {n}
                       [] OTHER              -> {estimate[r]}

Bill(r, n, result) ==
  /\ \E price \in FinalPrices(r, n) : used' = [used EXCEPT ![r] = price]
  /\ outcome' = [outcome EXCEPT ![r] = result]
  /\ Goto(r, "settle")
  /\ UNCHANGED <<tasks, reconciled, log>>

\* DoResponse: usage worth n tokens, or an error.  A failing image is billed all
\* the same: for its base price, and for the tokens when the error comes with a
\* usage (the client left while the answer was being written).
DoResponse(r) ==
  /\ pc[r] = "respond"
  /\ \/ \E n \in Usages : Bill(r, n, "ok")
     \/ kind[r] = "image" /\ \E n \in Usages \cup {0} : Bill(r, n, "broken")
     \/ /\ kind[r] \in {"video", "ocr", "claude"}
        /\ Fails(r, TRUE)
        /\ UNCHANGED <<used, outcome>>
  /\ UNCHANGED <<shape, attempt, pre, resent, cpre, forwarded, session, sent,
                 billed, spent, money>>

-----------------------------------------------------------------------------
(* Realtime sessions *)

\* RelayRealtime sets the mark before it connects and takes it back when the
\* connection fails.
Connect(r) ==
  /\ pc[r] = "send" /\ kind[r] = "realtime"
  /\ \/ /\ RealtimeFails(r)
        /\ forwarded' = [forwarded EXCEPT ![r] = FALSE]
        /\ Goto(r, "fail")
        /\ UNCHANGED <<pumps, sent>>
     \/ /\ forwarded' = [forwarded EXCEPT ![r] = TRUE]
        /\ sent' = [sent EXCEPT ![r] = TRUE]
        /\ pumps' = [pumps EXCEPT ![r] = {"up", "down"}]
        /\ Goto(r, "session")
        /\ UNCHANGED <<tasks, reconciled, log>>
  /\ UNCHANGED <<shape, attempt, pre, used, resent, cpre, counted, meter,
                 anonymous, billed, outcome, spent, money>>

\* maybeParseRealtimeUsage: an event is counted unless its id was seen.
Counts(r, id) == id \notin counted[r]

\* copyWSUpstreamToClient reads a frame with usage.  It still may when the
\* other direction has ended and the connections are being closed.
UsageEvent(r) ==
  /\ "down" \in pumps[r]
  /\ \E id \in Ids \cup {NoId} :
       /\ id = NoId => anonymous[r] < MaxEvents
       /\ meter' = [meter EXCEPT ![r] = IF Counts(r, id) THEN @ + 1 ELSE @]
       /\ counted' = [counted EXCEPT ![r] = @ \cup ({id} \ {NoId})]
       /\ anonymous' = [anonymous EXCEPT ![r] = IF id = NoId THEN @ + 1 ELSE @]
  /\ UNCHANGED <<shape, pc, attempt, pre, used, resent, marks, log, pumps, tasks,
                 audit, money>>

\* A direction ends by itself: its peer closes or a write fails.
PumpEnds(r) ==
  /\ pumps[r] = {"up", "down"}
  /\ \E p \in pumps[r] : pumps' = [pumps EXCEPT ![r] = @ \ {p}]
  /\ UNCHANGED <<shape, pc, attempt, pre, used, resent, marks, log, counted,
                 meter, anonymous, tasks, audit, money>>

\* The handler has closed both connections, which ends the other direction.
PumpClosed_Blocks(r) == Cardinality(pumps[r]) = 1 /\ UNCHANGED vars
PumpClosed(r) ==
  /\ Cardinality(pumps[r]) = 1
  /\ pumps' = [pumps EXCEPT ![r] = {}]
  /\ UNCHANGED <<shape, pc, attempt, pre, used, resent, marks, log, counted,
                 meter, anonymous, tasks, audit, money>>

\* RealtimeHandler reads the usage once both directions have ended.
Drained_First(r) == Cardinality(pumps[r]) <= 1
Drained(r) == pumps[r] = {}

SessionEnds(r) ==
  /\ pc[r] = "session" /\ Drained(r)
  /\ used' = [used EXCEPT ![r] = meter[r]]
  /\ outcome' = [outcome EXCEPT ![r] = "ok"]
  /\ Goto(r, "settle")
  /\ UNCHANGED <<shape, attempt, pre, resent, marks, log, session, tasks, sent,
                 billed, spent, money>>

-----------------------------------------------------------------------------
(* Post-billing, the audit and the retry loop *)

\* OCR calls the conservative refund first and then forgets its reservation.
PreBillingReconcile(r) ==
  /\ pc[r] = "settle" /\ kind[r] = "ocr" /\ pre[r] > 0
  /\ Conservative(r, TRUE)
  /\ pre' = [pre EXCEPT ![r] = 0]
  /\ UNCHANGED <<shape, pc, attempt, used, resent, cpre, forwarded, session,
                 audit, money>>

\* A realtime session without usage keeps what was reserved.
KeepsReservation(r) == kind[r] = "realtime" /\ used[r] = 0

\* Only the image helper never bills less than it reserved.
FinalDelta(r) ==
  IF kind[r] = "image" /\ used[r] < pre[r] THEN 0 ELSE used[r] - pre[r]

\* markBillingReconciled and post-billing, by the image helper's deferred
\* function or handed to GoCritical.
PostConsume(r) ==
  /\ pc[r] = "settle" /\ ~Busy(r) /\ ~(kind[r] = "ocr" /\ pre[r] > 0)
  /\ reconciled' = [reconciled EXCEPT ![r] = TRUE]
  /\ tasks' = IF KeepsReservation(r) THEN tasks
              ELSE tasks \cup {Task(r, "bill", kind[r] = "image", FinalDelta(r), used[r])}
  /\ billed' = [billed EXCEPT ![r] = TRUE]
  /\ Goto(r, IF outcome[r] = "broken" THEN "fail"
             ELSE IF kind[r] = "audio" THEN "copy" ELSE "done")
  /\ UNCHANGED <<shape, attempt, pre, used, resent, cpre, forwarded, log, session,
                 sent, outcome, spent, money>>

\* The audio helper copies the answer to the client after billing is decided.
CopyAnswer(r) ==
  /\ pc[r] = "copy"
  /\ \/ Goto(r, "done") /\ UNCHANGED outcome
     \/ Goto(r, "fail") /\ outcome' = [outcome EXCEPT ![r] = "broken"]
  /\ UNCHANGED <<shape, attempt, pre, used, resent, marks, log, session, tasks,
                 sent, billed, spent, money>>

\* billingAuditSafetyNet, which matters only when something was reserved; the
\* realtime one only logs.
AuditRefunds(r) ==
  kind[r] # "realtime" /\ pre[r] > 0 /\ ~reconciled[r] /\ ~forwarded[r]

BillingAuditSafetyNet(r) ==
  /\ pc[r] = "fail" /\ ~Busy(r)
  /\ tasks' = IF AuditRefunds(r)
                THEN tasks \cup {Task(r, "net", FALSE, -cpre[r], 0)} ELSE tasks
  /\ Goto(r, "retry")
  /\ UNCHANGED <<shape, attempt, pre, used, resent, marks, log, session, audit, money>>

\* Relay tries another channel with the same gin context, where the price is
\* taken to be the same; realtime sessions are not retried.
Retry(r) ==
  /\ pc[r] = "retry"
  /\ \/ /\ attempt[r] < MaxAttempts /\ kind[r] # "realtime"
        /\ attempt' = [attempt EXCEPT ![r] = @ + 1]
        /\ spent' = [spent EXCEPT ![r][attempt[r]] = IF billed[r] THEN used[r] ELSE pre[r]]
        /\ sent' = [sent EXCEPT ![r] = FALSE]
        /\ billed' = [billed EXCEPT ![r] = FALSE]
        /\ resent' = [resent EXCEPT ![r] = FALSE]
        /\ outcome' = [outcome EXCEPT ![r] = "none"]
        /\ Goto(r, "reserve")
     \/ /\ outcome' = [outcome EXCEPT ![r] = "failed"]
        /\ Goto(r, "done")
        /\ UNCHANGED <<attempt, spent, sent, billed, resent>>
  /\ UNCHANGED <<shape, pre, used, marks, log, session, tasks, money>>

-----------------------------------------------------------------------------
(* PostConsumeTokenQuota and what its caller does to the log row. *)

\* Whether a task moves money when its turn comes.
Applies(t) == t.kind = "cons" => ~forwarded[t.req]

Work(t) ==
  /\ tasks' = tasks \ {t}
  /\ reconciled' = IF t.kind = "cons" THEN [reconciled EXCEPT ![t.req] = TRUE]
                   ELSE reconciled
  /\ log' = IF t.kind = "bill" \/ (t.kind = "cons" /\ Applies(t))
              THEN [log EXCEPT ![t.req] = t.total] ELSE log
  /\ IF Applies(t) /\ quota >= t.delta
       THEN /\ quota' = quota - t.delta
            /\ paid' = [paid EXCEPT ![t.req][t.att] = @ + t.delta]
       ELSE UNCHANGED <<quota, paid>>
  /\ missed' = IF Applies(t) /\ quota < t.delta
                 THEN [missed EXCEPT ![t.req] = TRUE] ELSE missed
  /\ UNCHANGED <<shape, pc, attempt, pre, used, resent, cpre, forwarded, session,
                 audit>>

-----------------------------------------------------------------------------
Handle(r) == \/ Check(r) \/ Take(r) \/ DoRequest(r) \/ UpstreamReplies(r)
             \/ DoResponse(r) \/ Connect(r) \/ PumpClosed(r) \/ SessionEnds(r)
             \/ PreBillingReconcile(r) \/ PostConsume(r) \/ CopyAnswer(r)
             \/ BillingAuditSafetyNet(r) \/ Retry(r)

AllQuiet == (\A r \in Requests : Quiet(r)) /\ UNCHANGED vars

Next == \/ \E r \in Requests : Start(r) \/ UsageEvent(r) \/ PumpEnds(r) \/ Handle(r)
        \/ \E t \in tasks : Work(t)
        \/ AllQuiet

\* What the server does by itself for a request.  An upstream call and a read of
\* its answer (the audio helper copies it to the client as it comes) have no
\* time limit: RELAY_TIMEOUT is 0 unless it is configured.
Own(r) == \/ Check(r) \/ Take(r) \/ DoRequest(r) \/ PumpClosed(r) \/ SessionEnds(r)
          \/ PreBillingReconcile(r) \/ PostConsume(r)
          \/ BillingAuditSafetyNet(r) \/ Retry(r)

\* Goroutines run, and a closed connection ends the read on it; nothing forces
\* the upstream to answer or ends a session that both sides keep open.
Fairness == /\ \A r \in Requests : WF_vars(Own(r))
            /\ WF_vars(\E t \in tasks : Work(t))

Spec     == Init /\ [][Next]_vars
FairSpec == Spec /\ Fairness

-----------------------------------------------------------------------------
(* Properties *)

\* Every variable has its type.
TypeOK ==
  /\ quota \in Nat /\ kind \in [Requests -> Kinds]
  /\ perCall \in [Requests -> BOOLEAN] /\ estimate \in [Requests -> Estimates \cup {0}]
  /\ pc \in [Requests -> PCs] /\ attempt \in [Requests -> Attempts]
  /\ pre \in [Requests -> Nat] /\ used \in [Requests -> Nat]
  /\ resent \in [Requests -> BOOLEAN] /\ cpre \in [Requests -> Nat]
  /\ forwarded \in [Requests -> BOOLEAN] /\ reconciled \in [Requests -> BOOLEAN]
  /\ log \in [Requests -> Nat]
  /\ pumps \in [Requests -> SUBSET {"up", "down"}]
  /\ counted \in [Requests -> SUBSET Ids] /\ meter \in [Requests -> Nat]
  /\ anonymous \in [Requests -> 0..MaxEvents]
  /\ tasks \subseteq Tasks
  /\ sent \in [Requests -> BOOLEAN] /\ billed \in [Requests -> BOOLEAN]
  /\ outcome \in [Requests -> {"none", "ok", "broken", "failed"}]
  /\ paid \in [Requests -> [Attempts -> Int]] /\ missed \in [Requests -> BOOLEAN]
  /\ spent \in [Requests -> [Attempts -> Nat]]

\* The price of an answered request.  A session's is the number of responses
\* the upstream reported, each once, or its reservation when there was none.
Responses(r) == Cardinality(counted[r]) + anonymous[r]
Due(r) == IF kind[r] # "realtime" THEN used[r]
          ELSE IF Responses(r) > 0 THEN Responses(r) ELSE pre[r]

\* A request answered at the first attempt costs its price and the log says so,
\* except that OCR charges its reservation on top (pre_billing_reconcile never
\* refunds after DoRequestHelper).
SettledExactly ==
  \A r \in Requests :
    Quiet(r) /\ outcome[r] = "ok" /\ attempt[r] = 1 /\ ~missed[r]
      => /\ paid[r][1] = Due(r) + IF kind[r] = "ocr" THEN cpre[r] ELSE 0
         /\ log[r] = Due(r)

\* What a request that failed at its first attempt costs: what was billed
\* before it failed (image, audio); otherwise nothing for audio and video,
\* which give back even what may have been consumed, and the reservation for
\* the others once they left (returnPreConsumedQuotaConservative).
FailureCost ==
  \A r \in Requests :
    Quiet(r) /\ outcome[r] = "failed" /\ attempt[r] = 1 /\ ~missed[r]
      => paid[r][1] = IF billed[r] THEN used[r]
                   ELSE IF sent[r] /\ kind[r] \notin {"audio", "video"} THEN pre[r] ELSE 0

\* What attempt a of a request was worth, or had reserved.
CostCap(r, a) == IF a < attempt[r] THEN spent[r][a] ELSE IF billed[r] THEN Due(r) ELSE pre[r]

\* Whatever the order of its attempts, refunds and bills, a request never costs
\* less than nothing or more than its attempts reserved or were worth, attempt
\* by attempt.
RetryCostBounded ==
  \A r \in Requests :
    Quiet(r) /\ ~missed[r] /\ kind[r] # "ocr"
      => \A a \in 1..attempt[r] : 0 <= paid[r][a] /\ paid[r][a] <= CostCap(r, a)

\* Nothing of a request is left to do until the upstream says something.
Waiting(r) == /\ pc[r] \in {"sent", "respond", "copy"}
              /\ \A t \in tasks : t.req # r

\* A request that starts is answered and its billing ends, unless the upstream
\* leaves one of its attempts waiting forever; so does, whatever the upstream
\* does, a session once one direction has ended.
EventuallySettled ==
  \A r \in Requests :
    /\ <>[]Waiting(r) \/ ((pc[r] = "reserve" /\ kind[r] # "realtime") ~> Quiet(r))
    /\ Cardinality(pumps[r]) = 1 ~> Quiet(r)

\* What requests that fail or are retried cost, taken together.
CostBounded == TypeOK /\ FailureCost /\ RetryCostBounded

=============================================================================
