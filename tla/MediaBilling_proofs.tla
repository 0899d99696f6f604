------------------------ MODULE MediaBilling_proofs ------------------------
(***************************************************************************)
(* What the helpers charge: a proof of SettledExactly and CostBounded for  *)
(* every number of requests and attempts, every price and every balance.   *)
(*                                                                         *)
(* An attempt has at most one PostConsumeTokenQuota call under way at a    *)
(* time (OneTask), although refunds of earlier attempts may still be on    *)
(* their way when a later one is billed.  So each attempt has an amount    *)
(* that it will have cost once its call is done (Ends): its reservation    *)
(* while the helper runs (Held), what the failure keeps (Kept) or what the *)
(* bill says (Final) afterwards (Closed), and at most what it was worth    *)
(* once Relay has gone on to the next attempt (Past).                      *)
(***************************************************************************)
EXTENDS MediaBilling, TLAPS, FiniteSetTheorems

\* The calls of attempt a of request r.
TasksOf(r, a) == {t \in tasks : t.req = r /\ t.att = a}

\* Attempt a of r will have cost v once its call is done.
Ends(r, a, v) ==
  /\ TasksOf(r, a) = {} => paid[r][a] = v
  /\ \A t \in TasksOf(r, a) : paid[r][a] + (IF Applies(t) THEN t.delta ELSE 0) = v

InFlight == {"send", "sent", "session", "respond", "settle"}
Over     == {"copy", "fail", "retry", "done"}

OneTask ==
  \A t, u \in tasks : t.req = u.req /\ t.att = u.att => t = u

\* A task belongs to an attempt that has begun; the helper waits only for a
\* task of the present one; a refund it does not wait for comes too late.
TaskMarks ==
  \A t \in tasks :
    /\ t.att <= attempt[t.req]
    /\ t.sync => /\ t.att = attempt[t.req] /\ pc[t.req] \in {"settle", "fail", "done"}
                 /\ t.kind = "cons" \/ reconciled[t.req]
    /\ t.kind = "cons" => /\ kind[t.req] = "ocr" \/ (kind[t.req] = "claude" /\ ~t.sync)
                          /\ ~t.sync => forwarded[t.req]

\* Where a request is and what its marks are.
Marks(r) ==
  /\ kind[r] = "realtime" => attempt[r] = 1
  /\ pc[r] \in {"idle", "reserve", "take"} => ~sent[r] /\ ~billed[r] /\ outcome[r] = "none"
  /\ pc[r] \in InFlight => ~billed[r]
  /\ pc[r] \in {"send", "sent", "session", "respond", "fail", "retry"} => outcome[r] # "ok"
  /\ pc[r] = "session" => kind[r] = "realtime"
  /\ pc[r] \in {"sent", "respond", "copy"} => kind[r] # "realtime"
  /\ pc[r] = "copy" => kind[r] = "audio" /\ billed[r] /\ outcome[r] = "ok"
  /\ billed[r] => reconciled[r] /\ sent[r]
  /\ pc[r] \in {"sent", "session", "respond", "settle"} => sent[r]
  /\ sent[r] /\ kind[r] # "audio" => forwarded[r]
  /\ forwarded[r] => sent[r] \/ attempt[r] > 1
  /\ kind[r] = "realtime" /\ sent[r] =>
       pc[r] \in {"session", "settle"} \/ (pc[r] = "done" /\ outcome[r] = "ok")
  /\ pc[r] = "settle" => outcome[r] \in {"ok", "broken"} /\ (outcome[r] = "broken" => kind[r] = "image")
  /\ pc[r] = "done" => outcome[r] \in {"ok", "failed"}
  /\ pc[r] = "done" /\ outcome[r] = "ok" => billed[r]
  /\ billed[r] /\ ~(pc[r] \in {"copy", "done"} /\ outcome[r] = "ok") => kind[r] \in {"image", "audio"}
  /\ kind[r] = "claude" /\ reconciled[r] => forwarded[r]

\* A session's meter is the number of responses, and its usage the meter.
Session(r) ==
  /\ IsFiniteSet(counted[r]) /\ meter[r] = Responses(r)
  /\ pumps[r] # {} => pc[r] = "session"
  /\ kind[r] = "realtime" /\ sent[r] /\ pc[r] # "session" => used[r] = meter[r]
  /\ kind[r] = "realtime" /\ pc[r] \in {"idle", "reserve", "take"} => log[r] = 0
  /\ kind[r] = "realtime" /\ pc[r] \in InFlight => log[r] = pre[r]

\* The present attempt while its helper runs.
Held(r) ==
  /\ pc[r] \in {"idle", "reserve", "take"} =>
       TasksOf(r, attempt[r]) = {} /\ paid[r][attempt[r]] = 0
  /\ pc[r] \in {"idle", "take"} => pre[r] = 0
  /\ pc[r] \in InFlight /\ ~(kind[r] = "ocr" /\ pc[r] = "settle") =>
       /\ TasksOf(r, attempt[r]) = {} /\ paid[r][attempt[r]] = pre[r]
       /\ pre[r] > 0 \/ kind[r] = "ocr" => cpre[r] = pre[r]
  /\ kind[r] = "ocr" /\ pc[r] = "settle" =>
       /\ paid[r][attempt[r]] = cpre[r]
       /\ pre[r] > 0 => TasksOf(r, attempt[r]) = {}
       /\ \A t \in TasksOf(r, attempt[r]) : t.kind = "cons" /\ t.sync
  /\ pc[r] = "take" \/ (pc[r] \in InFlight /\ pre[r] > 0) => estimate[r] > 0
  /\ pc[r] \in {"take", "send", "sent", "respond"} => used[r] = estimate[r]
  /\ pc[r] \in InFlight => pre[r] \in {0, estimate[r]}
  /\ pc[r] = "settle" /\ kind[r] = "image" => used[r] >= pre[r]
  /\ kind[r] = "image" /\ (pc[r] = "take" \/ (pc[r] \in {"send", "sent", "respond"} /\ pre[r] > 0))
       => perCall[r]

\* What a bill and what a failure leave charged.
Final(r) == (IF KeepsReservation(r) THEN pre[r] ELSE used[r])
            + (IF kind[r] = "ocr" THEN cpre[r] ELSE 0)
Kept(r) == IF kind[r] \in {"image", "ocr", "claude"} /\ forwarded[r] THEN pre[r] ELSE 0

\* The present attempt once its helper has decided.
Closed(r) ==
  /\ billed[r] /\ ~missed[r] => Ends(r, attempt[r], Final(r))
  /\ ~billed[r] /\ pc[r] = "fail" /\ kind[r] = "claude" =>
       /\ ~missed[r] => Ends(r, attempt[r], pre[r])
       /\ \A t \in TasksOf(r, attempt[r]) : t.kind = "cons" /\ ~t.sync
       /\ pre[r] > 0 => cpre[r] = pre[r]
  /\ ~billed[r] /\ pc[r] \in {"fail", "retry", "done"} /\ ~(pc[r] = "fail" /\ kind[r] = "claude") =>
       (~missed[r] => Ends(r, attempt[r], Kept(r)))
  /\ pc[r] = "fail" /\ kind[r] # "claude" /\ AuditRefunds(r) => Busy(r)
  /\ pc[r] = "done" /\ outcome[r] = "ok" /\ attempt[r] = 1 =>
       /\ TasksOf(r, 1) = {} => log[r] = Due(r)
       /\ \A t \in TasksOf(r, 1) : t.kind = "bill" /\ t.total = Due(r)
  /\ pc[r] = "copy" /\ attempt[r] = 1 =>
       /\ TasksOf(r, 1) = {} => log[r] = Due(r)
       /\ \A t \in TasksOf(r, 1) : t.kind = "bill" /\ t.total = Due(r)

\* Attempts that Relay has given up, and those that are still to come.
Past(r) ==
  /\ kind[r] # "ocr" /\ ~missed[r] =>
       \A a \in Attempts : a < attempt[r] => \E v \in 0..spent[r][a] : Ends(r, a, v)
  /\ \A a \in Attempts : a > attempt[r] => paid[r][a] = 0

PerRequest(r) == Marks(r) /\ Session(r) /\ Held(r) /\ Closed(r) /\ Past(r)

IInv == TypeOK /\ OneTask /\ TaskMarks /\ \A r \in Requests : PerRequest(r)

-----------------------------------------------------------------------------
(* Types *)

LEMMA ConstantTypes ==
  /\ \A n \in Estimates : n \in Nat
  /\ \A n \in Usages : n \in Nat
  /\ 1 \in Attempts /\ Attempts \subseteq Nat /\ \A a \in Attempts : a \in Nat /\ a >= 1
BY MediaAssumption DEF Attempts

LEMMA TaskType ==
  ASSUME TypeOK, NEW r \in Requests, NEW k \in {"cons", "roll", "net", "bill"},
         NEW sync \in BOOLEAN, NEW delta \in Int, NEW total \in Nat
  PROVE  /\ Task(r, k, sync, delta, total) \in Tasks
         /\ Task(r, k, sync, delta, total).req = r
         /\ Task(r, k, sync, delta, total).att = attempt[r]
         /\ Task(r, k, sync, delta, total).kind = k
         /\ Task(r, k, sync, delta, total).sync = sync
         /\ Task(r, k, sync, delta, total).delta = delta
         /\ Task(r, k, sync, delta, total).total = total
BY DEF Task, Tasks, TypeOK

LEMMA GotoType ==
  ASSUME TypeOK, NEW r \in Requests
  PROVE  /\ \A next \in PCs : Goto(r, next) => pc' \in [Requests -> PCs] /\ pc'[r] = next
         /\ {"reserve", "take", "send", "sent", "session", "respond", "settle", "copy",
             "fail", "retry", "done"} \subseteq PCs
<1>1. pc \in [Requests -> PCs]
  BY DEF TypeOK
<1>2. \A next \in PCs : Goto(r, next) => pc' \in [Requests -> PCs] /\ pc'[r] = next
  BY <1>1 DEF Goto
<1> QED
  BY <1>2 DEF PCs

\* What a failure does, in the words of the types.
LEMMA FailsType ==
  ASSUME TypeOK, NEW r \in Requests, NEW answered \in BOOLEAN, Fails(r, answered),
         kind[r] # "realtime"
  PROVE  /\ tasks' \subseteq Tasks /\ reconciled' \in [Requests -> BOOLEAN]
         /\ log' \in [Requests -> Nat] /\ pc' = [pc EXCEPT ![r] = "fail"]
<1>1. pre[r] \in Nat /\ -pre[r] \in Int
  BY DEF TypeOK
<1>2. \A k \in {"cons", "roll"}, sync \in BOOLEAN :
        Add(r, Task(r, k, sync, -pre[r], 0)) => tasks' \subseteq Tasks
  BY <1>1, TaskType DEF Add, TypeOK
<1>3. kind[r] \in Kinds
  BY DEF TypeOK
<1>4. pc' = [pc EXCEPT ![r] = "fail"]
  BY DEF Fails, Goto
<1>5. CASE kind[r] = "image"
  <2>1. ImageReturn(r, answered)
    BY <1>5 DEF Fails
  <2> QED
    BY <1>2, <1>4, <2>1 DEF ImageReturn, TypeOK
<1>6. CASE kind[r] \in {"audio", "video"}
  <2>1. PICK empties \in BOOLEAN : RollBack(r, empties)
    BY <1>6 DEF Fails, AudioFails, VideoFails
  <2>2. Add(r, Task(r, "roll", FALSE, -pre[r], 0))
    BY <2>1 DEF RollBack
  <2>3. reconciled' \in [Requests -> BOOLEAN] /\ log' \in [Requests -> Nat]
    BY <2>1 DEF RollBack, TypeOK
  <2> QED
    BY <1>2, <1>4, <2>2, <2>3
<1>7. CASE kind[r] = "ocr"
  <2>1. Conservative(r, ~answered)
    BY <1>7 DEF Fails, OCRFails
  <2>2. PICK sync \in BOOLEAN : sync = ~answered
    BY Zenon
  <2>3. Conservative(r, sync)
    BY <2>1, <2>2
  <2> QED
    BY <1>2, <1>4, <2>3 DEF Conservative, TypeOK
<1>8. CASE kind[r] = "claude"
  <2>1. Conservative(r, FALSE) \/ UNCHANGED <<tasks, reconciled, log>>
    BY <1>8 DEF Fails, ClaudeFails
  <2> QED
    BY <1>2, <1>4, <2>1 DEF Conservative, TypeOK
<1> QED
  BY <1>3, <1>5, <1>6, <1>7, <1>8 DEF Kinds

-----------------------------------------------------------------------------
(* Requests do not disturb each other, except for the user's balance. *)

\* What a request needs to stay as it is.
Same(s) ==
  /\ kind'[s] = kind[s] /\ perCall'[s] = perCall[s] /\ estimate'[s] = estimate[s]
  /\ pc'[s] = pc[s] /\ attempt'[s] = attempt[s] /\ pre'[s] = pre[s] /\ used'[s] = used[s]
  /\ cpre'[s] = cpre[s] /\ forwarded'[s] = forwarded[s] /\ reconciled'[s] = reconciled[s]
  /\ log'[s] = log[s] /\ pumps'[s] = pumps[s] /\ counted'[s] = counted[s]
  /\ meter'[s] = meter[s] /\ anonymous'[s] = anonymous[s]
  /\ sent'[s] = sent[s] /\ billed'[s] = billed[s] /\ outcome'[s] = outcome[s]
  /\ paid'[s] = paid[s] /\ missed'[s] = missed[s] /\ spent'[s] = spent[s]
  /\ \A a \in Attempts : TasksOf(s, a)' = TasksOf(s, a)

LEMMA EndsFrame ==
  ASSUME NEW r \in Requests, NEW a \in Attempts, NEW v \in Int,
         Ends(r, a, v), paid'[r][a] = paid[r][a], TasksOf(r, a)' = TasksOf(r, a),
         \A t \in TasksOf(r, a) : Applies(t)' <=> Applies(t)
  PROVE  Ends(r, a, v)'
BY DEF Ends

\* A task of a request whose mark stays applies as before.
LEMMA AppliesFrame ==
  ASSUME NEW r \in Requests, NEW a \in Attempts, forwarded'[r] = forwarded[r]
  PROVE  \A t \in TasksOf(r, a) : Applies(t)' <=> Applies(t)
BY DEF TasksOf, Applies

LEMMA SameKeeps ==
  ASSUME IInv, NEW s \in Requests, Same(s)
  PROVE  PerRequest(s)'
<1>1. PerRequest(s) /\ attempt[s] \in Attempts /\ pre[s] \in Nat /\ used[s] \in Nat /\ cpre[s] \in Nat
  BY DEF IInv, TypeOK
<1>2. \A a \in Attempts, v \in Int : Ends(s, a, v) => Ends(s, a, v)'
  BY EndsFrame, AppliesFrame DEF Same
<1>3. Marks(s)'
  BY <1>1 DEF PerRequest, Marks, Same
<1>4. Session(s)'
  BY <1>1 DEF PerRequest, Session, Same, Responses
<1>5. Held(s)'
  BY <1>1 DEF PerRequest, Held, Same
<1>6. Closed(s)'
  <2>1. /\ Final(s) \in Int /\ Kept(s) \in Int
        /\ Final(s)' = Final(s) /\ Kept(s)' = Kept(s) /\ Due(s)' = Due(s)
        /\ AuditRefunds(s)' <=> AuditRefunds(s)
    BY <1>1 DEF Same, Final, Kept, Due, Responses, KeepsReservation, AuditRefunds
  <2>2. Busy(s) => Busy(s)'
    <3> SUFFICES ASSUME NEW t \in tasks, t.req = s, t.sync PROVE Busy(s)'
      BY DEF Busy
    <3>1. t.att \in Attempts /\ t \in TasksOf(s, t.att)
      BY DEF IInv, TypeOK, Tasks, TasksOf
    <3> QED
      BY <3>1 DEF Same, TasksOf, Busy
  <2>3. 1 \in Attempts
    BY ConstantTypes
  <2> QED
    BY <1>1, <1>2, <2>1, <2>2, <2>3 DEF PerRequest, Closed, Same
<1>7. Past(s)'
  <2>1. \A a \in Attempts : spent[s][a] \in Nat
    BY DEF IInv, TypeOK
  <2> QED
    BY <1>1, <1>2, <2>1 DEF PerRequest, Past, Same
<1> QED
  BY <1>3, <1>4, <1>5, <1>6, <1>7 DEF PerRequest

-----------------------------------------------------------------------------
(* Steps of a helper *)

\* A step of request r: it may start one call, when its attempt has none.
Only(r) ==
  /\ \A s \in Requests \ {r} :
       /\ kind'[s] = kind[s] /\ perCall'[s] = perCall[s] /\ estimate'[s] = estimate[s]
       /\ pc'[s] = pc[s] /\ attempt'[s] = attempt[s] /\ pre'[s] = pre[s] /\ used'[s] = used[s]
       /\ cpre'[s] = cpre[s] /\ forwarded'[s] = forwarded[s] /\ reconciled'[s] = reconciled[s]
       /\ log'[s] = log[s] /\ pumps'[s] = pumps[s] /\ counted'[s] = counted[s]
       /\ meter'[s] = meter[s] /\ anonymous'[s] = anonymous[s]
       /\ sent'[s] = sent[s] /\ billed'[s] = billed[s] /\ outcome'[s] = outcome[s]
       /\ paid'[s] = paid[s] /\ missed'[s] = missed[s] /\ spent'[s] = spent[s]
  /\ \/ tasks' = tasks
     \/ /\ TasksOf(r, attempt[r]) = {}
        /\ \E t \in Tasks : t.req = r /\ t.att = attempt[r] /\ tasks' = tasks \cup {t}

LEMMA OnlySame ==
  ASSUME IInv, NEW r \in Requests, Only(r)
  PROVE  /\ \A s \in Requests \ {r} : PerRequest(s)'
         /\ \A a \in Attempts : a # attempt[r] => TasksOf(r, a)' = TasksOf(r, a)
         /\ OneTask'
<1>1. \A s \in Requests, a \in Attempts :
        s # r \/ a # attempt[r] => TasksOf(s, a)' = TasksOf(s, a)
  <2> SUFFICES ASSUME NEW s \in Requests, NEW a \in Attempts, s # r \/ a # attempt[r]
               PROVE  TasksOf(s, a)' = TasksOf(s, a)
    OBVIOUS
  <2>1. CASE tasks' = tasks
    BY <2>1 DEF TasksOf
  <2>2. CASE tasks' # tasks
    <3>1. PICK t \in Tasks : t.req = r /\ t.att = attempt[r] /\ tasks' = tasks \cup {t}
      BY <2>2 DEF Only
    <3> QED
      BY <3>1 DEF TasksOf
  <2> QED
    BY <2>1, <2>2
<1>2. \A s \in Requests \ {r} : Same(s)
  BY <1>1 DEF Only, Same
<1>3. OneTask'
  <2>1. CASE tasks' = tasks
    BY <2>1 DEF IInv, OneTask
  <2>2. CASE tasks' # tasks
    <3>1. /\ TasksOf(r, attempt[r]) = {}
          /\ \E t \in Tasks : t.req = r /\ t.att = attempt[r] /\ tasks' = tasks \cup {t}
      BY <2>2 DEF Only
    <3>2. \A t \in tasks : ~(t.req = r /\ t.att = attempt[r])
      BY <3>1 DEF TasksOf
    <3> QED
      BY <3>1, <3>2 DEF IInv, OneTask
  <2> QED
    BY <2>1, <2>2
<1> QED
  BY <1>1, <1>2, <1>3, SameKeeps

\* The past of a request does not change while an attempt goes on: the refunds
\* that still look at the forwarding mark have found it set.
LEMMA PastKeeps ==
  ASSUME IInv, NEW r \in Requests, kind'[r] = kind[r], attempt'[r] = attempt[r],
         missed'[r] = missed[r], spent'[r] = spent[r],
         \A a \in Attempts : a # attempt[r] =>
            paid'[r][a] = paid[r][a] /\ TasksOf(r, a)' = TasksOf(r, a),
         kind[r] # "realtime" => (forwarded[r] => forwarded'[r])
  PROVE  Past(r)'
<1>1. Past(r) /\ attempt[r] \in Nat /\ \A a \in Attempts : a \in Nat /\ spent[r][a] \in Nat
  <2>1. Past(r) /\ attempt[r] \in Attempts /\ spent[r] \in [Attempts -> Nat]
    BY DEF IInv, PerRequest, TypeOK
  <2> QED
    BY <2>1, ConstantTypes
<1>2. ASSUME NEW a \in Attempts, a < attempt[r], NEW v \in 0..spent[r][a], Ends(r, a, v)
      PROVE  Ends(r, a, v)'
  <2>1. a # attempt[r] /\ v \in Int
    BY <1>1, <1>2
  <2>2. \A t \in TasksOf(r, a) : Applies(t)' <=> Applies(t)
    <3> SUFFICES ASSUME NEW t \in TasksOf(r, a) PROVE Applies(t)' <=> Applies(t)
      OBVIOUS
    <3>1. t \in tasks /\ t.req = r /\ t.att = a
      BY DEF TasksOf
    <3>2. t.kind = "cons" => forwarded[r] /\ forwarded'[r]
      BY <2>1, <3>1 DEF IInv, TaskMarks
    <3> QED
      BY <3>1, <3>2 DEF Applies
  <2> QED
    BY <1>2, <2>1, <2>2, EndsFrame
<1> QED
  BY <1>1, <1>2 DEF Past

LEMMA TaskMarksKeep ==
  ASSUME IInv, NEW r \in Requests, Only(r), attempt'[r] = attempt[r], kind'[r] = kind[r],
         kind[r] # "realtime" => (forwarded[r] => forwarded'[r]),
         reconciled[r] => reconciled'[r],
         Busy(r) => pc'[r] \in {"settle", "fail", "done"},
         \A t \in tasks' : t \notin tasks =>
           /\ t.sync => /\ pc'[r] \in {"settle", "fail", "done"}
                        /\ t.kind = "cons" \/ reconciled'[r]
           /\ t.kind = "cons" => /\ kind[r] = "ocr" \/ (kind[r] = "claude" /\ ~t.sync)
                                 /\ ~t.sync => forwarded'[r]
  PROVE  TaskMarks'
<1> SUFFICES ASSUME NEW t \in tasks'
             PROVE  /\ t.att <= attempt'[t.req]
                    /\ t.sync => /\ t.att = attempt'[t.req]
                                 /\ pc'[t.req] \in {"settle", "fail", "done"}
                                 /\ t.kind = "cons" \/ reconciled'[t.req]
                    /\ t.kind = "cons" =>
                         /\ kind'[t.req] = "ocr" \/ (kind'[t.req] = "claude" /\ ~t.sync)
                         /\ ~t.sync => forwarded'[t.req]
  BY DEF TaskMarks
<1>1. CASE t \in tasks /\ t.req # r
  <2>1. t.req \in Requests
    BY <1>1 DEF IInv, TypeOK, Tasks
  <2> QED
    BY <1>1, <2>1 DEF Only, IInv, TaskMarks
<1>2. CASE t \in tasks /\ t.req = r
  BY <1>2 DEF IInv, TaskMarks, Busy
<1>3. CASE t \notin tasks
  <2>1. t.req = r /\ t.att = attempt[r]
    BY <1>3 DEF Only
  <2>2. attempt[r] \in Nat
    BY ConstantTypes DEF IInv, TypeOK
  <2> QED
    BY <1>3, <2>1, <2>2
<1> QED
  BY <1>1, <1>2, <1>3

\* An attempt without a call keeps its helper waiting for none.
LEMMA NotBusy ==
  ASSUME IInv, NEW r \in Requests, TasksOf(r, attempt[r]) = {}
  PROVE  ~Busy(r)
BY DEF IInv, TaskMarks, Busy, TasksOf

LEMMA StepKeeps ==
  ASSUME IInv, NEW r \in Requests, TypeOK', Only(r), TaskMarks',
         Marks(r)', Session(r)', Held(r)', Closed(r)', Past(r)'
  PROVE  IInv'
BY OnlySame DEF IInv, PerRequest

LEMMA StartKeeps ==
  ASSUME IInv, NEW r \in Requests, Start(r) \/ Check(r) \/ Take(r)
  PROVE  IInv'
<1> USE DEF IInv
<1>1. /\ TypeOK /\ PerRequest(r) /\ attempt[r] \in Attempts /\ estimate[r] \in Nat
      /\ paid[r] \in [Attempts -> Int]
  BY ConstantTypes DEF TypeOK
<1>2. TypeOK'
  <2>1. CASE Start(r)
    <3>1. pc' \in [Requests -> PCs]
      BY <2>1, GotoType DEF Start
    <3>2. estimate \in [Requests -> Estimates \cup {0}]
      BY <1>1 DEF TypeOK
    <3>3. estimate' \in [Requests -> Estimates \cup {0}]
      <4>1. CASE estimate' = estimate
        BY <3>2, <4>1
      <4>2. CASE \E n \in Estimates \cup {0} : estimate' = [estimate EXCEPT ![r] = n]
        BY <3>2, <4>2
      <4> QED
        BY <2>1, <4>1, <4>2 DEF Start
    <3> QED
      BY <1>1, <2>1, <3>1, <3>3 DEF Start, TypeOK, marks, session, audit, money
  <2>2. CASE Check(r)
    BY <1>1, <2>2 DEF Check, Goto, TypeOK, PCs, shape, session, audit, money
  <2>3. CASE Take(r)
    <3>1. paid \in [Requests -> [Attempts -> Int]] /\ quota \in Nat
      BY <1>1 DEF TypeOK
    <3>2. paid' \in [Requests -> [Attempts -> Int]] /\ quota' \in Nat
      BY <1>1, <2>3, <3>1 DEF Take
    <3> QED
      BY <1>1, <2>3, <3>2 DEF Take, Goto, TypeOK, PCs, shape, session, audit
  <2> QED
    BY <2>1, <2>2, <2>3
<1>3. /\ pc[r] \in {"idle", "reserve", "take"} /\ tasks' = tasks
      /\ TasksOf(r, attempt[r]) = {} /\ paid[r][attempt[r]] = 0
      /\ UNCHANGED <<kind, attempt, forwarded, reconciled, session, audit, missed>>
  BY <1>1 DEF Start, Check, Take, PerRequest, Held, marks, shape, money
<1>4. Only(r)
  BY <1>1, <1>3 DEF Only, Start, Check, Take, Goto, marks, session, audit, money, shape, TypeOK
<1>5. TasksOf(r, attempt[r])' = {}
  BY <1>3 DEF TasksOf
<1>6. TaskMarks'
  BY <1>3, <1>4, NotBusy, TaskMarksKeep
<1>7. CASE Start(r)
  <2>1. /\ pc'[r] \in {"reserve", "retry"} /\ pc[r] = "idle"
        /\ pre'[r] = 0 /\ paid'[r] = paid[r] /\ log'[r] = log[r]
    BY <1>1, <1>7 DEF Start, Goto, TypeOK, marks, money, PerRequest, Held
  <2>2. Marks(r)' /\ Session(r)'
    BY <1>1, <1>3, <2>1 DEF PerRequest, Marks, Session, Responses, session, audit, InFlight
  <2>3. Held(r)'
    BY <1>1, <1>3, <1>5, <2>1 DEF Held, InFlight
  <2>4. Closed(r)'
    <3>1. Ends(r, attempt[r], 0)'
      BY <1>3, <1>5, <2>1 DEF Ends
    <3>2. Kept(r)' = 0
      BY <2>1 DEF Kept
    <3> QED
      BY <1>1, <1>3, <2>1, <3>1, <3>2 DEF Closed, PerRequest, Marks, audit
  <2>5. Past(r)'
    BY <1>3, <1>4, <2>1, OnlySame, PastKeeps DEF audit
  <2> QED
    BY <1>2, <1>4, <1>6, <2>2, <2>3, <2>4, <2>5, StepKeeps
<1>8. CASE Check(r)
  <2>1. /\ pc'[r] \in {"retry", "take", "send"} /\ pc[r] = "reserve"
        /\ pre'[r] = 0 /\ paid'[r] = paid[r] /\ log'[r] = log[r]
        /\ used'[r] = estimate[r] /\ estimate'[r] = estimate[r]
        /\ pc'[r] = "take" => estimate[r] > 0 /\ (kind[r] = "image" => perCall[r])
        /\ perCall'[r] = perCall[r]
        /\ pc'[r] = "send" /\ kind[r] = "ocr" => cpre'[r] = 0
    BY <1>1, <1>8 DEF Check, Goto, TypeOK, shape, money, Reserves
  <2>2. Marks(r)' /\ Session(r)'
    BY <1>1, <1>3, <2>1 DEF PerRequest, Marks, Session, Responses, session, audit, InFlight
  <2>3. Held(r)'
    BY <1>1, <1>3, <1>5, <2>1 DEF Held, InFlight
  <2>4. Closed(r)'
    <3>1. Ends(r, attempt[r], 0)'
      BY <1>3, <1>5, <2>1 DEF Ends
    <3>2. Kept(r)' = 0
      BY <2>1 DEF Kept
    <3> QED
      BY <1>1, <1>3, <2>1, <3>1, <3>2 DEF Closed, PerRequest, Marks, audit
  <2>5. Past(r)'
    BY <1>3, <1>4, <2>1, OnlySame, PastKeeps DEF audit
  <2> QED
    BY <1>2, <1>4, <1>6, <2>2, <2>3, <2>4, <2>5, StepKeeps
<1>9. CASE Take(r)
  <2>1. /\ pc[r] = "take" /\ pre[r] = 0 /\ estimate[r] > 0 /\ estimate'[r] = estimate[r]
        /\ perCall'[r] = perCall[r] /\ (kind[r] = "image" => perCall[r])
        /\ used'[r] = estimate[r]
    BY <1>1, <1>9 DEF Take, shape, PerRequest, Held
  <2>2. \/ /\ pc'[r] = "send" /\ pre'[r] = estimate[r] /\ cpre'[r] = estimate[r]
           /\ log'[r] = estimate[r] /\ paid'[r][attempt[r]] = estimate[r]
        \/ /\ pc'[r] = "retry" /\ pre'[r] = 0 /\ log'[r] = log[r]
           /\ paid'[r][attempt[r]] = 0
    BY <1>1, <1>3, <1>9, <2>1 DEF Take, Goto, TypeOK
  <2>3. \A a \in Attempts : a # attempt[r] => paid'[r][a] = paid[r][a]
    BY <1>1, <1>9 DEF Take, TypeOK
  <2>4. Marks(r)' /\ Session(r)'
    BY <1>1, <1>3, <2>1, <2>2 DEF PerRequest, Marks, Session, Responses, session, audit, InFlight
  <2>5. Held(r)'
    BY <1>1, <1>3, <1>5, <2>1, <2>2 DEF Held, InFlight
  <2>6. Closed(r)'
    <3>1. pc'[r] = "retry" => Ends(r, attempt[r], 0)' /\ Kept(r)' = 0
      BY <1>3, <1>5, <2>2 DEF Ends, Kept
    <3> QED
      BY <1>1, <1>3, <2>1, <2>2, <3>1 DEF Closed, PerRequest, Marks, audit
  <2>7. Past(r)'
    BY <1>3, <1>4, <2>3, OnlySame, PastKeeps DEF audit
  <2> QED
    BY <1>2, <1>4, <1>6, <2>4, <2>5, <2>6, <2>7, StepKeeps
<1> QED
  BY <1>7, <1>8, <1>9

LEMMA AddEffect ==
  ASSUME TypeOK, NEW r \in Requests, NEW k \in {"cons", "roll"}, NEW sync \in BOOLEAN,
         Add(r, Task(r, k, sync, -pre[r], 0))
  PROVE  \/ pre[r] = 0 /\ tasks' = tasks
         \/ /\ pre[r] > 0
            /\ \E t \in Tasks : /\ t.req = r /\ t.att = attempt[r] /\ t.delta = -pre[r]
                               /\ t.kind = k /\ t.sync = sync /\ tasks' = tasks \cup {t}
<1> DEFINE u == Task(r, k, sync, -pre[r], 0)
<1>1. pre[r] \in Nat /\ -pre[r] \in Int
  BY DEF TypeOK
<1>2. /\ u \in Tasks /\ u.req = r /\ u.att = attempt[r] /\ u.delta = -pre[r]
      /\ u.kind = k /\ u.sync = sync
  BY <1>1, TaskType
<1>3. tasks' = IF pre[r] > 0 THEN tasks \cup {u} ELSE tasks
  BY DEF Add
<1> HIDE DEF u
<1> QED
  BY <1>1, <1>2, <1>3

\* What each helper does when it gives up.
LEMMA FailsEffect ==
  ASSUME TypeOK, NEW r \in Requests, NEW answered \in BOOLEAN, Fails(r, answered),
         kind[r] # "realtime"
  PROVE  /\ \A s \in Requests \ {r} : reconciled'[s] = reconciled[s] /\ log'[s] = log[s]
         /\ kind[r] \in {"image", "audio", "video"} => reconciled'[r]
         /\ kind[r] \in {"ocr", "claude"} => reconciled'[r] = reconciled[r]
         /\ \/ /\ tasks' = tasks
               /\ pre[r] = 0 \/ (kind[r] = "image" /\ forwarded[r]) \/ (kind[r] = "claude" /\ ~answered)
            \/ /\ pre[r] > 0
               /\ \E t \in Tasks :
                    /\ t.req = r /\ t.att = attempt[r] /\ t.delta = -pre[r]
                    /\ tasks' = tasks \cup {t}
                    /\ \/ /\ kind[r] \in {"image", "audio", "video"} /\ t.kind = "roll"
                          /\ kind[r] = "image" => ~forwarded[r]
                       \/ kind[r] = "ocr" /\ t.kind = "cons" /\ (t.sync <=> ~answered)
                       \/ kind[r] = "claude" /\ t.kind = "cons" /\ ~t.sync /\ answered
<1>1. pre[r] \in Nat /\ -pre[r] \in Int /\ kind[r] \in Kinds
  BY DEF TypeOK
<1>2. reconciled \in [Requests -> BOOLEAN] /\ log \in [Requests -> Nat]
  BY DEF TypeOK
<1>3. CASE kind[r] = "image"
  <2>1. ImageReturn(r, answered)
    BY <1>3 DEF Fails
  <2>2. /\ reconciled'[r] = TRUE
        /\ \A s \in Requests \ {r} : reconciled'[s] = reconciled[s] /\ log'[s] = log[s]
    BY <1>2, <2>1 DEF ImageReturn
  <2>3. CASE forwarded[r]
    BY <1>3, <2>1, <2>2, <2>3 DEF ImageReturn
  <2>4. CASE ~forwarded[r]
    <3>1. Add(r, Task(r, "roll", TRUE, -pre[r], 0))
      BY <2>1, <2>4 DEF ImageReturn
    <3> QED
      BY <1>3, <2>2, <2>4, <3>1, AddEffect
  <2> QED
    BY <2>3, <2>4
<1>4. CASE kind[r] \in {"audio", "video"}
  <2>1. PICK empties \in BOOLEAN : RollBack(r, empties)
    BY <1>4 DEF Fails, AudioFails, VideoFails
  <2>2. /\ reconciled'[r] = TRUE
        /\ \A s \in Requests \ {r} : reconciled'[s] = reconciled[s] /\ log'[s] = log[s]
    BY <1>2, <2>1 DEF RollBack
  <2>3. PICK sync \in BOOLEAN : Add(r, Task(r, "roll", sync, -pre[r], 0))
    BY <2>1 DEF RollBack
  <2>4. \/ pre[r] = 0 /\ tasks' = tasks
        \/ /\ pre[r] > 0
           /\ \E t \in Tasks : /\ t.req = r /\ t.att = attempt[r] /\ t.delta = -pre[r]
                              /\ t.kind = "roll" /\ tasks' = tasks \cup {t}
    BY <2>3, AddEffect
  <2>5. kind[r] # "image" /\ kind[r] # "ocr" /\ kind[r] # "claude"
    BY <1>4
  <2> QED
    BY <1>4, <2>2, <2>4, <2>5
<1>5. CASE kind[r] = "ocr"
  <2>1. Conservative(r, ~answered)
    BY <1>5 DEF Fails, OCRFails
  <2>2. PICK sync \in BOOLEAN : sync = ~answered
    BY Zenon
  <2>3. Add(r, Task(r, "cons", sync, -pre[r], 0)) /\ UNCHANGED <<reconciled, log>>
    BY <2>1, <2>2 DEF Conservative
  <2> QED
    BY <1>5, <2>2, <2>3, AddEffect
<1>6. CASE kind[r] = "claude"
  <2>1. UNCHANGED <<reconciled, log>>
    BY <1>6 DEF Fails, ClaudeFails, Conservative
  <2>2. CASE answered
    <3>1. Add(r, Task(r, "cons", FALSE, -pre[r], 0))
      BY <1>6, <2>2 DEF Fails, ClaudeFails, Conservative
    <3> QED
      BY <1>6, <2>1, <2>2, <3>1, AddEffect
  <2>3. CASE ~answered
    BY <1>6, <2>1, <2>3 DEF Fails, ClaudeFails
  <2> QED
    BY <2>2, <2>3
<1> QED
  BY <1>1, <1>3, <1>4, <1>5, <1>6 DEF Kinds

\* A call that has just been started for an attempt that had none.
LEMMA Started ==
  ASSUME IInv, NEW r \in Requests, TasksOf(r, attempt[r]) = {},
         NEW t \in Tasks, t.req = r, t.att = attempt[r], tasks' = tasks \cup {t},
         attempt'[r] = attempt[r]
  PROVE  TasksOf(r, attempt[r])' = {t} /\ t \notin tasks /\ \A u \in tasks' : u \notin tasks => u = t
BY DEF TasksOf

LEMMA EndsOne ==
  ASSUME NEW r \in Requests, NEW a \in Attempts, NEW t, TasksOf(r, a) = {t}, NEW v \in Int,
         paid[r][a] + (IF Applies(t) THEN t.delta ELSE 0) = v
  PROVE  Ends(r, a, v)
BY DEF Ends

LEMMA EndsNone ==
  ASSUME NEW r \in Requests, NEW a \in Attempts, TasksOf(r, a) = {}
  PROVE  Ends(r, a, paid[r][a])
BY DEF Ends

\* A helper that could not send the request, or has no answer it can use.
LEMMA FailsKeeps ==
  ASSUME IInv, NEW r \in Requests, NEW answered \in BOOLEAN,
         pc[r] \in {"send", "sent", "respond"}, kind[r] # "realtime",
         Fails(r, answered), answered => sent[r],
         UNCHANGED <<shape, attempt, pre, used, cpre, forwarded, session, audit, money>>,
         resent' \in [Requests -> BOOLEAN]
  PROVE  IInv'
<1> USE DEF IInv
<1>1. /\ TypeOK /\ PerRequest(r) /\ attempt[r] \in Attempts /\ pre[r] \in Nat
      /\ kind[r] \in Kinds /\ pc[r] \in InFlight /\ pc[r] # "settle"
      /\ pc' = [pc EXCEPT ![r] = "fail"] /\ pc \in [Requests -> PCs] /\ pc'[r] = "fail"
  BY FailsType DEF TypeOK, InFlight
<1>2. /\ TasksOf(r, attempt[r]) = {} /\ paid[r][attempt[r]] = pre[r] /\ ~billed[r]
      /\ pre[r] > 0 => cpre[r] = pre[r]
      /\ kind[r] # "audio" /\ answered => forwarded[r]
  BY <1>1 DEF PerRequest, Held, Marks
<1>3. TypeOK'
  <2>1. pc' \in [Requests -> PCs]
    BY <1>1 DEF PCs
  <2>2. /\ tasks' \subseteq Tasks /\ reconciled' \in [Requests -> BOOLEAN]
        /\ log' \in [Requests -> Nat]
    BY <1>1, FailsType
  <2> QED
    BY <1>1, <2>1, <2>2 DEF TypeOK, shape, session, audit, money
<1>4. /\ \A s \in Requests \ {r} : reconciled'[s] = reconciled[s] /\ log'[s] = log[s]
      /\ kind[r] \in {"image", "audio", "video"} => reconciled'[r]
      /\ kind[r] \in {"ocr", "claude"} => reconciled'[r] = reconciled[r]
      /\ reconciled[r] => reconciled'[r]
  <2>1. /\ \A s \in Requests \ {r} : reconciled'[s] = reconciled[s] /\ log'[s] = log[s]
        /\ kind[r] \in {"image", "audio", "video"} => reconciled'[r]
        /\ kind[r] \in {"ocr", "claude"} => reconciled'[r] = reconciled[r]
    BY <1>1, FailsEffect
  <2> QED
    BY <1>1, <2>1 DEF Kinds
<1>5. Only(r)
  <2>1. \/ tasks' = tasks
        \/ \E t \in Tasks : t.req = r /\ t.att = attempt[r] /\ tasks' = tasks \cup {t}
    BY <1>1, FailsEffect
  <2>2. \A s \in Requests \ {r} : pc'[s] = pc[s]
    BY <1>1
  <2> QED
    BY <1>2, <1>4, <2>1, <2>2 DEF Only, shape, session, audit, money
<1>6. Marks(r)' /\ Session(r)' /\ Held(r)'
  <2>1. Marks(r)'
    BY <1>1, <1>2, <1>4 DEF PerRequest, Marks, InFlight, Kinds, shape, audit
  <2>2. Session(r)'
    <3>1. pumps[r] = {}
      BY <1>1 DEF PerRequest, Session
    <3> QED
      BY <1>1, <3>1 DEF PerRequest, Session, Responses, InFlight, shape, session
  <2>3. Held(r)'
    BY <1>1 DEF Held, InFlight
  <2> QED
    BY <2>1, <2>2, <2>3
<1>7. Past(r)'
  BY <1>5, OnlySame, PastKeeps DEF shape, audit, money
<1>8. Kept(r)' = Kept(r) /\ Kept(r) \in Int
  BY <1>1 DEF Kept, shape
<1>9. CASE tasks' = tasks
  <2>1. pre[r] = 0 \/ (kind[r] = "image" /\ forwarded[r]) \/ (kind[r] = "claude" /\ ~answered)
    <3>1. ASSUME NEW t \in Tasks, t.req = r, t.att = attempt[r], tasks' = tasks \cup {t}
          PROVE  FALSE
      BY <1>2, <1>9, <3>1 DEF TasksOf
    <3> QED
      BY <1>1, <3>1, FailsEffect
  <2>2. TasksOf(r, attempt[r])' = {} /\ paid'[r][attempt[r]] = pre[r]
    BY <1>2, <1>9 DEF TasksOf, money
  <2>3. Ends(r, attempt[r], pre[r])'
    BY <1>1, <2>2 DEF Ends
  <2>4. TaskMarks'
    BY <1>1, <1>2, <1>4, <1>5, <1>9, NotBusy, TaskMarksKeep DEF shape
  <2>5. kind[r] # "claude" => Kept(r)' = pre[r]
    BY <1>8, <2>1 DEF Kept
  <2>6. kind[r] # "claude" => ~AuditRefunds(r)'
    BY <1>4, <2>1 DEF AuditRefunds
  <2>7. Closed(r)'
    BY <1>1, <1>2, <2>2, <2>3, <2>5, <2>6 DEF Closed, shape, audit
  <2> QED
    BY <1>3, <1>5, <1>6, <1>7, <2>4, <2>7, StepKeeps
<1>10. CASE tasks' # tasks
  <2>1. PICK t \in Tasks :
          /\ t.req = r /\ t.att = attempt[r] /\ t.delta = -pre[r] /\ tasks' = tasks \cup {t}
          /\ \/ /\ kind[r] \in {"image", "audio", "video"} /\ t.kind = "roll"
                /\ kind[r] = "image" => ~forwarded[r]
             \/ kind[r] = "ocr" /\ t.kind = "cons" /\ (t.sync <=> ~answered)
             \/ kind[r] = "claude" /\ t.kind = "cons" /\ ~t.sync /\ answered
    BY <1>1, <1>10, FailsEffect
  <2>2. /\ TasksOf(r, attempt[r])' = {t} /\ t \in tasks' /\ pre[r] > 0
        /\ \A u \in tasks' : u \notin tasks => u = t
    <3>1. pre[r] > 0
      BY <1>1, <1>10, FailsEffect
    <3> QED
      BY <1>2, <2>1, <3>1, Started
  <2>3. paid'[r][attempt[r]] = pre[r] /\ forwarded'[r] = forwarded[r]
    BY <1>2 DEF money
  <2>4. TaskMarks'
    <3>1. /\ t.sync => t.kind = "cons" \/ reconciled'[r]
          /\ t.kind = "cons" => /\ kind[r] = "ocr" \/ (kind[r] = "claude" /\ ~t.sync)
                                /\ ~t.sync => forwarded[r]
      BY <1>2, <1>4, <2>1
    <3>2. attempt'[r] = attempt[r] /\ kind'[r] = kind[r] /\ ~Busy(r)
      BY <1>2, NotBusy DEF shape
    <3> QED
      BY <1>1, <1>4, <1>5, <2>2, <2>3, <3>1, <3>2, TaskMarksKeep
  <2>5. t.kind = "cons" => (Applies(t)' <=> ~forwarded[r])
    BY <2>1, <2>3 DEF Applies
  <2>6. t.kind # "cons" => Applies(t)'
    BY DEF Applies
  <2>7. kind[r] = "claude" => Ends(r, attempt[r], pre[r])'
    <3>1. kind[r] = "claude" => paid'[r][attempt[r]] + (IF Applies(t)' THEN t.delta ELSE 0) = pre[r]
      BY <1>1, <1>2, <2>1, <2>3, <2>5
    <3> QED
      BY <1>1, <2>2, <3>1 DEF Ends
  <2>8. kind[r] # "claude" => Ends(r, attempt[r], Kept(r))'
    <3>1. kind[r] # "claude" =>
            paid'[r][attempt[r]] + (IF Applies(t)' THEN t.delta ELSE 0) = Kept(r)
      BY <1>1, <2>1, <2>3, <2>5, <2>6 DEF Kept
    <3> QED
      BY <1>1, <1>8, <2>2, <3>1 DEF Ends
  <2>9. kind[r] # "claude" /\ AuditRefunds(r)' => Busy(r)'
    <3>1. kind[r] # "claude" /\ AuditRefunds(r)' => t.sync
      BY <1>1, <1>2, <1>4, <2>1, <2>3 DEF AuditRefunds, shape
    <3> QED
      BY <2>1, <2>2, <3>1 DEF Busy
  <2>10. Closed(r)'
    BY <1>1, <1>2, <1>8, <2>1, <2>2, <2>7, <2>8, <2>9 DEF Closed, shape, audit
  <2> QED
    BY <1>3, <1>5, <1>6, <1>7, <2>4, <2>10, StepKeeps
<1> QED
  BY <1>9, <1>10

LEMMA DoRequestKeeps ==
  ASSUME IInv, NEW r \in Requests, DoRequest(r)
  PROVE  IInv'
<1> USE DEF IInv
<1>1. /\ TypeOK /\ PerRequest(r) /\ attempt[r] \in Attempts /\ pc[r] = "send"
      /\ kind[r] # "realtime" /\ ~billed[r] /\ TasksOf(r, attempt[r]) = {}
      /\ UNCHANGED <<shape, attempt, pre, used, resent, cpre, session, billed,
                     outcome, spent, money>>
  BY DEF DoRequest, TypeOK, PerRequest, Marks, Held, InFlight
<1>2. CASE Fails(r, FALSE) /\ UNCHANGED <<forwarded, sent>>
  <2>1. UNCHANGED <<shape, attempt, pre, used, cpre, forwarded, session, audit, money>>
    BY <1>1, <1>2 DEF audit
  <2>2. resent' \in [Requests -> BOOLEAN]
    BY <1>1 DEF TypeOK
  <2> QED
    BY <1>1, <1>2, <2>1, <2>2, FailsKeeps
<1>3. CASE /\ forwarded' = IF kind[r] = "audio" THEN forwarded
                           ELSE [forwarded EXCEPT ![r] = TRUE]
           /\ sent' = [sent EXCEPT ![r] = TRUE]
           /\ Goto(r, "sent")
           /\ UNCHANGED <<tasks, reconciled, log>>
  <2>1. /\ pc' = [pc EXCEPT ![r] = "sent"] /\ pc \in [Requests -> PCs]
        /\ forwarded \in [Requests -> BOOLEAN] /\ sent \in [Requests -> BOOLEAN]
    BY <1>1, <1>3 DEF Goto, TypeOK
  <2>2. /\ pc' \in [Requests -> PCs] /\ forwarded' \in [Requests -> BOOLEAN]
        /\ sent' \in [Requests -> BOOLEAN]
    BY <1>3, <2>1 DEF PCs
  <2>3. TypeOK'
    BY <1>1, <1>3, <2>2 DEF TypeOK, shape, session, money
  <2>4. /\ pc'[r] = "sent" /\ sent'[r] /\ (kind[r] # "audio" => forwarded'[r])
        /\ (forwarded[r] => forwarded'[r])
    BY <1>3, <2>1
  <2>5. Only(r)
    BY <1>1, <1>3, <2>1 DEF Only, shape, session, money
  <2>6. TaskMarks'
    BY <1>1, <1>3, <2>4, <2>5, NotBusy, TaskMarksKeep DEF shape
  <2>7. Past(r)'
    BY <1>1, <2>4, <2>5, OnlySame, PastKeeps DEF shape, money
  <2>8. Marks(r)'
    BY <1>1, <1>3, <2>4 DEF PerRequest, Marks, InFlight, shape
  <2>9. Session(r)'
    BY <1>1, <1>3, <2>4 DEF PerRequest, Session, Responses, InFlight, shape, session
  <2>10. TasksOf(r, attempt[r])' = {}
    BY <1>1, <1>3 DEF TasksOf
  <2>11. Held(r)'
    BY <1>1, <1>3, <2>4, <2>10 DEF PerRequest, Held, InFlight, shape, money
  <2>12. Closed(r)'
    BY <1>1, <2>4 DEF Closed, InFlight
  <2> QED
    BY <2>3, <2>5, <2>6, <2>7, <2>8, <2>9, <2>11, <2>12, StepKeeps
<1> QED
  BY <1>1, <1>2, <1>3 DEF DoRequest

LEMMA UpstreamRepliesKeeps ==
  ASSUME IInv, NEW r \in Requests, UpstreamReplies(r)
  PROVE  IInv'
<1> USE DEF IInv
<1>1. /\ TypeOK /\ PerRequest(r) /\ attempt[r] \in Attempts /\ pc[r] = "sent"
      /\ kind[r] # "realtime" /\ ~billed[r] /\ TasksOf(r, attempt[r]) = {} /\ sent[r]
      /\ UNCHANGED <<shape, attempt, pre, used, cpre, forwarded, session, audit, money>>
  BY DEF UpstreamReplies, TypeOK, PerRequest, Marks, Held, InFlight
<1>2. ASSUME NEW answered \in BOOLEAN, Fails(r, answered) /\ UNCHANGED resent
      PROVE  IInv'
  <2>1. resent' \in [Requests -> BOOLEAN]
    BY <1>1, <1>2 DEF TypeOK
  <2> QED
    BY <1>1, <1>2, <2>1, FailsKeeps
<1>3. ASSUME NEW next \in {"send", "respond"}, Goto(r, next),
             resent' = [resent EXCEPT ![r] = TRUE] \/ UNCHANGED resent,
             UNCHANGED <<tasks, reconciled, log>>
      PROVE  IInv'
  <2>1. /\ pc' = [pc EXCEPT ![r] = next] /\ pc \in [Requests -> PCs]
        /\ resent \in [Requests -> BOOLEAN]
    BY <1>1, <1>3 DEF Goto, TypeOK
  <2>2. pc' \in [Requests -> PCs] /\ resent' \in [Requests -> BOOLEAN]
    BY <1>3, <2>1 DEF PCs
  <2>3. TypeOK'
    BY <1>1, <1>3, <2>2 DEF TypeOK, shape, session, audit, money
  <2>4. pc'[r] \in {"send", "respond"}
    BY <1>3, <2>1
  <2>5. Only(r)
    BY <1>1, <1>3, <2>1 DEF Only, shape, session, audit, money
  <2>6. TaskMarks'
    BY <1>1, <1>3, <2>5, NotBusy, TaskMarksKeep DEF shape
  <2>7. Past(r)'
    BY <1>1, <2>5, OnlySame, PastKeeps DEF shape, audit, money
  <2>8. Marks(r)'
    BY <1>1, <1>3, <2>4 DEF PerRequest, Marks, InFlight, shape, audit
  <2>9. Session(r)'
    BY <1>1, <1>3, <2>4 DEF PerRequest, Session, Responses, InFlight, shape, session, audit
  <2>10. TasksOf(r, attempt[r])' = {}
    BY <1>1, <1>3 DEF TasksOf
  <2>11. Held(r)'
    BY <1>1, <1>3, <2>4, <2>10 DEF PerRequest, Held, InFlight, shape, money
  <2>12. Closed(r)'
    BY <1>1, <2>4 DEF Closed, InFlight, audit
  <2> QED
    BY <2>3, <2>5, <2>6, <2>7, <2>8, <2>9, <2>11, <2>12, StepKeeps
<1> QED
  BY <1>1, <1>2, <1>3 DEF UpstreamReplies

LEMMA DoResponseKeeps ==
  ASSUME IInv, NEW r \in Requests, DoResponse(r)
  PROVE  IInv'
<1> USE DEF IInv
<1>1. /\ TypeOK /\ PerRequest(r) /\ attempt[r] \in Attempts /\ pc[r] = "respond"
      /\ kind[r] # "realtime" /\ ~billed[r] /\ TasksOf(r, attempt[r]) = {} /\ sent[r]
      /\ pre[r] \in {0, estimate[r]} /\ used[r] = estimate[r]
      /\ kind[r] = "image" /\ pre[r] > 0 => perCall[r]
      /\ UNCHANGED <<shape, attempt, pre, resent, cpre, forwarded, session, sent,
                     billed, spent, money>>
  BY DEF DoResponse, TypeOK, PerRequest, Marks, Held, InFlight
<1>2. estimate[r] \in Nat /\ pre[r] \in Nat
  BY <1>1, ConstantTypes DEF TypeOK
<1>3. ASSUME Goto(r, "settle"), UNCHANGED <<tasks, reconciled, log>>,
             NEW n \in Nat, used' = [used EXCEPT ![r] = n],
             kind[r] = "image" => n >= pre[r],
             NEW o \in {"ok", "broken"}, outcome' = [outcome EXCEPT ![r] = o],
             o = "broken" => kind[r] = "image"
      PROVE  IInv'
  <2>1. /\ pc' = [pc EXCEPT ![r] = "settle"] /\ pc \in [Requests -> PCs]
        /\ used \in [Requests -> Nat]
        /\ outcome \in [Requests -> {"none", "ok", "broken", "failed"}]
    BY <1>1, <1>3 DEF Goto, TypeOK
  <2>2. /\ pc' \in [Requests -> PCs] /\ used' \in [Requests -> Nat]
        /\ outcome' \in [Requests -> {"none", "ok", "broken", "failed"}]
    BY <1>3, <2>1 DEF PCs
  <2>3. TypeOK'
    BY <1>1, <1>3, <2>2 DEF TypeOK, shape, session, money
  <2>4. /\ pc'[r] = "settle" /\ outcome'[r] \in {"ok", "broken"}
        /\ outcome'[r] = "broken" => kind[r] = "image"
        /\ kind[r] = "image" => used'[r] >= pre[r]
    BY <1>3, <2>1
  <2>5. Only(r)
    BY <1>1, <1>3, <2>1 DEF Only, shape, session, money
  <2>6. TaskMarks'
    BY <1>1, <1>3, <2>5, NotBusy, TaskMarksKeep DEF shape
  <2>7. Past(r)'
    BY <1>1, <2>5, OnlySame, PastKeeps DEF shape, money
  <2>8. Marks(r)'
    BY <1>1, <1>3, <2>4 DEF PerRequest, Marks, InFlight, shape
  <2>9. Session(r)'
    BY <1>1, <1>3, <2>4 DEF PerRequest, Session, Responses, InFlight, shape, session
  <2>10. TasksOf(r, attempt[r])' = {}
    BY <1>1, <1>3 DEF TasksOf
  <2>11. Held(r)'
    BY <1>1, <1>3, <2>4, <2>10 DEF PerRequest, Held, InFlight, shape, money
  <2>12. Closed(r)'
    BY <1>1, <2>4 DEF Closed, InFlight
  <2> QED
    BY <2>3, <2>5, <2>6, <2>7, <2>8, <2>9, <2>11, <2>12, StepKeeps
<1>4. ASSUME NEW n \in Nat, NEW o \in {"ok", "broken"}, Bill(r, n, o),
             o = "broken" => kind[r] = "image"
      PROVE  IInv'
  <2>1. PICK price \in FinalPrices(r, n) : used' = [used EXCEPT ![r] = price]
    BY <1>4 DEF Bill
  <2>2. /\ outcome' = [outcome EXCEPT ![r] = o] /\ Goto(r, "settle")
        /\ UNCHANGED <<tasks, reconciled, log>>
    BY <1>4 DEF Bill
  <2>3. price \in Nat /\ (kind[r] = "image" => price >= pre[r])
    BY <1>1, <1>2, <2>1 DEF FinalPrices, ImagePrices
  <2> QED
    BY <1>3, <1>4, <2>1, <2>2, <2>3
<1>5. /\ \A n \in Usages : Bill(r, n, "ok") => IInv'
      /\ kind[r] = "image" => \A n \in Usages \cup {0} : Bill(r, n, "broken") => IInv'
  BY <1>4, ConstantTypes
<1>6. ASSUME Fails(r, TRUE), UNCHANGED <<used, outcome>>
      PROVE  IInv'
  <2>1. UNCHANGED <<shape, attempt, pre, used, cpre, forwarded, session, audit, money>>
    BY <1>1, <1>6 DEF audit
  <2>2. resent' \in [Requests -> BOOLEAN]
    BY <1>1 DEF TypeOK
  <2> QED
    BY <1>1, <1>6, <2>1, <2>2, FailsKeeps
<1> QED
  BY <1>4, <1>5, <1>6 DEF DoResponse

-----------------------------------------------------------------------------
(* Realtime sessions *)

\* A step that touches only what a session counts.
LEMMA SessionKeeps ==
  ASSUME IInv, NEW r \in Requests, TypeOK', pumps[r] # {},
         UNCHANGED <<shape, pc, attempt, pre, used, resent, marks, log, tasks, audit, money>>,
         \A s \in Requests \ {r} : /\ pumps'[s] = pumps[s] /\ counted'[s] = counted[s]
                                   /\ meter'[s] = meter[s] /\ anonymous'[s] = anonymous[s],
         IsFiniteSet(counted'[r]), meter'[r] = Responses(r)'
  PROVE  IInv'
<1> USE DEF IInv
<1>1. /\ PerRequest(r) /\ pc[r] = "session" /\ pc'[r] = "session" /\ ~billed[r]
      /\ TasksOf(r, attempt[r]) = {} /\ attempt[r] \in Attempts
  BY DEF PerRequest, Session, Marks, Held, InFlight, TypeOK
<1>2. Only(r)
  BY DEF Only, shape, marks, audit, money
<1>3. TaskMarks'
  BY <1>1, <1>2, NotBusy, TaskMarksKeep DEF shape, marks
<1>4. Past(r)'
  BY <1>2, OnlySame, PastKeeps DEF shape, marks, audit, money
<1>5. Marks(r)'
  BY <1>1 DEF PerRequest, Marks, InFlight, shape, marks, audit
<1>6. Session(r)'
  BY <1>1 DEF PerRequest, Session, InFlight, shape, marks, audit
<1>7. TasksOf(r, attempt[r])' = {}
  BY <1>1 DEF TasksOf
<1>8. Held(r)'
  BY <1>1, <1>7 DEF PerRequest, Held, InFlight, shape, marks, money
<1>9. Closed(r)'
  BY <1>1 DEF Closed, InFlight, audit
<1> QED
  BY <1>2, <1>3, <1>4, <1>5, <1>6, <1>8, <1>9, StepKeeps

LEMMA UsageEventKeeps ==
  ASSUME IInv, NEW r \in Requests, UsageEvent(r)
  PROVE  IInv'
<1> USE DEF IInv
<1>1. PICK id \in Ids \cup {NoId} :
        /\ id = NoId => anonymous[r] < MaxEvents
        /\ meter' = [meter EXCEPT ![r] = IF Counts(r, id) THEN @ + 1 ELSE @]
        /\ counted' = [counted EXCEPT ![r] = @ \cup ({id} \ {NoId})]
        /\ anonymous' = [anonymous EXCEPT ![r] = IF id = NoId THEN @ + 1 ELSE @]
  BY DEF UsageEvent
<1>2. /\ counted \in [Requests -> SUBSET Ids] /\ meter \in [Requests -> Nat]
      /\ anonymous \in [Requests -> 0..MaxEvents]
      /\ IsFiniteSet(counted[r]) /\ meter[r] = Cardinality(counted[r]) + anonymous[r]
      /\ "down" \in pumps[r] /\ NoId \notin Ids /\ MaxEvents \in Nat
      /\ UNCHANGED <<shape, pc, attempt, pre, used, resent, marks, log, pumps, tasks,
                     audit, money>>
  BY MediaAssumption DEF TypeOK, PerRequest, Session, Responses, UsageEvent
<1>3. /\ counted' \in [Requests -> SUBSET Ids]
      /\ meter' \in [Requests -> Nat] /\ anonymous' \in [Requests -> 0..MaxEvents]
  <2>1. counted[r] \cup ({id} \ {NoId}) \in SUBSET Ids
    BY <1>2
  <2>2. counted' \in [Requests -> SUBSET Ids]
    BY <1>1, <1>2, <2>1
  <2>3. meter' \in [Requests -> Nat]
    BY <1>1, <1>2
  <2>4. anonymous' \in [Requests -> 0..MaxEvents]
    BY <1>1, <1>2
  <2> QED
    BY <2>2, <2>3, <2>4
<1>4. TypeOK'
  BY <1>2, <1>3 DEF TypeOK, shape, marks, audit, money
<1>5. IsFiniteSet(counted'[r]) /\ meter'[r] = Responses(r)'
  <2>1. CASE id = NoId
    <3>1. counted'[r] = counted[r] /\ meter'[r] = meter[r] + 1 /\ anonymous'[r] = anonymous[r] + 1
      BY <1>1, <1>2, <2>1 DEF Counts
    <3>2. Cardinality(counted[r]) \in Nat
      BY <1>2, FS_CardinalityType
    <3>3. anonymous[r] \in Nat
      BY <1>2
    <3> QED
      BY <1>2, <3>1, <3>2, <3>3 DEF Responses
  <2>2. CASE id # NoId
    <3>1. /\ counted'[r] = counted[r] \cup {id} /\ anonymous'[r] = anonymous[r]
          /\ meter'[r] = IF id \in counted[r] THEN meter[r] ELSE meter[r] + 1
      BY <1>1, <1>2, <2>2 DEF Counts
    <3>2. Cardinality(counted[r]) \in Nat /\ anonymous[r] \in Nat
      BY <1>2, FS_CardinalityType
    <3>3. /\ IsFiniteSet(counted[r] \cup {id})
          /\ Cardinality(counted[r] \cup {id}) =
               IF id \in counted[r] THEN Cardinality(counted[r]) ELSE Cardinality(counted[r]) + 1
      BY <1>2, FS_AddElement
    <3> QED
      BY <1>2, <3>1, <3>2, <3>3 DEF Responses
  <2> QED
    BY <2>1, <2>2
<1>6. \A s \in Requests \ {r} : /\ pumps'[s] = pumps[s] /\ counted'[s] = counted[s]
                                /\ meter'[s] = meter[s] /\ anonymous'[s] = anonymous[s]
  BY <1>1, <1>2
<1> QED
  BY <1>2, <1>4, <1>5, <1>6, SessionKeeps

LEMMA PumpKeeps ==
  ASSUME IInv, NEW r \in Requests, PumpEnds(r) \/ PumpClosed(r)
  PROVE  IInv'
<1> USE DEF IInv
<1>1. /\ UNCHANGED <<shape, pc, attempt, pre, used, resent, marks, log, counted,
                     meter, anonymous, tasks, audit, money>>
      /\ pumps \in [Requests -> SUBSET {"up", "down"}]
      /\ IsFiniteSet(counted[r]) /\ meter[r] = Responses(r)
  BY DEF PumpEnds, PumpClosed, TypeOK, PerRequest, Session
<1>2. pumps[r] # {}
  BY FS_EmptySet DEF PumpEnds, PumpClosed
<1>3. PICK P \in SUBSET {"up", "down"} : pumps' = [pumps EXCEPT ![r] = P]
  <2>1. CASE PumpEnds(r)
    BY <1>1, <2>1 DEF PumpEnds
  <2>2. CASE PumpClosed(r)
    BY <2>2 DEF PumpClosed
  <2> QED
    BY <2>1, <2>2
<1>4. pumps' \in [Requests -> SUBSET {"up", "down"}]
  BY <1>1, <1>3
<1>5. TypeOK'
  BY <1>1, <1>4 DEF TypeOK, shape, marks, audit, money
<1>6. \A s \in Requests \ {r} : pumps'[s] = pumps[s]
  BY <1>1, <1>3
<1>7. IsFiniteSet(counted'[r]) /\ meter'[r] = Responses(r)'
  BY <1>1 DEF Responses
<1> QED
  BY <1>1, <1>2, <1>5, <1>6, <1>7, SessionKeeps

LEMMA ConnectKeeps ==
  ASSUME IInv, NEW r \in Requests, Connect(r)
  PROVE  IInv'
<1> USE DEF IInv
<1>1. /\ TypeOK /\ PerRequest(r) /\ attempt[r] \in Attempts /\ pc[r] = "send"
      /\ kind[r] = "realtime" /\ ~billed[r] /\ ~sent[r] /\ TasksOf(r, attempt[r]) = {}
      /\ paid[r][attempt[r]] = pre[r] /\ pre[r] \in Nat
      /\ UNCHANGED <<shape, attempt, pre, used, resent, cpre, counted, meter,
                     anonymous, billed, outcome, spent, money>>
  BY DEF Connect, TypeOK, PerRequest, Marks, Held, InFlight
<1>2. /\ pc \in [Requests -> PCs] /\ forwarded \in [Requests -> BOOLEAN]
      /\ sent \in [Requests -> BOOLEAN] /\ pumps \in [Requests -> SUBSET {"up", "down"}]
      /\ reconciled \in [Requests -> BOOLEAN] /\ log \in [Requests -> Nat]
  BY <1>1 DEF TypeOK
<1>3. CASE RealtimeFails(r) /\ forwarded' = [forwarded EXCEPT ![r] = FALSE]
           /\ Goto(r, "fail") /\ UNCHANGED <<pumps, sent>>
  <2>1. /\ pc'[r] = "fail" /\ pc' \in [Requests -> PCs] /\ ~forwarded'[r]
        /\ forwarded' \in [Requests -> BOOLEAN]
        /\ \A s \in Requests \ {r} : pc'[s] = pc[s] /\ forwarded'[s] = forwarded[s]
    BY <1>2, <1>3 DEF Goto, PCs
  <2>2. /\ reconciled' \in [Requests -> BOOLEAN] /\ log' \in [Requests -> Nat]
        /\ \A s \in Requests \ {r} : reconciled'[s] = reconciled[s] /\ log'[s] = log[s]
    <3>1. \/ UNCHANGED <<reconciled, log>>
          \/ /\ reconciled' = [reconciled EXCEPT ![r] = TRUE]
             /\ log' = [log EXCEPT ![r] = 0]
      BY <1>3 DEF RealtimeFails, RollBack
    <3>2. /\ reconciled' \in [Requests -> BOOLEAN]
          /\ \A s \in Requests \ {r} : reconciled'[s] = reconciled[s]
      BY <1>2, <3>1
    <3>3. log' \in [Requests -> Nat] /\ \A s \in Requests \ {r} : log'[s] = log[s]
      BY <1>2, <3>1
    <3> QED
      BY <3>2, <3>3
  <2>3. \/ pre[r] = 0 /\ tasks' = tasks
        \/ /\ pre[r] > 0
           /\ \E t \in Tasks : /\ t.req = r /\ t.att = attempt[r] /\ t.delta = -pre[r]
                               /\ t.kind = "roll" /\ ~t.sync /\ tasks' = tasks \cup {t}
    <3>1. CASE pre[r] > 0
      <4>1. PICK sync \in BOOLEAN : sync = FALSE
        BY Zenon
      <4>2. Add(r, Task(r, "roll", sync, -pre[r], 0)) /\ TypeOK
        BY <1>1, <1>3, <3>1, <4>1 DEF RealtimeFails, RollBack
      <4>3. \E t \in Tasks : /\ t.req = r /\ t.att = attempt[r] /\ t.delta = -pre[r]
                             /\ t.kind = "roll" /\ t.sync = sync /\ tasks' = tasks \cup {t}
        BY <3>1, <4>2, AddEffect
      <4> QED
        BY <3>1, <4>1, <4>3
    <3>2. CASE ~(pre[r] > 0)
      <4>1. tasks' = tasks
        BY <1>3, <3>2 DEF RealtimeFails
      <4>2. pre[r] = 0
        BY <1>1, <3>2
      <4> QED
        BY <4>1, <4>2
    <3> QED
      BY <3>1, <3>2
  <2>4. tasks' \subseteq Tasks
    BY <1>1, <2>3 DEF TypeOK
  <2>5. TypeOK'
    BY <1>1, <1>3, <2>1, <2>2, <2>4 DEF TypeOK, shape, money
  <2>6. Only(r)
    BY <1>1, <1>3, <2>1, <2>2, <2>3 DEF Only, shape, money
  <2>7. \A u \in tasks' : u \notin tasks => ~u.sync /\ u.kind = "roll"
    BY <2>3
  <2>8. TaskMarks'
    <3>1. reconciled[r] => reconciled'[r]
      BY <1>2, <1>3 DEF RealtimeFails, RollBack
    <3> QED
      BY <1>1, <2>6, <2>7, <3>1, NotBusy, TaskMarksKeep DEF shape
  <2>9. Past(r)'
    BY <1>1, <2>6, OnlySame, PastKeeps DEF shape, money
  <2>10. Marks(r)'
    BY <1>1, <1>3, <2>1 DEF PerRequest, Marks, InFlight, shape
  <2>11. Session(r)'
    BY <1>1, <1>3, <2>1 DEF PerRequest, Session, Responses, InFlight, shape
  <2>12. Held(r)'
    BY <2>1 DEF Held, InFlight
  <2>13. Ends(r, attempt[r], 0)'
    <3>1. CASE pre[r] = 0 /\ tasks' = tasks
      BY <1>1, <3>1 DEF Ends, TasksOf, money
    <3>2. CASE pre[r] > 0
      <4>1. PICK t \in Tasks : /\ t.req = r /\ t.att = attempt[r] /\ t.delta = -pre[r]
                               /\ t.kind = "roll" /\ tasks' = tasks \cup {t}
        BY <2>3, <3>2
      <4>2. TasksOf(r, attempt[r])' = {t}
        BY <1>1, <4>1, Started
      <4>3. Applies(t)' /\ paid'[r][attempt[r]] + t.delta = 0
        BY <1>1, <4>1 DEF Applies, money
      <4>4. attempt'[r] = attempt[r]
        BY <1>1
      <4> QED
        BY <4>2, <4>3, <4>4 DEF Ends
    <3> QED
      BY <2>3, <3>1, <3>2
  <2>14. Kept(r)' = 0 /\ ~AuditRefunds(r)'
    BY <1>1 DEF Kept, AuditRefunds, shape
  <2>15. Closed(r)'
    BY <1>1, <2>1, <2>13, <2>14 DEF Closed, shape
  <2> QED
    BY <2>5, <2>6, <2>8, <2>9, <2>10, <2>11, <2>12, <2>15, StepKeeps
<1>4. CASE /\ forwarded' = [forwarded EXCEPT ![r] = TRUE]
           /\ sent' = [sent EXCEPT ![r] = TRUE]
           /\ pumps' = [pumps EXCEPT ![r] = {"up", "down"}]
           /\ Goto(r, "session")
           /\ UNCHANGED <<tasks, reconciled, log>>
  <2>1. /\ pc'[r] = "session" /\ pc' \in [Requests -> PCs] /\ forwarded'[r] /\ sent'[r]
        /\ forwarded' \in [Requests -> BOOLEAN] /\ sent' \in [Requests -> BOOLEAN]
        /\ \A s \in Requests \ {r} : /\ pc'[s] = pc[s] /\ forwarded'[s] = forwarded[s]
                                     /\ sent'[s] = sent[s] /\ pumps'[s] = pumps[s]
    BY <1>2, <1>4 DEF Goto, PCs
  <2>2. pumps' \in [Requests -> SUBSET {"up", "down"}]
    BY <1>2, <1>4
  <2>3. TypeOK'
    BY <1>1, <1>4, <2>1, <2>2 DEF TypeOK, shape, money
  <2>4. Only(r)
    BY <1>1, <1>4, <2>1 DEF Only, shape, money
  <2>5. TaskMarks'
    BY <1>1, <1>4, <2>1, <2>4, NotBusy, TaskMarksKeep DEF shape
  <2>6. Past(r)'
    BY <1>1, <2>1, <2>4, OnlySame, PastKeeps DEF shape, money
  <2>7. Marks(r)'
    BY <1>1, <1>4, <2>1 DEF PerRequest, Marks, InFlight, shape
  <2>8. Session(r)'
    BY <1>1, <1>4, <2>1 DEF PerRequest, Session, Responses, InFlight, shape
  <2>9. TasksOf(r, attempt[r])' = {}
    BY <1>1, <1>4 DEF TasksOf
  <2>10. Held(r)'
    BY <1>1, <1>4, <2>1, <2>9 DEF PerRequest, Held, InFlight, shape, money
  <2>11. Closed(r)'
    BY <1>1, <2>1 DEF Closed, InFlight
  <2> QED
    BY <2>3, <2>4, <2>5, <2>6, <2>7, <2>8, <2>10, <2>11, StepKeeps
<1> QED
  BY <1>3, <1>4 DEF Connect

LEMMA SessionEndsKeeps ==
  ASSUME IInv, NEW r \in Requests, SessionEnds(r)
  PROVE  IInv'
<1> USE DEF IInv
<1>1. /\ TypeOK /\ PerRequest(r) /\ attempt[r] \in Attempts /\ pc[r] = "session"
      /\ kind[r] = "realtime" /\ ~billed[r] /\ sent[r] /\ TasksOf(r, attempt[r]) = {}
      /\ UNCHANGED <<shape, attempt, pre, resent, marks, log, session, tasks, sent,
                     billed, spent, money>>
  BY DEF SessionEnds, TypeOK, PerRequest, Marks, Held, InFlight
<1>2. /\ pc \in [Requests -> PCs] /\ used \in [Requests -> Nat] /\ meter[r] \in Nat
      /\ outcome \in [Requests -> {"none", "ok", "broken", "failed"}]
  BY <1>1 DEF TypeOK
<1>3. /\ pc' = [pc EXCEPT ![r] = "settle"] /\ used' = [used EXCEPT ![r] = meter[r]]
      /\ outcome' = [outcome EXCEPT ![r] = "ok"] /\ pumps[r] = {}
  BY DEF SessionEnds, Goto, Drained
<1>4. /\ pc' \in [Requests -> PCs] /\ used' \in [Requests -> Nat]
      /\ outcome' \in [Requests -> {"none", "ok", "broken", "failed"}]
      /\ pc'[r] = "settle" /\ used'[r] = meter[r] /\ outcome'[r] = "ok"
  BY <1>2, <1>3 DEF PCs
<1>5. TypeOK'
  BY <1>1, <1>4 DEF TypeOK, shape, marks, session, money
<1>6. Only(r)
  BY <1>1, <1>2, <1>3 DEF Only, shape, marks, session, money
<1>7. TaskMarks'
  BY <1>1, <1>6, NotBusy, TaskMarksKeep DEF shape, marks
<1>8. Past(r)'
  BY <1>1, <1>6, OnlySame, PastKeeps DEF shape, marks, money
<1>9. Marks(r)'
  BY <1>1, <1>4 DEF PerRequest, Marks, InFlight, shape, marks
<1>10. Session(r)'
  BY <1>1, <1>3, <1>4 DEF PerRequest, Session, Responses, InFlight, shape, marks, session
<1>11. TasksOf(r, attempt[r])' = {}
  BY <1>1 DEF TasksOf
<1>12. Held(r)'
  BY <1>1, <1>4, <1>11 DEF PerRequest, Held, InFlight, shape, marks, money
<1>13. Closed(r)'
  BY <1>1, <1>4 DEF Closed, InFlight
<1> QED
  BY <1>5, <1>6, <1>7, <1>8, <1>9, <1>10, <1>12, <1>13, StepKeeps

-----------------------------------------------------------------------------
(* Post-billing, the audit and the retry loop *)

LEMMA PreBillingReconcileKeeps ==
  ASSUME IInv, NEW r \in Requests, PreBillingReconcile(r)
  PROVE  IInv'
<1> USE DEF IInv
<1>1. /\ TypeOK /\ PerRequest(r) /\ attempt[r] \in Attempts /\ pc[r] = "settle"
      /\ kind[r] = "ocr" /\ ~billed[r] /\ sent[r] /\ TasksOf(r, attempt[r]) = {}
      /\ paid[r][attempt[r]] = cpre[r] /\ pre[r] \in Nat /\ pre[r] > 0 /\ estimate[r] > 0
      /\ UNCHANGED <<shape, pc, attempt, used, resent, cpre, forwarded, session,
                     audit, money, reconciled, log>>
  BY DEF PreBillingReconcile, Conservative, TypeOK, PerRequest, Marks, Held, InFlight
<1>2. pre' = [pre EXCEPT ![r] = 0] /\ pre \in [Requests -> Nat]
  BY <1>1 DEF PreBillingReconcile, TypeOK
<1>3. PICK t \in Tasks : /\ t.req = r /\ t.att = attempt[r] /\ t.kind = "cons" /\ t.sync
                         /\ tasks' = tasks \cup {t}
  <2>1. PICK sync \in BOOLEAN : sync = TRUE
    BY Zenon
  <2>2. Add(r, Task(r, "cons", sync, -pre[r], 0)) /\ TypeOK
    BY <1>1, <2>1 DEF PreBillingReconcile, Conservative
  <2>3. \E t \in Tasks : /\ t.req = r /\ t.att = attempt[r] /\ t.kind = "cons"
                         /\ t.sync = sync /\ tasks' = tasks \cup {t}
    BY <1>1, <2>2, AddEffect
  <2> QED
    BY <2>1, <2>3
<1>4. pre' \in [Requests -> Nat] /\ pre'[r] = 0 /\ tasks' \subseteq Tasks
  BY <1>1, <1>2, <1>3 DEF TypeOK
<1>5. TypeOK'
  BY <1>1, <1>4 DEF TypeOK, shape, session, audit, money
<1>6. Only(r)
  BY <1>1, <1>2, <1>3 DEF Only, shape, session, audit, money
<1>7. TasksOf(r, attempt[r])' = {t} /\ \A u \in tasks' : u \notin tasks => u = t
  BY <1>1, <1>3, Started
<1>8. TaskMarks'
  BY <1>1, <1>3, <1>6, <1>7, TaskMarksKeep DEF shape
<1>9. Past(r)'
  BY <1>1, <1>6, OnlySame, PastKeeps DEF shape, audit, money
<1>10. Marks(r)'
  BY <1>1 DEF PerRequest, Marks, InFlight, shape, audit
<1>11. Session(r)'
  BY <1>1 DEF PerRequest, Session, Responses, InFlight, shape, session, audit
<1>12. Held(r)'
  BY <1>1, <1>3, <1>4, <1>7 DEF Held, InFlight, shape, money
<1>13. Closed(r)'
  BY <1>1 DEF Closed, audit
<1> QED
  BY <1>5, <1>6, <1>8, <1>9, <1>10, <1>11, <1>12, <1>13, StepKeeps

LEMMA PostConsumeKeeps ==
  ASSUME IInv, NEW r \in Requests, PostConsume(r)
  PROVE  IInv'
<1> USE DEF IInv
<1>1. /\ TypeOK /\ PerRequest(r) /\ attempt[r] \in Attempts /\ pc[r] = "settle" /\ ~Busy(r)
      /\ ~billed[r] /\ sent[r] /\ kind[r] \in Kinds
      /\ pre[r] \in Nat /\ used[r] \in Nat /\ cpre[r] \in Nat
      /\ kind[r] = "ocr" => pre[r] = 0
      /\ UNCHANGED <<shape, attempt, pre, used, resent, cpre, forwarded, log, session,
                     sent, outcome, spent, money>>
  BY DEF PostConsume, TypeOK, PerRequest, Marks, InFlight
<1>2. /\ TasksOf(r, attempt[r]) = {}
      /\ paid[r][attempt[r]] = IF kind[r] = "ocr" THEN cpre[r] ELSE pre[r]
      /\ kind[r] = "image" => used[r] >= pre[r]
  BY <1>1 DEF PerRequest, Held, InFlight, Busy, TasksOf
<1>3. /\ pc \in [Requests -> PCs] /\ reconciled \in [Requests -> BOOLEAN]
      /\ billed \in [Requests -> BOOLEAN]
  BY <1>1 DEF TypeOK
<1>4. /\ outcome[r] \in {"ok", "broken"} /\ (outcome[r] = "broken" => kind[r] = "image")
      /\ kind[r] # "audio" => forwarded[r]
  BY <1>1 DEF PerRequest, Marks
<1>5. /\ reconciled' = [reconciled EXCEPT ![r] = TRUE] /\ billed' = [billed EXCEPT ![r] = TRUE]
      /\ pc' = [pc EXCEPT ![r] = IF outcome[r] = "broken" THEN "fail"
                                 ELSE IF kind[r] = "audio" THEN "copy" ELSE "done"]
  BY DEF PostConsume, Goto
<1>6. /\ reconciled' \in [Requests -> BOOLEAN] /\ billed' \in [Requests -> BOOLEAN]
      /\ pc' \in [Requests -> PCs] /\ reconciled'[r] /\ billed'[r]
      /\ pc'[r] = IF outcome[r] = "broken" THEN "fail"
                  ELSE IF kind[r] = "audio" THEN "copy" ELSE "done"
  BY <1>3, <1>5 DEF PCs
<1>7. CASE KeepsReservation(r)
  <2>1. tasks' = tasks /\ kind[r] = "realtime" /\ used[r] = 0
    BY <1>7 DEF PostConsume, KeepsReservation
  <2>2. TypeOK'
    BY <1>1, <1>6, <2>1 DEF TypeOK, shape, session, money
  <2>3. Only(r)
    BY <1>1, <1>3, <1>5, <2>1 DEF Only, shape, session, money
  <2>4. TaskMarks'
    BY <1>1, <1>6, <2>1, <2>3, TaskMarksKeep DEF shape
  <2>5. Past(r)'
    BY <1>1, <2>3, OnlySame, PastKeeps DEF shape, money
  <2>6. Marks(r)'
    BY <1>1, <1>4, <1>6, <2>1 DEF PerRequest, Marks, InFlight, shape
  <2>7. Session(r)'
    BY <1>1, <1>6 DEF PerRequest, Session, Responses, InFlight, shape, session
  <2>8. Held(r)'
    BY <1>6 DEF Held, InFlight
  <2>9. Final(r)' = pre[r] /\ TasksOf(r, attempt[r])' = {} /\ paid'[r][attempt[r]] = pre[r]
    BY <1>1, <1>2, <2>1 DEF Final, KeepsReservation, TasksOf, shape, money
  <2>10. Ends(r, attempt[r], Final(r))'
    BY <1>1, <2>9 DEF Ends
  <2>11. attempt[r] = 1 /\ pc'[r] = "done" /\ TasksOf(r, 1)' = {} /\ log'[r] = Due(r)'
    <3>1. /\ attempt[r] = 1 /\ used[r] = meter[r] /\ meter[r] = Responses(r)
          /\ log[r] = pre[r]
      BY <1>1, <2>1 DEF PerRequest, Marks, Session, InFlight
    <3>2. Due(r)' = pre[r]
      BY <1>1, <2>1, <3>1 DEF Due, Responses, shape, session
    <3> QED
      BY <1>1, <1>4, <1>6, <2>1, <2>9, <3>1, <3>2
  <2>12. Closed(r)'
    BY <1>6, <2>10, <2>11 DEF Closed
  <2> QED
    BY <2>2, <2>3, <2>4, <2>5, <2>6, <2>7, <2>8, <2>12, StepKeeps
<1>8. CASE ~KeepsReservation(r)
  <2>1. FinalDelta(r) \in Int /\ paid[r][attempt[r]] + FinalDelta(r) = Final(r)
    BY <1>1, <1>2, <1>8 DEF FinalDelta, Final
  <2>2. PICK t \in Tasks : /\ t.req = r /\ t.att = attempt[r] /\ t.kind = "bill"
                           /\ t.delta = FinalDelta(r) /\ t.total = used[r]
                           /\ t.sync => kind[r] = "image"
                           /\ tasks' = tasks \cup {t}
    <3>1. PICK sync \in BOOLEAN : sync = (kind[r] = "image")
      BY Zenon
    <3> DEFINE b == Task(r, "bill", sync, FinalDelta(r), used[r])
    <3>2. /\ b \in Tasks /\ b.req = r /\ b.att = attempt[r] /\ b.kind = "bill"
          /\ b.delta = FinalDelta(r) /\ b.total = used[r] /\ b.sync = sync
      BY <1>1, <2>1, TaskType
    <3>3. tasks' = tasks \cup {b}
      BY <1>8, <3>1 DEF PostConsume
    <3> HIDE DEF b
    <3> QED
      BY <3>1, <3>2, <3>3
  <2>3. TypeOK'
    <3>1. tasks' \subseteq Tasks
      BY <1>1, <2>2 DEF TypeOK
    <3> QED
      BY <1>1, <1>6, <3>1 DEF TypeOK, shape, session, money
  <2>4. Only(r)
    BY <1>1, <1>2, <1>3, <1>5, <2>2 DEF Only, shape, session, money
  <2>5. TasksOf(r, attempt[r])' = {t} /\ \A u \in tasks' : u \notin tasks => u = t
    BY <1>1, <1>2, <2>2, Started
  <2>6. TaskMarks'
    <3>1. t.sync => pc'[r] \in {"settle", "fail", "done"}
      BY <1>6, <2>2
    <3> QED
      BY <1>1, <1>6, <2>2, <2>4, <2>5, <3>1, TaskMarksKeep DEF shape
  <2>7. Past(r)'
    BY <1>1, <2>4, OnlySame, PastKeeps DEF shape, money
  <2>8. Marks(r)'
    BY <1>1, <1>4, <1>6 DEF PerRequest, Marks, InFlight, shape, Kinds
  <2>9. Session(r)'
    BY <1>1, <1>6 DEF PerRequest, Session, Responses, InFlight, shape, session
  <2>10. Held(r)'
    BY <1>6 DEF Held, InFlight
  <2>11. Ends(r, attempt[r], Final(r))'
    <3>1. Final(r)' = Final(r) /\ paid'[r] = paid[r] /\ attempt'[r] = attempt[r]
      BY <1>1 DEF Final, KeepsReservation, shape, money
    <3>2. Applies(t)'
      BY <2>2 DEF Applies
    <3> QED
      BY <2>1, <2>2, <2>5, <3>1, <3>2 DEF Ends
  <2>12. attempt[r] = 1 => \A u \in TasksOf(r, 1)' : u.kind = "bill" /\ u.total = Due(r)'
    <3>1. Due(r)' = used[r]
      <4>1. kind[r] = "realtime" => used[r] = Responses(r) /\ used[r] # 0
        BY <1>1, <1>8 DEF PerRequest, Session, KeepsReservation
      <4> QED
        BY <1>1, <4>1 DEF Due, Responses, shape, session
    <3>2. attempt[r] = 1 => TasksOf(r, 1)' = {t}
      BY <1>1, <2>5 DEF TasksOf
    <3> QED
      BY <2>2, <3>1, <3>2
  <2>13. attempt[r] = 1 => TasksOf(r, 1)' # {}
    BY <1>1, <2>5 DEF TasksOf
  <2>14. ~AuditRefunds(r)' /\ attempt'[r] = attempt[r]
    BY <1>1, <1>6 DEF AuditRefunds
  <2>15. Closed(r)'
    BY <1>6, <2>11, <2>12, <2>13, <2>14 DEF Closed
  <2> QED
    BY <2>3, <2>4, <2>6, <2>7, <2>8, <2>9, <2>10, <2>15, StepKeeps
<1> QED
  BY <1>7, <1>8

\* While nothing about an attempt changes, it will have cost the same.
LEMMA EndsStay ==
  ASSUME NEW r \in Requests, tasks' = tasks, paid'[r] = paid[r], forwarded'[r] = forwarded[r]
  PROVE  \A a \in Attempts, v \in Int : TasksOf(r, a)' = TasksOf(r, a) /\ (Ends(r, a, v) => Ends(r, a, v)')
<1>1. \A a \in Attempts : TasksOf(r, a)' = TasksOf(r, a)
  BY DEF TasksOf
<1> QED
  BY <1>1, EndsFrame, AppliesFrame

LEMMA CopyAnswerKeeps ==
  ASSUME IInv, NEW r \in Requests, CopyAnswer(r)
  PROVE  IInv'
<1> USE DEF IInv
<1>1. /\ TypeOK /\ PerRequest(r) /\ attempt[r] \in Attempts /\ pc[r] = "copy"
      /\ kind[r] = "audio" /\ billed[r] /\ reconciled[r] /\ outcome[r] = "ok"
      /\ pre[r] \in Nat /\ used[r] \in Nat /\ cpre[r] \in Nat
      /\ UNCHANGED <<shape, attempt, pre, used, resent, marks, log, session, tasks,
                     sent, billed, spent, money>>
  BY DEF CopyAnswer, TypeOK, PerRequest, Marks
<1>2. /\ pc \in [Requests -> PCs]
      /\ outcome \in [Requests -> {"none", "ok", "broken", "failed"}]
  BY <1>1 DEF TypeOK
<1>3. \/ pc' = [pc EXCEPT ![r] = "done"] /\ outcome' = outcome
      \/ pc' = [pc EXCEPT ![r] = "fail"] /\ outcome' = [outcome EXCEPT ![r] = "broken"]
  BY DEF CopyAnswer, Goto
<1>4. /\ pc' \in [Requests -> PCs]
      /\ outcome' \in [Requests -> {"none", "ok", "broken", "failed"}]
      /\ \/ pc'[r] = "done" /\ outcome'[r] = "ok"
         \/ pc'[r] = "fail" /\ outcome'[r] = "broken"
      /\ \A s \in Requests \ {r} : pc'[s] = pc[s] /\ outcome'[s] = outcome[s]
  <2>1. CASE pc' = [pc EXCEPT ![r] = "done"] /\ outcome' = outcome
    BY <1>1, <1>2, <2>1 DEF PCs
  <2>2. CASE pc' = [pc EXCEPT ![r] = "fail"] /\ outcome' = [outcome EXCEPT ![r] = "broken"]
    BY <1>1, <1>2, <2>2 DEF PCs
  <2> QED
    BY <1>3, <2>1, <2>2
<1>5. TypeOK'
  BY <1>1, <1>4 DEF TypeOK, shape, marks, session, money
<1>6. Only(r)
  BY <1>1, <1>4 DEF Only, shape, marks, session, money
<1>7. TaskMarks'
  BY <1>1, <1>4, <1>6, TaskMarksKeep DEF shape, marks
<1>8. Past(r)'
  BY <1>1, <1>6, OnlySame, PastKeeps DEF shape, marks, money
<1>9. Marks(r)'
  BY <1>1, <1>4 DEF PerRequest, Marks, InFlight, shape, marks
<1>10. Session(r)'
  BY <1>1, <1>4 DEF PerRequest, Session, Responses, InFlight, shape, marks, session
<1>11. Held(r)'
  BY <1>4 DEF Held, InFlight
<1>12. Closed(r)'
  <2>1. /\ Final(r)' = Final(r) /\ Final(r) \in Int /\ Due(r)' = Due(r) /\ ~AuditRefunds(r)'
    BY <1>1 DEF Final, KeepsReservation, Due, AuditRefunds, shape, marks
  <2>2. 1 \in Attempts /\ TasksOf(r, 1)' = TasksOf(r, 1)
    BY <1>1, ConstantTypes DEF TasksOf
  <2>3. ~missed[r] => Ends(r, attempt[r], Final(r))'
    BY <1>1, <2>1, EndsStay DEF PerRequest, Closed, marks, money
  <2> QED
    BY <1>1, <1>4, <2>1, <2>2, <2>3 DEF PerRequest, Closed, marks, money
<1> QED
  BY <1>5, <1>6, <1>7, <1>8, <1>9, <1>10, <1>11, <1>12, StepKeeps

LEMMA AuditKeeps ==
  ASSUME IInv, NEW r \in Requests, BillingAuditSafetyNet(r)
  PROVE  IInv'
<1> USE DEF IInv
<1>1. /\ TypeOK /\ PerRequest(r) /\ attempt[r] \in Attempts /\ pc[r] = "fail" /\ ~Busy(r)
      /\ outcome[r] # "ok" /\ (billed[r] => kind[r] \in {"image", "audio"})
      /\ pre[r] \in Nat /\ used[r] \in Nat /\ cpre[r] \in Nat
      /\ UNCHANGED <<shape, attempt, pre, used, resent, marks, log, session, audit, money>>
  BY DEF BillingAuditSafetyNet, TypeOK, PerRequest, Marks
<1>2. pc' = [pc EXCEPT ![r] = "retry"] /\ pc \in [Requests -> PCs]
  BY <1>1 DEF BillingAuditSafetyNet, Goto, TypeOK
<1>3. pc' \in [Requests -> PCs] /\ pc'[r] = "retry"
  BY <1>2 DEF PCs
<1>4. Marks(r)'
  BY <1>1, <1>3 DEF PerRequest, Marks, InFlight, shape, marks, audit
<1>5. Session(r)'
  BY <1>1, <1>3 DEF PerRequest, Session, Responses, InFlight, shape, marks, session, audit
<1>6. Held(r)'
  BY <1>3 DEF Held, InFlight
<1>7. Kept(r)' = Kept(r) /\ Kept(r) \in Int /\ Final(r)' = Final(r) /\ Final(r) \in Int
  BY <1>1 DEF Kept, Final, KeepsReservation, shape, marks
<1>8. CASE AuditRefunds(r)
  <2>1. kind[r] = "claude" /\ ~billed[r] /\ ~forwarded[r] /\ cpre[r] = pre[r]
    <3>1. kind[r] = "claude" /\ ~forwarded[r] /\ pre[r] > 0
      BY <1>1, <1>8 DEF PerRequest, Closed, AuditRefunds
    <3>2. ~billed[r]
      BY <1>1, <3>1
    <3> QED
      BY <1>1, <3>1, <3>2 DEF PerRequest, Closed
  <2>2. TasksOf(r, attempt[r]) = {}
    <3>1. \A t \in TasksOf(r, attempt[r]) : t \in tasks /\ t.req = r /\ t.kind = "cons" /\ ~t.sync
      BY <1>1, <2>1 DEF PerRequest, Closed, TasksOf
    <3> QED
      BY <2>1, <3>1 DEF TaskMarks
  <2>3. ~missed[r] => paid[r][attempt[r]] = pre[r]
    BY <1>1, <2>1, <2>2 DEF PerRequest, Closed, Ends
  <2>4. PICK t \in Tasks : /\ t.req = r /\ t.att = attempt[r] /\ t.kind = "net" /\ ~t.sync
                           /\ t.delta = -cpre[r] /\ tasks' = tasks \cup {t}
    <3>1. PICK sync \in BOOLEAN : sync = FALSE
      BY Zenon
    <3> DEFINE b == Task(r, "net", sync, -cpre[r], 0)
    <3>2. /\ b \in Tasks /\ b.req = r /\ b.att = attempt[r] /\ b.kind = "net"
          /\ b.delta = -cpre[r] /\ b.sync = sync
      <4>1. -cpre[r] \in Int /\ 0 \in Nat
        BY <1>1
      <4> QED
        BY <1>1, <4>1, TaskType
    <3>3. tasks' = tasks \cup {b}
      BY <1>8, <3>1 DEF BillingAuditSafetyNet
    <3> HIDE DEF b
    <3> QED
      BY <3>1, <3>2, <3>3
  <2>5. TypeOK'
    <3>1. tasks' \subseteq Tasks
      BY <1>1, <2>4 DEF TypeOK
    <3> QED
      BY <1>1, <1>3, <3>1 DEF TypeOK, shape, marks, session, audit, money
  <2>6. Only(r)
    BY <1>1, <1>2, <2>2, <2>4 DEF Only, shape, marks, session, audit, money
  <2>7. TasksOf(r, attempt[r])' = {t} /\ \A u \in tasks' : u \notin tasks => u = t
    BY <1>1, <2>2, <2>4, Started
  <2>8. TaskMarks'
    BY <1>1, <2>4, <2>6, <2>7, TaskMarksKeep DEF shape, marks
  <2>9. Past(r)'
    BY <1>1, <2>6, OnlySame, PastKeeps DEF shape, marks, audit, money
  <2>10. ~missed[r] => Ends(r, attempt[r], Kept(r))'
    <3>1. Kept(r)' = 0 /\ attempt'[r] = attempt[r] /\ paid'[r] = paid[r]
      BY <1>1, <1>7, <2>1 DEF Kept, money
    <3>2. Applies(t)' /\ (~missed[r] => paid[r][attempt[r]] + t.delta = 0)
      BY <1>1, <2>1, <2>3, <2>4 DEF Applies
    <3> QED
      BY <2>7, <3>1, <3>2 DEF Ends
  <2>11. Closed(r)'
    BY <1>1, <1>3, <2>1, <2>10 DEF Closed, audit, money, shape
  <2> QED
    BY <1>4, <1>5, <1>6, <2>5, <2>6, <2>8, <2>9, <2>11, StepKeeps
<1>9. CASE ~AuditRefunds(r)
  <2>1. tasks' = tasks
    BY <1>9 DEF BillingAuditSafetyNet
  <2>2. TypeOK'
    BY <1>1, <1>3, <2>1 DEF TypeOK, shape, marks, session, audit, money
  <2>3. Only(r)
    BY <1>1, <1>2, <2>1 DEF Only, shape, marks, session, audit, money
  <2>4. TaskMarks'
    BY <1>1, <2>1, <2>3, TaskMarksKeep DEF shape, marks
  <2>5. Past(r)'
    BY <1>1, <2>3, OnlySame, PastKeeps DEF shape, marks, audit, money
  <2>6. kind[r] = "claude" => pre[r] = Kept(r)
    BY <1>1, <1>9 DEF PerRequest, Marks, AuditRefunds, Kept
  <2>7. ~missed[r] => /\ billed[r] => Ends(r, attempt[r], Final(r))
                      /\ ~billed[r] => Ends(r, attempt[r], Kept(r))
    BY <1>1, <2>6 DEF PerRequest, Closed
  <2>8. ~missed[r] => /\ billed[r] => Ends(r, attempt[r], Final(r))'
                      /\ ~billed[r] => Ends(r, attempt[r], Kept(r))'
    BY <1>1, <1>7, <2>1, <2>7, EndsStay DEF marks, money
  <2>9. Closed(r)'
    BY <1>1, <1>3, <2>8 DEF Closed, audit, money, shape
  <2> QED
    BY <1>4, <1>5, <1>6, <2>2, <2>3, <2>4, <2>5, <2>9, StepKeeps
<1> QED
  BY <1>8, <1>9

\* Relay goes on to the next attempt: the one it leaves becomes past.
LEMMA RetryKeeps ==
  ASSUME IInv, NEW r \in Requests, Retry(r)
  PROVE  IInv'
<1> USE DEF IInv
<1>1. /\ TypeOK /\ PerRequest(r) /\ attempt[r] \in Attempts /\ attempt[r] \in Nat
      /\ attempt[r] >= 1 /\ pc[r] = "retry" /\ (billed[r] => kind[r] \in {"image", "audio"})
      /\ pre[r] \in Nat /\ used[r] \in Nat /\ cpre[r] \in Nat
      /\ UNCHANGED <<shape, pre, used, marks, log, session, tasks, money>>
  BY ConstantTypes DEF Retry, TypeOK, PerRequest, Marks
<1>2. /\ pc \in [Requests -> PCs] /\ attempt \in [Requests -> Attempts]
      /\ spent \in [Requests -> [Attempts -> Nat]] /\ sent \in [Requests -> BOOLEAN]
      /\ billed \in [Requests -> BOOLEAN] /\ resent \in [Requests -> BOOLEAN]
      /\ outcome \in [Requests -> {"none", "ok", "broken", "failed"}]
  BY <1>1 DEF TypeOK
<1>3. /\ Kept(r) \in 0..pre[r] /\ Kept(r) \in Int /\ Final(r) \in Int
      /\ billed[r] => Final(r) = used[r]
      /\ Kept(r)' = Kept(r) /\ Final(r)' = Final(r)
  BY <1>1 DEF Kept, Final, KeepsReservation, shape, marks
<1>4. /\ ~missed[r] => /\ billed[r] => Ends(r, attempt[r], Final(r))
                       /\ ~billed[r] => Ends(r, attempt[r], Kept(r))
      /\ \A a \in Attempts, v \in Int : Ends(r, a, v) => Ends(r, a, v)'
  BY <1>1, EndsStay DEF PerRequest, Closed, marks, money
<1>5. CASE /\ attempt[r] < MaxAttempts /\ kind[r] # "realtime"
           /\ attempt' = [attempt EXCEPT ![r] = @ + 1]
           /\ spent' = [spent EXCEPT ![r][attempt[r]] = IF billed[r] THEN used[r] ELSE pre[r]]
           /\ sent' = [sent EXCEPT ![r] = FALSE]
           /\ billed' = [billed EXCEPT ![r] = FALSE]
           /\ resent' = [resent EXCEPT ![r] = FALSE]
           /\ outcome' = [outcome EXCEPT ![r] = "none"]
           /\ Goto(r, "reserve")
  <2> DEFINE cost == IF billed[r] THEN used[r] ELSE pre[r]
  <2>1. cost \in Nat /\ attempt[r] + 1 \in Attempts
    BY <1>1, <1>5, MediaAssumption DEF Attempts
  <2>2. /\ attempt' \in [Requests -> Attempts] /\ attempt'[r] = attempt[r] + 1
        /\ \A s \in Requests \ {r} : attempt'[s] = attempt[s]
    BY <1>2, <1>5, <2>1
  <2>3. /\ spent' \in [Requests -> [Attempts -> Nat]]
        /\ spent'[r] = [spent[r] EXCEPT ![attempt[r]] = cost]
        /\ \A s \in Requests \ {r} : spent'[s] = spent[s]
    BY <1>1, <1>2, <1>5, <2>1
  <2>4. /\ sent' \in [Requests -> BOOLEAN] /\ sent'[r] = FALSE
        /\ billed' \in [Requests -> BOOLEAN] /\ billed'[r] = FALSE
        /\ \A s \in Requests \ {r} : sent'[s] = sent[s] /\ billed'[s] = billed[s]
    BY <1>2, <1>5
  <2>5. /\ resent' \in [Requests -> BOOLEAN] /\ outcome'[r] = "none"
        /\ outcome' \in [Requests -> {"none", "ok", "broken", "failed"}]
        /\ \A s \in Requests \ {r} : outcome'[s] = outcome[s]
    BY <1>2, <1>5
  <2>6. /\ pc' \in [Requests -> PCs] /\ pc'[r] = "reserve"
        /\ \A s \in Requests \ {r} : pc'[s] = pc[s]
    BY <1>2, <1>5 DEF Goto, PCs
  <2> HIDE DEF cost
  <2>7. TypeOK'
    BY <1>1, <2>2, <2>3, <2>4, <2>5, <2>6 DEF TypeOK, shape, marks, session, money
  <2>8. Only(r)
    BY <1>1, <2>2, <2>3, <2>4, <2>5, <2>6 DEF Only, shape, marks, session, money
  <2>9. TaskMarks'
    <3> SUFFICES ASSUME NEW t \in tasks
                 PROVE  /\ t.att <= attempt'[t.req]
                        /\ t.sync => /\ t.att = attempt'[t.req]
                                     /\ pc'[t.req] \in {"settle", "fail", "done"}
                                     /\ t.kind = "cons" \/ reconciled'[t.req]
                        /\ t.kind = "cons" =>
                             /\ kind'[t.req] = "ocr" \/ (kind'[t.req] = "claude" /\ ~t.sync)
                             /\ ~t.sync => forwarded'[t.req]
      BY <1>1 DEF TaskMarks
    <3>1. t.req \in Requests /\ t.att \in Nat /\ kind' = kind /\ forwarded' = forwarded /\ reconciled' = reconciled
      BY <1>1, ConstantTypes DEF TypeOK, Tasks, shape, marks
    <3>2. CASE t.req = r
      BY <1>1, <2>2, <3>1, <3>2 DEF TaskMarks
    <3>3. CASE t.req # r
      BY <2>2, <2>6, <3>1, <3>3 DEF TaskMarks
    <3> QED
      BY <3>2, <3>3
  <2>10. Marks(r)'
    BY <1>1, <1>5, <2>2, <2>4, <2>5, <2>6 DEF PerRequest, Marks, InFlight, shape, marks
  <2>11. Session(r)'
    BY <1>1, <1>5, <2>6 DEF PerRequest, Session, Responses, shape, session
  <2>12. Held(r)'
    <3>1. TasksOf(r, attempt[r] + 1) = {}
      <4> SUFFICES ASSUME NEW t \in tasks, t.req = r, t.att = attempt[r] + 1 PROVE FALSE
        BY DEF TasksOf
      <4> QED
        BY <1>1 DEF TaskMarks
    <3>2. TasksOf(r, attempt[r])' = {} /\ paid'[r][attempt'[r]] = 0
      BY <1>1, <2>1, <2>2, <3>1 DEF PerRequest, Past, TasksOf, money
    <3> QED
      BY <2>6, <3>2 DEF Held, InFlight
  <2>13. Closed(r)'
    BY <2>4, <2>6 DEF Closed
  <2>14. Past(r)'
    <3>1. \A a \in Attempts : a > attempt'[r] => paid'[r][a] = 0
      <4> SUFFICES ASSUME NEW a \in Attempts, a > attempt[r] + 1 PROVE paid[r][a] = 0
        BY <1>1, <2>2 DEF money
      <4>1. a \in Nat
        BY ConstantTypes
      <4>2. a > attempt[r]
        BY <1>1, <4>1
      <4> QED
        BY <1>1, <4>2 DEF PerRequest, Past
    <3>2. ASSUME NEW a \in Attempts, a < attempt'[r], kind[r] # "ocr", ~missed[r]
          PROVE  \E v \in 0..spent'[r][a] : Ends(r, a, v)'
      <4>1. CASE a = attempt[r]
        <5>1. spent'[r][a] = cost
          BY <1>2, <2>3, <4>1
        <5>2. CASE billed[r]
          BY <1>1, <1>3, <1>4, <3>2, <4>1, <5>1, <5>2 DEF cost
        <5>3. CASE ~billed[r]
          BY <1>1, <1>3, <1>4, <3>2, <4>1, <5>1, <5>3 DEF cost
        <5> QED
          BY <5>2, <5>3
      <4>2. CASE a # attempt[r]
        <5>1. a < attempt[r] /\ spent'[r][a] = spent[r][a] /\ spent[r][a] \in Nat
          <6>1. a \in Nat /\ a < attempt[r] + 1
            BY <2>2, <3>2, ConstantTypes
          <6>2. spent[r] \in [Attempts -> Nat]
            BY <1>2
          <6> QED
            BY <1>1, <2>3, <4>2, <6>1, <6>2
        <5>2. PICK v \in 0..spent[r][a] : Ends(r, a, v)
          BY <1>1, <3>2, <5>1 DEF PerRequest, Past
        <5>3. v \in Int
          BY <5>1
        <5> QED
          BY <1>4, <5>1, <5>2, <5>3
      <4> QED
        BY <4>1, <4>2
    <3> QED
      BY <1>1, <3>1, <3>2 DEF Past, shape, money
  <2> QED
    BY <2>7, <2>8, <2>9, <2>10, <2>11, <2>12, <2>13, <2>14, StepKeeps
<1>6. CASE /\ outcome' = [outcome EXCEPT ![r] = "failed"]
           /\ Goto(r, "done")
           /\ UNCHANGED <<attempt, spent, sent, billed, resent>>
  <2>1. /\ pc' \in [Requests -> PCs] /\ pc'[r] = "done" /\ outcome'[r] = "failed"
        /\ outcome' \in [Requests -> {"none", "ok", "broken", "failed"}]
        /\ \A s \in Requests \ {r} : pc'[s] = pc[s] /\ outcome'[s] = outcome[s]
    BY <1>2, <1>6 DEF Goto, PCs
  <2>2. TypeOK'
    BY <1>1, <1>6, <2>1 DEF TypeOK, shape, marks, session, money
  <2>3. Only(r)
    BY <1>1, <1>6, <2>1 DEF Only, shape, marks, session, money
  <2>4. TaskMarks'
    BY <1>1, <1>6, <2>1, <2>3, TaskMarksKeep DEF shape, marks
  <2>5. Past(r)'
    BY <1>1, <1>6, <2>3, OnlySame, PastKeeps DEF shape, marks, money
  <2>6. Marks(r)'
    BY <1>1, <1>6, <2>1 DEF PerRequest, Marks, InFlight, shape, marks
  <2>7. Session(r)'
    BY <1>1, <1>6, <2>1 DEF PerRequest, Session, Responses, InFlight, shape, marks, session
  <2>8. Held(r)'
    BY <2>1 DEF Held, InFlight
  <2>9. ~missed[r] => /\ billed[r] => Ends(r, attempt[r], Final(r))'
                      /\ ~billed[r] => Ends(r, attempt[r], Kept(r))'
    BY <1>1, <1>3, <1>4, <1>6
  <2>10. Closed(r)'
    BY <1>1, <1>6, <2>1, <2>9 DEF Closed, money, shape
  <2> QED
    BY <2>2, <2>3, <2>4, <2>5, <2>6, <2>7, <2>8, <2>10, StepKeeps
<1> QED
  BY <1>5, <1>6 DEF Retry

-----------------------------------------------------------------------------
(* A call is carried out *)

\* What it leaves behind: no call of its attempt, and the amount it announced
\* unless the balance did not allow it.
LEMMA WorkEnds ==
  ASSUME IInv, NEW t \in tasks, Work(t)
  PROVE  /\ t \in Tasks /\ t.req \in Requests /\ t.att \in Attempts
         /\ TasksOf(t.req, t.att)' = {}
         /\ \A s \in Requests, a \in Attempts : s # t.req \/ a # t.att =>
              TasksOf(s, a)' = TasksOf(s, a) /\ paid'[s][a] = paid[s][a]
         /\ \A a \in Attempts, v \in Int :
              ~missed'[t.req] /\ Ends(t.req, a, v) => Ends(t.req, a, v)'
<1>1. /\ t \in Tasks /\ t.req \in Requests /\ t.att \in Attempts /\ t.delta \in Int
      /\ paid \in [Requests -> [Attempts -> Int]] /\ missed \in [Requests -> BOOLEAN]
  BY DEF IInv, TypeOK, Tasks
<1>2. tasks' = tasks \ {t} /\ forwarded' = forwarded
  BY DEF Work
<1>3. TasksOf(t.req, t.att) = {t} /\ TasksOf(t.req, t.att)' = {}
  BY <1>2 DEF TasksOf, IInv, OneTask
<1>4. \A s \in Requests, a \in Attempts : s # t.req \/ a # t.att =>
         TasksOf(s, a)' = TasksOf(s, a)
  BY <1>2 DEF TasksOf
<1>5. paid' = paid \/ paid' = [paid EXCEPT ![t.req][t.att] = @ + t.delta]
  BY DEF Work
<1>6. \A s \in Requests, a \in Attempts : s # t.req \/ a # t.att => paid'[s][a] = paid[s][a]
  BY <1>1, <1>5
<1>7. ASSUME NEW a \in Attempts, NEW v \in Int, ~missed'[t.req], Ends(t.req, a, v)
      PROVE  Ends(t.req, a, v)'
  <2>1. CASE a # t.att
    <3>1. forwarded'[t.req] = forwarded[t.req]
      BY <1>2
    <3>2. \A u \in TasksOf(t.req, a) : Applies(u)' <=> Applies(u)
      BY <1>1, <3>1, AppliesFrame
    <3> QED
      BY <1>1, <1>4, <1>6, <1>7, <2>1, <3>2, EndsFrame
  <2>2. CASE a = t.att
    <3>1. paid[t.req][t.att] + (IF Applies(t) THEN t.delta ELSE 0) = v
      BY <1>3, <1>7, <2>2 DEF Ends
    <3>2. Applies(t) => quota >= t.delta
      <4>1. Applies(t) /\ quota < t.delta => missed'[t.req]
        BY <1>1 DEF Work
      <4>2. quota \in Nat
        BY DEF IInv, TypeOK
      <4> QED
        BY <1>1, <1>7, <4>1, <4>2
    <3>3. paid[t.req][t.att] \in Int
      BY <1>1
    <3>4. paid'[t.req][t.att] = v
      <4>1. CASE Applies(t)
        <5>1. paid' = [paid EXCEPT ![t.req][t.att] = @ + t.delta]
          BY <3>2, <4>1 DEF Work
        <5>2. paid'[t.req][t.att] = paid[t.req][t.att] + t.delta
          BY <1>1, <5>1
        <5> QED
          BY <3>1, <4>1, <5>2
      <4>2. CASE ~Applies(t)
        BY <3>1, <3>3, <4>2 DEF Work
      <4> QED
        BY <4>1, <4>2
    <3> QED
      BY <1>3, <2>2, <3>4 DEF Ends
  <2> QED
    BY <2>1, <2>2
<1> QED
  BY <1>1, <1>3, <1>4, <1>6, <1>7

LEMMA WorkKeeps ==
  ASSUME IInv, NEW t \in tasks, Work(t)
  PROVE  IInv'
<1> DEFINE r == t.req
<1>1. /\ t \in Tasks /\ r \in Requests /\ t.att \in Attempts /\ t.att \in Nat /\ t.att >= 1
      /\ t.delta \in Int /\ t.total \in Nat /\ TypeOK
      /\ tasks' = tasks \ {t} /\ TasksOf(r, t.att)' = {}
      /\ PerRequest(r) /\ attempt[r] \in Attempts /\ attempt[r] \in Nat /\ t.att <= attempt[r]
      /\ UNCHANGED <<shape, pc, attempt, pre, used, resent, cpre, forwarded, session, audit>>
  <2>1. t \in Tasks /\ r \in Requests /\ t.att \in Attempts /\ TasksOf(r, t.att)' = {}
    BY WorkEnds
  <2>2. t.delta \in Int /\ t.total \in Nat
    BY <2>1 DEF Tasks
  <2>3. PerRequest(r) /\ attempt[r] \in Attempts /\ t.att <= attempt[r] /\ TypeOK
    BY <2>1 DEF IInv, TypeOK, TaskMarks
  <2> QED
    BY <2>1, <2>2, <2>3, ConstantTypes DEF Work
<1>2. /\ \A s \in Requests, a \in Attempts : s # r \/ a # t.att =>
           TasksOf(s, a)' = TasksOf(s, a) /\ paid'[s][a] = paid[s][a]
      /\ \A a \in Attempts, v \in Int : ~missed'[r] /\ Ends(r, a, v) => Ends(r, a, v)'
  BY WorkEnds
<1>3. /\ quota \in Nat /\ paid \in [Requests -> [Attempts -> Int]]
      /\ missed \in [Requests -> BOOLEAN] /\ reconciled \in [Requests -> BOOLEAN]
      /\ log \in [Requests -> Nat]
  BY <1>1 DEF TypeOK
<1>4. /\ reconciled' \in [Requests -> BOOLEAN] /\ (reconciled[r] => reconciled'[r])
      /\ t.kind = "cons" => reconciled'[r]
      /\ t.kind # "cons" => reconciled'[r] = reconciled[r]
      /\ \A s \in Requests \ {r} : reconciled'[s] = reconciled[s]
  BY <1>1, <1>3 DEF Work
<1>5. /\ log' \in [Requests -> Nat] /\ \A s \in Requests \ {r} : log'[s] = log[s]
      /\ t.kind = "bill" => log'[r] = t.total
  <2>1. log' = [log EXCEPT ![r] = t.total] \/ (log' = log /\ t.kind # "bill")
    BY DEF Work
  <2> QED
    BY <1>1, <1>3, <2>1
<1>6. /\ missed' \in [Requests -> BOOLEAN] /\ (missed[r] => missed'[r])
      /\ \A s \in Requests \ {r} : missed'[s] = missed[s]
  BY <1>1, <1>3 DEF Work
<1>7. /\ quota' \in Nat /\ paid' \in [Requests -> [Attempts -> Int]]
      /\ \A s \in Requests \ {r} : paid'[s] = paid[s]
  <2>1. CASE quota' = quota /\ paid' = paid
    BY <1>3, <2>1
  <2>2. CASE /\ quota >= t.delta /\ quota' = quota - t.delta
             /\ paid' = [paid EXCEPT ![r][t.att] = @ + t.delta]
    <3>1. quota' \in Nat
      BY <1>1, <1>3, <2>2
    <3>2. paid' \in [Requests -> [Attempts -> Int]]
      BY <1>1, <1>3, <2>2
    <3> QED
      BY <1>1, <1>3, <2>2, <3>1, <3>2
  <2> QED
    BY <2>1, <2>2 DEF Work
<1> HIDE DEF r
<1>8. TypeOK'
  BY <1>1, <1>4, <1>5, <1>6, <1>7 DEF TypeOK, shape, session, audit
<1>9. OneTask'
  BY <1>1 DEF IInv, OneTask
<1>10. TaskMarks'
  <2> SUFFICES ASSUME NEW u \in tasks, u # t
               PROVE  /\ u.att <= attempt[u.req]
                      /\ u.sync => /\ u.att = attempt[u.req]
                                   /\ pc[u.req] \in {"settle", "fail", "done"}
                                   /\ u.kind = "cons" \/ reconciled'[u.req]
                      /\ u.kind = "cons" => /\ kind[u.req] = "ocr" \/ (kind[u.req] = "claude" /\ ~u.sync)
                                            /\ ~u.sync => forwarded[u.req]
    BY <1>1 DEF TaskMarks, shape
  <2>1. u.req \in Requests
    BY <1>1 DEF TypeOK, Tasks
  <2>2. reconciled[u.req] => reconciled'[u.req]
    BY <1>4, <2>1
  <2> QED
    BY <2>2 DEF IInv, TaskMarks
<1>11. ASSUME NEW s \in Requests \ {r} PROVE PerRequest(s)'
  <2>1. Same(s)
    BY <1>1, <1>2, <1>4, <1>5, <1>6, <1>7 DEF Same, shape, session, audit
  <2> QED
    BY <2>1, SameKeeps
<1>12. Marks(r)'
  <2>1. t.kind = "cons" /\ kind[r] = "claude" => forwarded[r]
    BY DEF IInv, TaskMarks, r
  <2> QED
    BY <1>1, <1>4, <2>1 DEF PerRequest, Marks, shape, audit
<1>13. t \in TasksOf(r, t.att)
  BY DEF TasksOf, r
<1>14. Session(r)'
  <2>1. /\ Session(r) /\ counted'[r] = counted[r] /\ meter'[r] = meter[r]
        /\ Responses(r)' = Responses(r)
    BY <1>1 DEF PerRequest, Responses, session
  <2>2. kind[r] = "realtime" => t.att = attempt[r]
    BY <1>1 DEF PerRequest, Marks
  <2>3. ~(kind[r] = "realtime" /\ pc[r] \in {"idle", "reserve", "take"} \cup InFlight)
    BY <1>1, <1>13, <2>2 DEF PerRequest, Held, InFlight
  <2> QED
    BY <1>1, <2>1, <2>3 DEF Session, shape, session, audit
<1>15. Held(r)'
  <2>1. \A a \in Attempts : TasksOf(r, a)' \subseteq TasksOf(r, a)
    BY <1>1 DEF TasksOf
  <2>2. pc[r] \in {"idle", "reserve", "take"} \cup InFlight =>
          paid'[r][attempt[r]] = paid[r][attempt[r]]
    <3>1. CASE t.att # attempt[r]
      BY <1>1, <1>2, <3>1
    <3>2. CASE t.att = attempt[r] /\ pc[r] \in {"idle", "reserve", "take"} \cup InFlight
      <4>1. kind[r] = "ocr" /\ pc[r] = "settle"
        BY <1>1, <1>13, <3>2 DEF PerRequest, Held, InFlight
      <4>2. t.kind = "cons" /\ forwarded[r]
        BY <1>1, <1>13, <3>2, <4>1 DEF PerRequest, Held, Marks
      <4>3. ~Applies(t)
        BY <4>2 DEF Applies, r
      <4> QED
        BY <4>3 DEF Work
    <3> QED
      BY <3>1, <3>2
  <2>3. TasksOf(r, attempt[r])' \subseteq TasksOf(r, attempt[r])
    BY <1>1, <2>1
  <2> QED
    BY <1>1, <2>2, <2>3 DEF PerRequest, Held, InFlight, shape
<1>16. Past(r)'
  <2>1. \A a \in Attempts : a \in Nat /\ spent[r][a] \in Nat
    <3>1. spent[r] \in [Attempts -> Nat]
      BY <1>1 DEF TypeOK
    <3> QED
      BY <3>1, ConstantTypes
  <2>2. \A a \in Attempts : a > attempt[r] => paid'[r][a] = 0
    BY <1>1, <1>2, <2>1 DEF PerRequest, Past
  <2>3. ASSUME kind[r] # "ocr", ~missed'[r], NEW a \in Attempts, a < attempt[r]
        PROVE  \E v \in 0..spent[r][a] : Ends(r, a, v)'
    <3>1. PICK v \in 0..spent[r][a] : Ends(r, a, v)
      BY <1>1, <1>6, <2>3 DEF PerRequest, Past
    <3>2. v \in Int
      BY <2>1
    <3> QED
      BY <1>2, <2>3, <3>1, <3>2
  <2> QED
    BY <1>1, <2>2, <2>3 DEF Past, shape, audit
<1>17. Closed(r)'
  <2>1. pre[r] \in Nat /\ used[r] \in Nat /\ cpre[r] \in Nat
    BY <1>1 DEF TypeOK
  <2>2. /\ Final(r) \in Int /\ Kept(r) \in Int /\ Final(r)' = Final(r) /\ Kept(r)' = Kept(r)
        /\ Due(r)' = Due(r) /\ (AuditRefunds(r)' => AuditRefunds(r) /\ ~reconciled'[r])
    BY <1>1, <1>4, <2>1 DEF Final, Kept, KeepsReservation, Due, Responses, AuditRefunds, shape, session
  <2>3. \A a \in Attempts : TasksOf(r, a)' \subseteq TasksOf(r, a)
    BY <1>1 DEF TasksOf
  <2>4. pc[r] = "fail" /\ kind[r] # "claude" /\ AuditRefunds(r)' => Busy(r)'
    <3> SUFFICES ASSUME pc[r] = "fail", kind[r] # "claude", AuditRefunds(r)' PROVE Busy(r)'
      OBVIOUS
    <3>1. PICK u \in tasks : u.req = r /\ u.sync
      BY <1>1, <2>2 DEF PerRequest, Closed, Busy
    <3>2. u # t
      <4> SUFFICES ASSUME u = t PROVE FALSE
        OBVIOUS
      <4>1. t.kind = "cons" \/ reconciled[r]
        BY <3>1 DEF IInv, TaskMarks
      <4> QED
        BY <1>4, <2>2, <4>1
    <3> QED
      BY <1>1, <3>1, <3>2 DEF Busy
  <2>5. 1 \in Attempts
    BY ConstantTypes
  <2>6. ASSUME attempt[r] = 1, pc[r] = "copy" \/ (pc[r] = "done" /\ outcome[r] = "ok")
        PROVE  /\ TasksOf(r, 1)' = {} => log'[r] = Due(r)
               /\ \A u \in TasksOf(r, 1)' : u.kind = "bill" /\ u.total = Due(r)
    <3>1. t.att = 1
      BY <1>1, <2>6
    <3>2. t.kind = "bill" /\ t.total = Due(r)
      BY <1>1, <1>13, <2>6, <3>1 DEF PerRequest, Closed
    <3> QED
      BY <1>1, <1>5, <3>1, <3>2
  <2>7. ~missed'[r] => /\ billed[r] => Ends(r, attempt[r], Final(r))'
                       /\ ~billed[r] /\ pc[r] = "fail" /\ kind[r] = "claude" =>
                            Ends(r, attempt[r], pre[r])'
                       /\ ~billed[r] /\ pc[r] \in {"fail", "retry", "done"}
                            /\ ~(pc[r] = "fail" /\ kind[r] = "claude") =>
                            Ends(r, attempt[r], Kept(r))'
    <3>1. ~missed'[r] => ~missed[r]
      BY <1>6
    <3>2. pre[r] \in Int /\ Final(r) \in Int /\ Kept(r) \in Int
      BY <2>1, <2>2
    <3>3. \A v \in Int : ~missed'[r] /\ Ends(r, attempt[r], v) => Ends(r, attempt[r], v)'
      BY <1>1, <1>2
    <3> QED
      BY <1>1, <2>2, <3>1, <3>2, <3>3 DEF PerRequest, Closed
  <2>8. TasksOf(r, attempt[r])' \subseteq TasksOf(r, attempt[r])
    BY <1>1, <2>3
  <2> QED
    BY <1>1, <2>2, <2>4, <2>6, <2>7, <2>8 DEF PerRequest, Closed, shape, audit
<1>18. PerRequest(r)'
  BY <1>12, <1>14, <1>15, <1>16, <1>17 DEF PerRequest
<1> QED
  BY <1>8, <1>9, <1>10, <1>11, <1>18 DEF IInv

-----------------------------------------------------------------------------
(* The invariant *)

LEMMA InitIInv == Init => IInv
<1> SUFFICES ASSUME Init PROVE IInv
  OBVIOUS
<1>1. 0 \in Estimates \cup {0} /\ 1 \in Attempts /\ 0 \in 0..MaxEvents /\ Quota0 \in Nat
  BY ConstantTypes, MediaAssumption
<1>2. TypeOK
  <2>1. /\ paid \in [Requests -> [Attempts -> Int]] /\ spent \in [Requests -> [Attempts -> Nat]]
    BY DEF Init
  <2>2. /\ pumps \in [Requests -> SUBSET {"up", "down"}] /\ counted \in [Requests -> SUBSET Ids]
    BY DEF Init
  <2> QED
    BY <1>1, <2>1, <2>2 DEF Init, TypeOK, PCs
<1>3. OneTask /\ TaskMarks
  BY DEF Init, OneTask, TaskMarks
<1>4. ASSUME NEW r \in Requests PROVE PerRequest(r)
  <2>1. TasksOf(r, attempt[r]) = {}
    BY DEF Init, TasksOf
  <2>2. Marks(r)
    BY DEF Init, Marks, InFlight
  <2>3. Session(r)
    BY FS_EmptySet DEF Init, Session, Responses, InFlight
  <2>4. Held(r)
    BY <1>1, <2>1 DEF Init, Held, InFlight
  <2>5. Closed(r)
    BY DEF Init, Closed
  <2>6. Past(r)
    BY ConstantTypes DEF Init, Past
  <2> QED
    BY <2>2, <2>3, <2>4, <2>5, <2>6 DEF PerRequest
<1> QED
  BY <1>2, <1>3, <1>4 DEF IInv

LEMMA NextIInv == IInv /\ [Next]_vars => IInv'
<1> SUFFICES ASSUME IInv, [Next]_vars PROVE IInv'
  OBVIOUS
<1>1. CASE \E r \in Requests : Start(r) \/ UsageEvent(r) \/ PumpEnds(r) \/ Handle(r)
  BY <1>1, StartKeeps, DoRequestKeeps, UpstreamRepliesKeeps, DoResponseKeeps, UsageEventKeeps,
     PumpKeeps, ConnectKeeps, SessionEndsKeeps, PreBillingReconcileKeeps, PostConsumeKeeps,
     CopyAnswerKeeps, AuditKeeps, RetryKeeps DEF Handle
<1>2. CASE \E t \in tasks : Work(t)
  BY <1>2, WorkKeeps
<1>3. CASE UNCHANGED vars
  <2>1. TypeOK'
    BY <1>3 DEF IInv, TypeOK, vars, shape, marks, session, audit, money
  <2>2. OneTask' /\ TaskMarks'
    BY <1>3 DEF IInv, OneTask, TaskMarks, vars, shape, marks
  <2>3. \A s \in Requests : Same(s)
    BY <1>3 DEF Same, TasksOf, vars, shape, marks, session, audit, money
  <2> QED
    BY <2>1, <2>2, <2>3, SameKeeps DEF IInv
<1> QED
  BY <1>1, <1>2, <1>3 DEF Next, AllQuiet

\* IInv holds in every state that the helpers can reach.
THEOREM InvariantTheorem == Spec => []IInv
BY InitIInv, NextIInv, PTL DEF Spec

\* A request at rest has no call under way, and each attempt has cost what it
\* was to cost.
LEMMA QuietEnds ==
  ASSUME IInv, NEW r \in Requests, Quiet(r)
  PROVE  \A a \in Attempts : TasksOf(r, a) = {} /\ \A v \in Int : Ends(r, a, v) => paid[r][a] = v
BY DEF Quiet, TasksOf, Ends

\* A request answered at its first attempt costs exactly its price and the
\* consume log says so (PostConsume and its PostConsumeTokenQuota call).
THEOREM SettledTheorem == Spec => []SettledExactly
<1>1. IInv => SettledExactly
  <2> SUFFICES ASSUME IInv, NEW r \in Requests, Quiet(r), outcome[r] = "ok", attempt[r] = 1,
                      ~missed[r]
               PROVE  /\ paid[r][1] = Due(r) + IF kind[r] = "ocr" THEN cpre[r] ELSE 0
                      /\ log[r] = Due(r)
    BY DEF SettledExactly
  <2>1. /\ PerRequest(r) /\ 1 \in Attempts /\ TasksOf(r, 1) = {} /\ pc[r] = "done"
        /\ pre[r] \in Nat /\ used[r] \in Nat /\ cpre[r] \in Nat
    BY QuietEnds, ConstantTypes DEF IInv, TypeOK, Quiet
  <2>2. billed[r]
    BY <2>1 DEF PerRequest, Marks
  <2>3. Final(r) \in Int /\ Ends(r, 1, Final(r))
    BY <2>1, <2>2 DEF PerRequest, Closed, Final
  <2>4. paid[r][1] = Final(r)
    BY <2>1, <2>3, QuietEnds
  <2>5. kind[r] = "realtime" => used[r] = Responses(r)
    <3>1. sent[r]
      BY <2>1, <2>2 DEF PerRequest, Marks
    <3> QED
      BY <2>1, <3>1 DEF PerRequest, Session
  <2>6. Due(r) = IF KeepsReservation(r) THEN pre[r] ELSE used[r]
    BY <2>1, <2>5 DEF Due, KeepsReservation
  <2>7. log[r] = Due(r)
    BY <2>1 DEF PerRequest, Closed
  <2> QED
    BY <2>1, <2>4, <2>6, <2>7 DEF Final
<1> QED
  BY <1>1, InvariantTheorem, PTL

\* A request that fails costs what its kind keeps (Conservative, RollBack,
\* ImageReturn, BillingAuditSafetyNet), and no attempt of a retried request
\* costs less than nothing or more than it was worth or had reserved.
THEOREM CostTheorem == Spec => []CostBounded
<1>1. IInv => FailureCost
  <2> SUFFICES ASSUME IInv, NEW r \in Requests, Quiet(r), outcome[r] = "failed", attempt[r] = 1,
                      ~missed[r]
               PROVE  paid[r][1] = IF billed[r] THEN used[r]
                        ELSE IF sent[r] /\ kind[r] \notin {"audio", "video"} THEN pre[r] ELSE 0
    BY DEF FailureCost
  <2>1. /\ PerRequest(r) /\ 1 \in Attempts /\ pc[r] = "done" /\ kind[r] \in Kinds
        /\ pre[r] \in Nat /\ used[r] \in Nat /\ cpre[r] \in Nat
    BY ConstantTypes DEF IInv, TypeOK, Quiet
  <2>2. CASE billed[r]
    <3>1. kind[r] \in {"image", "audio"}
      BY <2>1, <2>2 DEF PerRequest, Marks
    <3>2. Final(r) = used[r]
      BY <2>1, <3>1 DEF Final, KeepsReservation
    <3>3. Ends(r, 1, used[r])
      BY <2>1, <2>2, <3>2 DEF PerRequest, Closed
    <3> QED
      BY <2>1, <2>2, <3>3, QuietEnds
  <2>3. CASE ~billed[r]
    <3>1. Ends(r, 1, Kept(r)) /\ Kept(r) \in Int
      BY <2>1, <2>3 DEF PerRequest, Closed, Kept
    <3>2. paid[r][1] = Kept(r)
      BY <2>1, <3>1, QuietEnds
    <3>3. /\ forwarded[r] => sent[r]
          /\ sent[r] /\ kind[r] # "audio" => forwarded[r]
          /\ sent[r] => kind[r] # "realtime"
      BY <2>1 DEF PerRequest, Marks
    <3> QED
      BY <2>1, <2>3, <3>2, <3>3 DEF Kept, Kinds
  <2> QED
    BY <2>2, <2>3
<1>2. IInv => RetryCostBounded
  <2> SUFFICES ASSUME IInv, NEW r \in Requests, Quiet(r), ~missed[r], kind[r] # "ocr",
                      NEW a \in 1..attempt[r]
               PROVE  0 <= paid[r][a] /\ paid[r][a] <= CostCap(r, a)
    BY DEF RetryCostBounded
  <2>1. /\ PerRequest(r) /\ attempt[r] \in Attempts /\ pc[r] = "done" /\ kind[r] \in Kinds
        /\ pre[r] \in Nat /\ used[r] \in Nat /\ spent[r] \in [Attempts -> Nat]
    BY DEF IInv, TypeOK, Quiet
  <2>2. a \in Attempts /\ a \in Nat /\ attempt[r] \in Nat
    BY <2>1, MediaAssumption DEF Attempts
  <2>3. CASE a < attempt[r]
    <3>1. PICK v \in 0..spent[r][a] : Ends(r, a, v)
      BY <2>1, <2>2, <2>3 DEF PerRequest, Past
    <3>2. v \in Int /\ 0 <= v /\ v <= spent[r][a]
      BY <2>1, <2>2
    <3>3. paid[r][a] = v
      BY <2>2, <3>1, <3>2, QuietEnds
    <3> QED
      BY <2>3, <3>2, <3>3 DEF CostCap
  <2>4. CASE a = attempt[r] /\ billed[r]
    <3>1. Final(r) \in Nat /\ Ends(r, a, Final(r))
      BY <2>1, <2>4 DEF PerRequest, Closed, Final
    <3>2. paid[r][a] = Final(r)
      BY <2>2, <3>1, QuietEnds
    <3>3. kind[r] = "realtime" => used[r] = Responses(r)
      <4>1. sent[r]
        BY <2>1, <2>4 DEF PerRequest, Marks
      <4> QED
        BY <2>1, <4>1 DEF PerRequest, Session
    <3>4. Due(r) = Final(r)
      BY <2>1, <3>3 DEF Due, Final, KeepsReservation
    <3> QED
      BY <2>4, <3>1, <3>2, <3>4 DEF CostCap
  <2>5. CASE a = attempt[r] /\ ~billed[r]
    <3>1. Ends(r, a, Kept(r)) /\ Kept(r) \in 0..pre[r]
      BY <2>1, <2>5 DEF PerRequest, Closed, Kept
    <3>2. Kept(r) \in Int /\ 0 <= Kept(r) /\ Kept(r) <= pre[r]
      BY <2>1, <3>1
    <3>3. paid[r][a] = Kept(r)
      BY <2>2, <3>1, <3>2, QuietEnds
    <3> QED
      BY <2>5, <3>2, <3>3 DEF CostCap
  <2> QED
    BY <2>2, <2>3, <2>4, <2>5
<1>3. IInv => CostBounded
  BY <1>1, <1>2 DEF IInv, CostBounded
<1> QED
  BY <1>3, InvariantTheorem, PTL
=============================================================================
