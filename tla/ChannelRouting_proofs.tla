----------------------- MODULE ChannelRouting_proofs -----------------------
(***************************************************************************)
(* Where the attempts of a request go, for any number of requests, any     *)
(* finite set of channels, any priorities, budgets and errors: never twice *)
(* to one channel (AttemptsTheorem), to a disabled one only where the      *)
(* selection cannot know of it (DisabledTheorem), and the error goroutines *)
(* punish only channels on which an attempt of their request failed        *)
(* (BlameTheorem).                                                         *)
(*                                                                         *)
(* The inductive invariant ties the trail of a request to the place where  *)
(* its handler is: in the retry loop the failed set holds every channel of *)
(* the trail but the one being tried, and the channel that the pending     *)
(* goroutines will read has failed.  What the cache and a rebuild under    *)
(* way hold is enabled but for the channels written since their queries,   *)
(* and an ability disagrees with its channel's status only where one       *)
(* worker is between the two writes or a write failed or was overtaken.    *)
(***************************************************************************)
EXTENDS ChannelRouting, FiniteSetTheorems, TLAPS

----------------------------------------------------------------------------
(* The inductive invariant *)

Fault(q, c) == \E f \in faults : f[1] = q /\ f[2] = c
Pending(q)  == \E t \in tasks : t[1] = q

\* What the cache and the rebuilds hold is enabled, or was written since.
Cached ==
  /\ \A c \in cache : c \in behind \/ status[c] = "enabled"
  /\ \A w \in Workers : wpc[w] = "install" =>
       \A c \in loaded[w] : c \in since[w] \/ status[c] = "enabled"

\* The rows of a channel that is not torn: one writer, whose first write the
\* abilities show between its two writes, and agreement otherwise.
Row(c) ==
  /\ \A v, w \in Workers : Writer(v, c) /\ Writer(w, c) => v = w
  /\ \A w \in Workers : target[w] = c /\ wpc[w] = "status" /\ enabled[c] => wanted[w] = "enabled"
  /\ enabled[c] => HalfWritten(c) \/ status[c] = "enabled"

Rows == \A c \in Channels : c \in torn \/ Row(c)

\* A worker that writes has a channel to write.
Busy == \A w \in Workers : wpc[w] \in {"abilities", "status"} => target[w] \in Channels

Listed == Cached /\ Rows /\ Busy

\* Where the handler of a request is and the trail it has left.
Trail(q) ==
  /\ pin[q] # "none" => bound[q] \in Channels
  /\ pc[q] \in {"new", "wait"} => tried[q] = <<>>
  /\ pc[q] = "wait" => pin[q] = "none"
  /\ pc[q] \in {"call", "decide"} =>
       /\ Len(tried[q]) = 1 /\ tried[q][1] = ctxChannel[q]
       /\ channelId[q] = ctxChannel[q] /\ ctxChannel[q] \in Channels
  /\ pc[q] = "retry" => /\ tried[q] # <<>>
                        /\ \A i \in 1 .. Len(tried[q]) : tried[q][i] \in failed[q]
  /\ pc[q] \in {"recall", "record"} =>
       /\ Len(tried[q]) > 0 /\ left[q] > 0
       /\ ctxChannel[q] \in Channels \ failed[q] /\ tried[q][Len(tried[q])] = ctxChannel[q]
       /\ \A i \in 1 .. Len(tried[q]) - 1 : tried[q][i] \in failed[q]
  /\ \A i, j \in 1 .. Len(tried[q]) : tried[q][i] = tried[q][j] => i = j

\* What the pending goroutines of a request will find in channelId.
Blame(q) ==
  /\ pc[q] \in {"new", "wait", "call"} => ~Pending(q)
  /\ pc[q] = "record" => Fault(q, ctxChannel[q])
  /\ Pending(q) => channelId[q] \in Channels /\ Fault(q, channelId[q])

\* A request that is held to its channel never enters the loop's body.
Held(q) ==
  pin[q] # "none" /\ firstErr[q] \notin {"large", "reparse"} =>
    /\ Len(tried[q]) <= 1
    /\ pc[q] = "retry" => left[q] = 0
    /\ pc[q] \notin {"recall", "record"}

ReqOK(q) == Trail(q) /\ Blame(q) /\ Held(q)

IInv == TypeOK /\ Listed /\ BlamedFailed /\ \A q \in Requests : ReqOK(q)

\* What NeverToDisabled says of a step.
Allowed(q, c) == \/ status[c] = "enabled"
                 \/ Unknown(c) /\ (pin[q] = "none" \/ tried[q] # <<>>)

ToEnabled ==
  \A q \in Requests :
    Len(tried'[q]) > Len(tried[q]) => Allowed(q, tried'[q][Len(tried'[q])])

----------------------------------------------------------------------------
(* Selection and budget *)

\* Whatever a selection starts from is enabled as far as it can know.
LEMMA ViewEnabled ==
  ASSUME TypeOK, Listed
  PROVE  View \subseteq Channels /\ \A c \in View : status[c] = "enabled" \/ Unknown(c)
<1>1. CASE memoryCache
  BY <1>1 DEF TypeOK, Listed, Cached, View, Unknown
<1>2. CASE ~memoryCache
  BY <1>2 DEF TypeOK, Listed, Rows, Row, View, Available, Unknown
<1> QED BY <1>1, <1>2

\* A step that writes no row and rebuilds nothing.
LEMMA ListedKept ==
  ASSUME Listed, UNCHANGED <<status, enabled, cache>>,
         UNCHANGED <<wpc, target, wanted, loaded, since, behind, torn>>
  PROVE  Listed'
<1>1. Cached'
  BY DEF Listed, Cached
<1>2. Rows'
  BY DEF Listed, Rows, Row, Writer, HalfWritten
<1>3. Busy'
  BY DEF Listed, Busy
<1> QED BY <1>1, <1>2, <1>3 DEF Listed

LEMMA SelectableInView == ASSUME NEW limited PROVE Selectable(limited) \subseteq View
BY DEF Selectable, TopTier

\* Every strategy of the loop leaves the failed channels out.
LEMMA CandidatesFresh ==
  ASSUME NEW r \in Requests
  PROVE  RetryCandidates(r) \subseteq View \ failed[r]
<1>1. \A S : TopTier(S) \subseteq S /\ LowerTiers(S) \subseteq S
  BY DEF TopTier, LowerTiers
<1>2. \A S, T : LargerMaxTokens(S, T) \subseteq S
  BY DEF LargerMaxTokens
<1>3. PICK S : S = View \ failed[r]
  OBVIOUS
<1>4. \/ firstErr[r] = "large" /\ RetryCandidates(r) = TopTier(LargerMaxTokens(S, failed[r]))
      \/ RetryCandidates(r) \in {TopTier(S), LowerTiers(S)}
  BY <1>3 DEF RetryCandidates
<1> QED BY <1>1, <1>2, <1>3, <1>4

\* The budget is a number, and nothing for a request held to its channel.
LEMMA BudgetType ==
  ASSUME TypeOK, NEW r \in Requests
  PROVE  /\ RetryBudget(r) \in Nat
         /\ pin[r] # "none" /\ firstErr[r] \notin {"large", "reparse"} => RetryBudget(r) = 0
<1>1. PICK base \in Nat : base = IF ShouldRetry(r) THEN RetryTimes ELSE 0
  BY RoutingAssumption
<1>2. cache # {} => Cardinality(cache) - 1 \in Nat
  <2>1. IsFiniteSet(cache)
    BY RoutingAssumption, FS_Subset DEF TypeOK
  <2>2. Cardinality(cache) \in Nat /\ (Cardinality(cache) = 0 <=> cache = {})
    BY <2>1, FS_CardinalityType, FS_EmptySet
  <2> QED BY <2>2
<1>3. CASE firstErr[r] = "rate"
  <2>1. RetryBudget(r) = 2 * base
    BY <1>1, <1>3 DEF RetryBudget
  <2>2. pin[r] # "none" => base = 0
    BY <1>1, <1>3 DEF ShouldRetry
  <2> QED BY <2>1, <2>2
<1>4. CASE firstErr[r] = "large"
  <2>1. RetryBudget(r) = IF memoryCache /\ cache # {} THEN Cardinality(cache) - 1 ELSE 1
    BY <1>4 DEF RetryBudget
  <2> QED BY <1>2, <1>4, <2>1
<1>5. CASE firstErr[r] \notin {"rate", "large"}
  <2>1. RetryBudget(r) = base
    BY <1>1, <1>5 DEF RetryBudget
  <2>2. pin[r] # "none" /\ firstErr[r] # "reparse" => base = 0
    BY <1>1 DEF ShouldRetry
  <2> QED BY <2>1, <2>2
<1> QED BY <1>3, <1>4, <1>5

----------------------------------------------------------------------------
(* Requests that a step does not touch *)

LEMMA OtherKept ==
  ASSUME NEW q \in Requests, ReqOK(q),
         pc'[q] = pc[q], pin'[q] = pin[q], bound'[q] = bound[q], tried'[q] = tried[q],
         channelId'[q] = channelId[q], ctxChannel'[q] = ctxChannel[q],
         firstErr'[q] = firstErr[q], failed'[q] = failed[q], left'[q] = left[q],
         faults \subseteq faults', Pending(q)' => Pending(q)
  PROVE  ReqOK(q)'
<1>1. Trail(q)'
  BY DEF ReqOK, Trail
<1>2. Held(q)'
  BY DEF ReqOK, Held
<1>3. Fault(q, channelId[q]) => Fault(q, channelId[q])'
  BY DEF Fault
<1>4. Fault(q, ctxChannel[q]) => Fault(q, ctxChannel[q])'
  BY DEF Fault
<1>5. Blame(q)'
  BY <1>3, <1>4 DEF ReqOK, Blame
<1> QED BY <1>1, <1>2, <1>5 DEF ReqOK

\* Nobody's blame is forgotten.
LEMMA BlameKept ==
  ASSUME BlamedFailed, blamed' = blamed, faults \subseteq faults'
  PROVE  BlamedFailed'
BY DEF BlamedFailed

----------------------------------------------------------------------------
(* Distribute *)

\* What the actions of Distribute leave alone, and the types of the rest.
DistFrame ==
  /\ UNCHANGED <<memoryCache, status, enabled, suspend, cache, changes>>
  /\ UNCHANGED <<wpc, target, wanted, loaded, since, behind, torn>>
  /\ UNCHANGED <<bizErr, firstErr, failed, left, tasks, faults, blamed, crashed>>
  /\ sticky' \in Channels \cup {NoChannel} /\ stickyLeft' \in 0..StickyTTL
  /\ wait' \in [Requests -> Nat]

\* A request that has a channel, is turned away, or waits.
Placed(r) ==
  \/ \E c \in Channels : Allowed(r, c) /\ Forward(r, c)
  \/ /\ \/ pc' = [pc EXCEPT ![r] = "done"]
        \/ pin[r] = "none" /\ pc' = [pc EXCEPT ![r] = "wait"]
        \/ pc[r] = "new" /\ pc' = pc
     /\ UNCHANGED <<ctxChannel, channelId, tried>>

LEMMA DistHolds ==
  ASSUME IInv, NEW r \in Requests, pc[r] \in {"new", "wait"}, DistFrame, Placed(r),
         pin' \in [Requests -> {"none", "specific", "bound"}],
         bound' \in [Requests -> Channels \cup {NoChannel}],
         \A q \in Requests \ {r} : pin'[q] = pin[q] /\ bound'[q] = bound[q],
         pin'[r] # "none" => bound'[r] \in Channels, pin'[r] \in {pin[r], "none"}
  PROVE  IInv' /\ ToEnabled
<1> USE DEF PCs
<1>1. TypeOK /\ Listed /\ BlamedFailed /\ ReqOK(r) /\ \A q \in Requests : ReqOK(q)
  BY DEF IInv
<1>2. tried[r] = <<>> /\ ~Pending(r) /\ tried \in [Requests -> Seq(Channels)]
  BY <1>1 DEF ReqOK, Trail, Blame, TypeOK
<1>3. /\ status' = status /\ enabled' = enabled /\ cache' = cache /\ tasks' = tasks
      /\ UNCHANGED <<wpc, target, wanted, loaded, since, behind, torn>>
      /\ faults' = faults /\ blamed' = blamed /\ firstErr' = firstErr
      /\ failed' = failed /\ left' = left
  BY DEF DistFrame
<1>4. Listed' /\ BlamedFailed'
  BY <1>1, <1>3, ListedKept DEF BlamedFailed
<1>5. Pending(r)' <=> Pending(r)
  BY <1>3 DEF Pending
<1>6. ASSUME NEW c \in Channels, Allowed(r, c), Forward(r, c)
      PROVE  IInv' /\ ToEnabled
  <2>1. /\ pc' = [pc EXCEPT ![r] = "call"] /\ ctxChannel' = [ctxChannel EXCEPT ![r] = c]
        /\ channelId' = [channelId EXCEPT ![r] = c]
        /\ tried' = [tried EXCEPT ![r] = Append(tried[r], c)]
    BY <1>6 DEF Forward, Goto
  <2>2. Append(tried[r], c) = <<c>> /\ <<c>> \in Seq(Channels) /\ Len(<<c>>) = 1 /\ <<c>>[1] = c
    BY <1>2
  <2>3. /\ pc' \in [Requests -> PCs] /\ pc'[r] = "call"
        /\ \A q \in Requests \ {r} : pc'[q] = pc[q]
    BY <1>1, <2>1 DEF TypeOK
  <2>4. /\ ctxChannel' \in [Requests -> Channels \cup {NoChannel}] /\ ctxChannel'[r] = c
        /\ channelId' \in [Requests -> Channels \cup {NoChannel}] /\ channelId'[r] = c
        /\ \A q \in Requests \ {r} : ctxChannel'[q] = ctxChannel[q] /\ channelId'[q] = channelId[q]
    BY <1>1, <2>1 DEF TypeOK
  <2>5. /\ tried' \in [Requests -> Seq(Channels)] /\ tried'[r] = <<c>>
        /\ \A q \in Requests \ {r} : tried'[q] = tried[q]
    BY <1>2, <2>1, <2>2
  <2>6. TypeOK'
    BY <1>1, <2>3, <2>4, <2>5 DEF TypeOK, DistFrame
  <2>7. ReqOK(r)'
    <3>1. Trail(r)'
      BY <2>2, <2>3, <2>4, <2>5 DEF Trail
    <3>2. Blame(r)'
      BY <1>2, <1>5, <2>3 DEF Blame
    <3>3. Held(r)'
      BY <2>2, <2>3, <2>5 DEF Held
    <3> QED BY <3>1, <3>2, <3>3 DEF ReqOK
  <2>8. \A q \in Requests \ {r} : ReqOK(q)'
    <3> TAKE q \in Requests \ {r}
    <3>1. Pending(q)' => Pending(q)
      BY <1>3 DEF Pending
    <3> QED BY <1>1, <1>3, <2>3, <2>4, <2>5, <3>1, OtherKept
  <2>9. ToEnabled
    <3> SUFFICES ASSUME NEW q \in Requests, Len(tried'[q]) > Len(tried[q])
                 PROVE  Allowed(q, tried'[q][Len(tried'[q])])
      BY DEF ToEnabled
    <3>1. Len(tried[q]) \in Nat
      BY <1>2
    <3>2. q = r
      BY <2>5, <3>1
    <3> QED BY <1>6, <2>2, <2>5, <3>2
  <2> QED BY <1>4, <2>6, <2>7, <2>8, <2>9 DEF IInv
<1>7. ASSUME \/ pc' = [pc EXCEPT ![r] = "done"]
             \/ pin[r] = "none" /\ pc' = [pc EXCEPT ![r] = "wait"]
             \/ pc[r] = "new" /\ pc' = pc,
             UNCHANGED <<ctxChannel, channelId, tried>>
      PROVE  IInv' /\ ToEnabled
  <2>1. /\ pc' \in [Requests -> PCs] /\ pc'[r] \in {"new", "wait", "done"}
        /\ pc'[r] = "wait" => pin'[r] = "none"
        /\ \A q \in Requests \ {r} : pc'[q] = pc[q]
    <3>1. pc \in [Requests -> PCs]
      BY <1>1 DEF TypeOK
    <3>2. CASE pc[r] = "new" /\ pc' = pc
      BY <1>1, <3>1, <3>2
    <3>3. ASSUME NEW next \in {"done", "wait"}, pc' = [pc EXCEPT ![r] = next],
                 next = "wait" => pin[r] = "none"
          PROVE  /\ pc'[r] = "wait" => pin'[r] = "none"
                 /\ pc' \in [Requests -> PCs] /\ pc'[r] \in {"new", "wait", "done"}
                 /\ \A q \in Requests \ {r} : pc'[q] = pc[q]
      BY <3>1, <3>3 DEF PCs
    <3> QED BY <1>7, <3>2, <3>3
  <2>2. TypeOK'
    BY <1>1, <1>7, <2>1 DEF TypeOK, DistFrame
  <2>3. ReqOK(r)'
    <3>1. tried'[r] = <<>> /\ Len(<<>>) = 0
      BY <1>2, <1>7
    <3>2. Trail(r)'
      BY <2>1, <3>1 DEF Trail
    <3>3. Blame(r)'
      BY <1>2, <1>5, <2>1 DEF Blame
    <3>4. Held(r)'
      BY <2>1, <3>1 DEF Held
    <3> QED BY <3>2, <3>3, <3>4 DEF ReqOK
  <2>4. \A q \in Requests \ {r} : ReqOK(q)'
    <3> TAKE q \in Requests \ {r}
    <3>1. Pending(q)' => Pending(q)
      BY <1>3 DEF Pending
    <3> QED BY <1>1, <1>3, <1>7, <2>1, <3>1, OtherKept
  <2>5. ToEnabled
    BY <1>2, <1>7 DEF ToEnabled
  <2> QED BY <1>4, <2>2, <2>3, <2>4, <2>5 DEF IInv
<1> QED BY <1>6, <1>7 DEF Placed

\* The same for a request that keeps its binding.
LEMMA DistUnbound ==
  ASSUME IInv, NEW r \in Requests, pc[r] \in {"new", "wait"}, DistFrame, Placed(r),
         pin' = pin, bound' = bound
  PROVE  IInv' /\ ToEnabled
<1>1. /\ pin' \in [Requests -> {"none", "specific", "bound"}]
      /\ bound' \in [Requests -> Channels \cup {NoChannel}]
      /\ \A q \in Requests \ {r} : pin'[q] = pin[q] /\ bound'[q] = bound[q]
      /\ pin'[r] # "none" => bound'[r] \in Channels
      /\ pin'[r] \in {pin[r], "none"}
  BY DEF IInv, TypeOK, ReqOK, Trail
<1> QED BY <1>1, DistHolds

LEMMA RejectPlaces == ASSUME NEW r \in Requests, Reject(r) PROVE Placed(r)
BY DEF Reject, Placed, Goto

\* The end of Distribute with a channel that it may choose.
LEMMA FinishPlaces ==
  ASSUME TypeOK, NEW r \in Requests, NEW c \in Channels, Allowed(r, c), Finish(r, c)
  PROVE  /\ Placed(r)
         /\ sticky' \in Channels \cup {NoChannel} /\ stickyLeft' \in 0..StickyTTL
<1>1. CASE Forward(r, c) /\ sticky' = c /\ stickyLeft' = StickyTTL
  BY <1>1, RoutingAssumption DEF Placed
<1>2. CASE Reject(r) /\ UNCHANGED session
  BY <1>2, RejectPlaces DEF session, TypeOK
<1> QED BY <1>1, <1>2 DEF Finish

LEMMA DistributeBoundHolds ==
  ASSUME IInv, NEW r \in Requests, DistributeBound(r)
  PROVE  IInv' /\ ToEnabled
<1>1. TypeOK /\ Trail(r) /\ pc[r] = "new" /\ pin[r] # "none"
  BY DEF IInv, ReqOK, DistributeBound
<1>2. DistFrame
  BY <1>1 DEF DistributeBound, DistFrame, db, writing, session, TypeOK
<1>3. PICK limited \in SUBSET Limited :
        LET c == bound[r]
            ok == status[c] = "enabled" /\ c \in Serves
        IN \/ /\ ok /\ c \notin limited
              /\ Forward(r, c) /\ UNCHANGED <<pin, bound>>
           \/ /\ ~ok \/ (pin[r] = "specific" /\ c \in limited)
              /\ Reject(r) /\ UNCHANGED <<pin, bound>>
           \/ /\ ok /\ pin[r] = "bound" /\ c \in limited
              /\ pin' = [pin EXCEPT ![r] = "none"]
              /\ bound' = [bound EXCEPT ![r] = NoChannel]
              /\ UNCHANGED <<pc, ctxChannel, channelId, tried>>
  BY DEF DistributeBound
<1>4. PICK c \in Channels : c = bound[r]
  BY <1>1 DEF Trail
<1>5. CASE status[c] = "enabled" /\ Forward(r, c) /\ UNCHANGED <<pin, bound>>
  <2>1. Placed(r)
    BY <1>5 DEF Placed, Allowed
  <2> QED BY <1>1, <1>2, <1>5, <2>1, DistUnbound
<1>6. CASE Reject(r) /\ UNCHANGED <<pin, bound>>
  BY <1>1, <1>2, <1>6, RejectPlaces, DistUnbound
<1>7. CASE /\ pin' = [pin EXCEPT ![r] = "none"] /\ bound' = [bound EXCEPT ![r] = NoChannel]
           /\ UNCHANGED <<pc, ctxChannel, channelId, tried>>
  <2>1. Placed(r)
    BY <1>1, <1>7 DEF Placed
  <2>2. /\ pin' \in [Requests -> {"none", "specific", "bound"}] /\ pin'[r] = "none"
        /\ bound' \in [Requests -> Channels \cup {NoChannel}]
        /\ \A q \in Requests \ {r} : pin'[q] = pin[q] /\ bound'[q] = bound[q]
    BY <1>1, <1>7 DEF TypeOK
  <2> QED BY <1>1, <1>2, <2>1, <2>2, DistHolds
<1> QED BY <1>3, <1>4, <1>5, <1>6, <1>7

LEMMA DistributeStickyHolds ==
  ASSUME IInv, NEW r \in Requests, DistributeSticky(r)
  PROVE  IInv' /\ ToEnabled
<1>1. TypeOK /\ pc[r] = "new"
  BY DEF IInv, DistributeSticky
<1>2. PICK c \in Channels : c = sticky /\ status[c] = "enabled" /\ Finish(r, c)
  BY <1>1 DEF DistributeSticky, StickyAlive, TypeOK
<1>3. /\ Placed(r)
      /\ sticky' \in Channels \cup {NoChannel} /\ stickyLeft' \in 0..StickyTTL
  <2>1. Allowed(r, c)
    BY <1>2 DEF Allowed
  <2> QED BY <1>1, <1>2, <2>1, FinishPlaces
<1>4. DistFrame /\ pin' = pin /\ bound' = bound
  BY <1>1, <1>3 DEF DistributeSticky, DistFrame, db, writing, TypeOK
<1> QED BY <1>1, <1>3, <1>4, DistUnbound

LEMMA DistributeSelectHolds ==
  ASSUME IInv, NEW r \in Requests, DistributeSelect(r)
  PROVE  IInv' /\ ToEnabled
<1>1. TypeOK /\ Listed /\ pc[r] = "new" /\ pin[r] = "none"
  BY DEF IInv, DistributeSelect
<1>2. /\ UNCHANGED <<memoryCache, status, enabled, suspend, cache, changes>>
      /\ UNCHANGED <<wpc, target, wanted, loaded, since, behind, torn>>
      /\ UNCHANGED <<bizErr, firstErr, failed, left, tasks, faults, blamed, crashed>>
      /\ pin' = pin /\ bound' = bound
  BY DEF DistributeSelect, db, writing
<1>3. PICK limited \in SUBSET Limited :
        \/ /\ \E c \in Selectable(limited) : Finish(r, c)
           /\ UNCHANGED wait
        \/ /\ sticky' = IF StickyAlive THEN sticky ELSE NoChannel
           /\ stickyLeft' = IF StickyAlive THEN stickyLeft ELSE 0
           /\ \/ /\ \E c \in Soonest : wait' = [wait EXCEPT ![r] = suspend[c]]
                 /\ Goto(r, "wait") /\ UNCHANGED <<ctxChannel, channelId, tried>>
              \/ Reject(r) /\ UNCHANGED wait
  BY DEF DistributeSelect
<1>4. CASE (\E c \in Selectable(limited) : Finish(r, c)) /\ UNCHANGED wait
  <2>1. PICK c \in Channels : (status[c] = "enabled" \/ Unknown(c)) /\ Finish(r, c)
    BY <1>1, <1>4, SelectableInView, ViewEnabled
  <2>2. /\ Placed(r)
        /\ sticky' \in Channels \cup {NoChannel} /\ stickyLeft' \in 0..StickyTTL
    <3>1. Allowed(r, c)
      BY <1>1, <2>1 DEF Allowed
    <3> QED BY <1>1, <2>1, <3>1, FinishPlaces
  <2>3. DistFrame
    BY <1>1, <1>2, <1>4, <2>2 DEF DistFrame, TypeOK
  <2> QED BY <1>1, <1>2, <2>2, <2>3, DistUnbound
<1>5. CASE /\ sticky' = IF StickyAlive THEN sticky ELSE NoChannel
           /\ stickyLeft' = IF StickyAlive THEN stickyLeft ELSE 0
           /\ \/ /\ \E c \in Soonest : wait' = [wait EXCEPT ![r] = suspend[c]]
                 /\ Goto(r, "wait") /\ UNCHANGED <<ctxChannel, channelId, tried>>
              \/ Reject(r) /\ UNCHANGED wait
  <2>1. sticky' \in Channels \cup {NoChannel} /\ stickyLeft' \in 0..StickyTTL
    BY <1>1, <1>5, RoutingAssumption DEF TypeOK
  <2>2. Placed(r) /\ wait' \in [Requests -> Nat]
    <3>1. CASE /\ \E c \in Soonest : wait' = [wait EXCEPT ![r] = suspend[c]]
               /\ Goto(r, "wait") /\ UNCHANGED <<ctxChannel, channelId, tried>>
      <4>1. PICK n \in Nat : wait' = [wait EXCEPT ![r] = n]
        BY <1>1, <3>1 DEF Soonest, TypeOK
      <4>2. Placed(r)
        BY <1>1, <3>1 DEF Placed, Goto
      <4> QED BY <1>1, <4>1, <4>2 DEF TypeOK
    <3>2. CASE Reject(r) /\ UNCHANGED wait
      BY <1>1, <3>2, RejectPlaces DEF TypeOK
    <3> QED BY <1>5, <3>1, <3>2
  <2>3. DistFrame
    BY <1>2, <2>1, <2>2 DEF DistFrame
  <2> QED BY <1>1, <1>2, <2>2, <2>3, DistUnbound
<1> QED BY <1>3, <1>4, <1>5

LEMMA DistributeAgainHolds ==
  ASSUME IInv, NEW r \in Requests, DistributeAgain(r)
  PROVE  IInv' /\ ToEnabled
<1>1. TypeOK /\ Listed /\ pc[r] = "wait" /\ pin[r] = "none"
  BY DEF IInv, DistributeAgain, ReqOK, Trail
<1>2. /\ UNCHANGED <<memoryCache, status, enabled, suspend, cache, changes>>
      /\ UNCHANGED <<wpc, target, wanted, loaded, since, behind, torn>>
      /\ UNCHANGED <<bizErr, firstErr, failed, left, tasks, faults, blamed, crashed>>
      /\ pin' = pin /\ bound' = bound /\ wait' = wait
  BY DEF DistributeAgain, db, writing
<1>3. /\ Placed(r)
      /\ sticky' \in Channels \cup {NoChannel} /\ stickyLeft' \in 0..StickyTTL
  <2>1. PICK limited \in SUBSET Limited :
          \/ \E c \in Selectable(limited) : Finish(r, c)
          \/ Reject(r) /\ UNCHANGED session
    BY DEF DistributeAgain
  <2>2. CASE \E c \in Selectable(limited) : Finish(r, c)
    <3>1. PICK c \in Channels : (status[c] = "enabled" \/ Unknown(c)) /\ Finish(r, c)
      BY <1>1, <2>2, SelectableInView, ViewEnabled
    <3>2. Allowed(r, c)
      BY <1>1, <3>1 DEF Allowed
    <3> QED BY <1>1, <3>1, <3>2, FinishPlaces
  <2>3. CASE Reject(r) /\ UNCHANGED session
    BY <1>1, <2>3, RejectPlaces DEF session, TypeOK
  <2> QED BY <2>1, <2>2, <2>3
<1>4. DistFrame
  BY <1>1, <1>2, <1>3 DEF DistFrame, TypeOK
<1> QED BY <1>1, <1>2, <1>3, <1>4, DistUnbound

LEMMA DisconnectHolds ==
  ASSUME IInv, NEW r \in Requests, Disconnect(r)
  PROVE  IInv' /\ ToEnabled
<1>1. TypeOK /\ pc[r] = "wait"
  BY DEF IInv, Disconnect
<1>2. DistFrame /\ pin' = pin /\ bound' = bound
  BY <1>1 DEF Disconnect, DistFrame, db, writing, session, TypeOK
<1> QED BY <1>1, <1>2, RejectPlaces, DistUnbound DEF Disconnect

----------------------------------------------------------------------------
(* Relay *)

\* A step of the handler of r after Distribute: what holds for the others.
LEMMA RelayFrame ==
  ASSUME IInv, NEW r \in Requests,
         \A q \in Requests \ {r} :
           /\ pc'[q] = pc[q] /\ tried'[q] = tried[q] /\ channelId'[q] = channelId[q]
           /\ ctxChannel'[q] = ctxChannel[q] /\ firstErr'[q] = firstErr[q]
           /\ failed'[q] = failed[q] /\ left'[q] = left[q],
         pin' = pin, bound' = bound, status' = status, enabled' = enabled, cache' = cache,
         wpc' = wpc, target' = target, wanted' = wanted, loaded' = loaded,
         since' = since, behind' = behind, torn' = torn, blamed' = blamed, faults \subseteq faults',
         \A t \in tasks' : t \in tasks \/ t[1] = r,
         TypeOK', ReqOK(r)'
  PROVE  IInv'
<1>1. \A q \in Requests \ {r} : ReqOK(q)'
  <2> TAKE q \in Requests \ {r}
  <2>1. Pending(q)' => Pending(q)
    BY DEF Pending
  <2>2. ReqOK(q)
    BY DEF IInv
  <2> QED BY <2>1, <2>2, OtherKept
<1>2. Listed' /\ BlamedFailed'
  BY BlameKept, ListedKept DEF IInv
<1> QED BY <1>1, <1>2 DEF IInv

\* An attempt's answer and the fault it may be.
LEMMA AnsweredTypes ==
  ASSUME TypeOK, NEW r \in Requests, NEW e \in ErrorKinds \cup {"nil"}, Answered(r, e),
         ctxChannel[r] \in Channels
  PROVE  /\ bizErr' \in [Requests -> ErrorKinds \cup {"nil"}]
         /\ faults' \subseteq Requests \X Channels \X ErrorKinds
         /\ faults \subseteq faults'
         /\ e # "nil" => \E f \in faults' : f[1] = r /\ f[2] = ctxChannel[r]
<1>1. bizErr' \in [Requests -> ErrorKinds \cup {"nil"}]
  BY DEF TypeOK, Answered
<1>2. CASE e = "nil"
  BY <1>1, <1>2 DEF Answered, TypeOK
<1>3. CASE e # "nil"
  <2>1. PICK f : f = <<r, ctxChannel[r], e>>
    OBVIOUS
  <2>2. f \in Requests \X Channels \X ErrorKinds /\ f[1] = r /\ f[2] = ctxChannel[r]
    BY <1>3, <2>1
  <2>3. faults' = faults \cup {f}
    BY <1>3, <2>1 DEF Answered
  <2> QED BY <1>1, <2>2, <2>3 DEF TypeOK
<1> QED BY <1>2, <1>3

LEMMA SpawnTypes ==
  ASSUME TypeOK, NEW r \in Requests, Spawn(r)
  PROVE  tasks' \subseteq Requests \X Nat /\ \A t \in tasks' : t \in tasks \/ t[1] = r
<1>1. Len(tried[r]) \in Nat
  BY DEF TypeOK
<1>2. PICK t : t = <<r, Len(tried[r])>>
  OBVIOUS
<1>3. t \in Requests \X Nat /\ t[1] = r
  BY <1>1, <1>2
<1>4. tasks' = tasks \cup {t}
  BY <1>2 DEF Spawn
<1> QED BY <1>3, <1>4 DEF TypeOK

LEMMA FirstAttemptHolds ==
  ASSUME IInv, NEW r \in Requests, FirstAttempt(r)
  PROVE  IInv' /\ ToEnabled
<1>1. TypeOK /\ Trail(r) /\ Blame(r) /\ Held(r) /\ pc[r] = "call"
  BY DEF IInv, ReqOK, FirstAttempt
<1>2. PICK e \in ErrorKinds \cup {"nil"} :
        /\ Answered(r, e) /\ firstErr' = [firstErr EXCEPT ![r] = e]
        /\ pc' = [pc EXCEPT ![r] = IF e = "nil" THEN "done" ELSE "decide"]
        /\ IF e = "nil" THEN UNCHANGED tasks ELSE Spawn(r)
  BY RoutingAssumption DEF FirstAttempt, Goto
<1>3. /\ memoryCache' = memoryCache /\ status' = status /\ enabled' = enabled
      /\ suspend' = suspend /\ cache' = cache /\ changes' = changes
      /\ wpc' = wpc /\ target' = target /\ wanted' = wanted /\ loaded' = loaded
      /\ since' = since /\ behind' = behind /\ torn' = torn
      /\ sticky' = sticky /\ stickyLeft' = stickyLeft /\ pin' = pin /\ bound' = bound
      /\ channelId' = channelId /\ ctxChannel' = ctxChannel /\ failed' = failed
      /\ left' = left /\ wait' = wait /\ tried' = tried /\ blamed' = blamed
      /\ crashed' = crashed
  BY DEF FirstAttempt, db, writing, session
<1>4. /\ Len(tried[r]) = 1 /\ tried[r][1] = ctxChannel[r] /\ channelId[r] = ctxChannel[r]
      /\ ctxChannel[r] \in Channels /\ ~Pending(r)
  BY <1>1 DEF Trail, Blame
<1>5. /\ bizErr' \in [Requests -> ErrorKinds \cup {"nil"}]
      /\ faults' \subseteq Requests \X Channels \X ErrorKinds
      /\ faults \subseteq faults'
      /\ e # "nil" => \E f \in faults' : f[1] = r /\ f[2] = ctxChannel[r]
  BY <1>1, <1>2, <1>4, AnsweredTypes
<1>6. tasks' \subseteq Requests \X Nat /\ \A t \in tasks' : t \in tasks \/ t[1] = r
  <2>1. CASE e = "nil"
    BY <1>1, <1>2, <2>1 DEF TypeOK
  <2>2. CASE e # "nil"
    BY <1>1, <1>2, <2>2, SpawnTypes
  <2> QED BY <2>1, <2>2
<1>7. /\ pc' \in [Requests -> PCs] /\ pc'[r] = (IF e = "nil" THEN "done" ELSE "decide")
      /\ \A q \in Requests \ {r} : pc'[q] = pc[q]
  BY <1>1, <1>2 DEF TypeOK, PCs
<1>8. /\ firstErr' \in [Requests -> ErrorKinds \cup {"nil"}]
      /\ \A q \in Requests \ {r} : firstErr'[q] = firstErr[q]
  BY <1>1, <1>2 DEF TypeOK
<1>9. TypeOK'
  BY <1>1, <1>3, <1>5, <1>6, <1>7, <1>8 DEF TypeOK
<1>10. ReqOK(r)'
  <2>1. Trail(r)'
    BY <1>1, <1>3, <1>4, <1>7 DEF Trail
  <2>2. Held(r)'
    BY <1>3, <1>4, <1>7 DEF Held
  <2>3. Pending(r)' => e # "nil"
    BY <1>2, <1>4 DEF Pending
  <2>4. e # "nil" => Fault(r, channelId[r])'
    BY <1>3, <1>4, <1>5 DEF Fault
  <2>5. Blame(r)'
    BY <1>3, <1>4, <1>7, <2>3, <2>4 DEF Blame
  <2> QED BY <2>1, <2>2, <2>5 DEF ReqOK
<1>11. IInv'
  BY <1>3, <1>5, <1>6, <1>7, <1>8, <1>9, <1>10, RelayFrame
<1>12. ToEnabled
  <2>1. \A q \in Requests : Len(tried[q]) \in Nat
    BY <1>1 DEF TypeOK
  <2> QED BY <1>3, <2>1 DEF ToEnabled
<1> QED BY <1>11, <1>12

\* A step that tries no channel.
LEMMA NothingTried == ASSUME TypeOK, tried' = tried PROVE ToEnabled
<1>1. \A q \in Requests : Len(tried[q]) \in Nat
  BY DEF TypeOK
<1> QED BY <1>1 DEF ToEnabled

LEMMA DecideHolds ==
  ASSUME IInv, NEW r \in Requests, Decide(r)
  PROVE  IInv' /\ ToEnabled
<1>1. TypeOK /\ Trail(r) /\ Blame(r) /\ Held(r) /\ pc[r] = "decide"
  BY DEF IInv, ReqOK, Decide
<1>2. /\ left' = [left EXCEPT ![r] = RetryBudget(r)]
      /\ failed' = [failed EXCEPT ![r] = {channelId[r]}]
      /\ pc' = [pc EXCEPT ![r] = "retry"]
  BY DEF Decide, Goto
<1>3. /\ memoryCache' = memoryCache /\ status' = status /\ enabled' = enabled
      /\ suspend' = suspend /\ cache' = cache /\ changes' = changes
      /\ wpc' = wpc /\ target' = target /\ wanted' = wanted /\ loaded' = loaded
      /\ since' = since /\ behind' = behind /\ torn' = torn
      /\ sticky' = sticky /\ stickyLeft' = stickyLeft /\ pin' = pin /\ bound' = bound
      /\ channelId' = channelId /\ ctxChannel' = ctxChannel /\ firstErr' = firstErr
      /\ bizErr' = bizErr /\ wait' = wait /\ tried' = tried /\ blamed' = blamed
      /\ faults' = faults /\ tasks' = tasks /\ crashed' = crashed
  BY DEF Decide, db, writing, session, audit
<1>4. /\ Len(tried[r]) = 1 /\ tried[r][1] = ctxChannel[r] /\ channelId[r] = ctxChannel[r]
      /\ ctxChannel[r] \in Channels
  BY <1>1 DEF Trail
<1>5. PICK n \in Nat :
        /\ n = RetryBudget(r)
        /\ pin[r] # "none" /\ firstErr[r] \notin {"large", "reparse"} => n = 0
  BY <1>1, BudgetType
<1>6. /\ left' \in [Requests -> Nat] /\ left'[r] = n
      /\ \A q \in Requests \ {r} : left'[q] = left[q]
  BY <1>1, <1>2, <1>5 DEF TypeOK
<1>7. /\ failed' \in [Requests -> SUBSET Channels] /\ failed'[r] = {ctxChannel[r]}
      /\ \A q \in Requests \ {r} : failed'[q] = failed[q]
  BY <1>1, <1>2, <1>4 DEF TypeOK
<1>8. /\ pc' \in [Requests -> PCs] /\ pc'[r] = "retry"
      /\ \A q \in Requests \ {r} : pc'[q] = pc[q]
  BY <1>1, <1>2 DEF TypeOK, PCs
<1>9. TypeOK'
  BY <1>1, <1>3, <1>6, <1>7, <1>8 DEF TypeOK
<1>10. ReqOK(r)'
  <2>1. \A i \in 1 .. Len(tried[r]) : i = 1
    BY <1>4
  <2>2. Trail(r)'
    BY <1>1, <1>3, <1>4, <1>7, <1>8, <2>1 DEF Trail
  <2>3. Held(r)'
    BY <1>3, <1>4, <1>5, <1>6, <1>8 DEF Held
  <2>4. Blame(r)'
    BY <1>1, <1>3, <1>8 DEF Blame, Pending, Fault
  <2> QED BY <2>2, <2>3, <2>4 DEF ReqOK
<1>11. IInv'
  BY <1>3, <1>6, <1>7, <1>8, <1>9, <1>10, RelayFrame
<1> QED BY <1>1, <1>3, <1>11, NothingTried

\* The trail of a request grows by a channel that was not on it.
LEMMA TrailGrows ==
  ASSUME NEW s \in Seq(Channels), NEW F \in SUBSET Channels, NEW c \in Channels, NEW t,
         c \notin F, t = Append(s, c), \A i \in 1 .. Len(s) : s[i] \in F,
         \A i, j \in 1 .. Len(s) : s[i] = s[j] => i = j
  PROVE  /\ t \in Seq(Channels) /\ Len(t) = Len(s) + 1 /\ t[Len(t)] = c
         /\ \A i \in 1 .. Len(t) - 1 : t[i] \in F
         /\ \A i, j \in 1 .. Len(t) : t[i] = t[j] => i = j
<1>1. /\ t \in Seq(Channels) /\ Len(t) = Len(s) + 1 /\ t[Len(s) + 1] = c /\ Len(s) \in Nat
      /\ \A i \in 1 .. Len(s) : t[i] = s[i]
  OBVIOUS
<1>2. \A i \in 1 .. Len(t) - 1 : i \in 1 .. Len(s) /\ t[i] \in F
  BY <1>1
<1>3. \A i \in 1 .. Len(t) : i \in 1 .. Len(s) \/ i = Len(s) + 1
  BY <1>1
<1>4. \A i, j \in 1 .. Len(t) : t[i] = t[j] => i = j
  <2> SUFFICES ASSUME NEW i \in 1 .. Len(t), NEW j \in 1 .. Len(t), t[i] = t[j]
               PROVE  i = j
    OBVIOUS
  <2>1. CASE i \in 1 .. Len(s) /\ j \in 1 .. Len(s)
    BY <1>1, <2>1
  <2>2. CASE i \in 1 .. Len(s) /\ j = Len(s) + 1
    BY <1>1, <2>2
  <2>3. CASE i = Len(s) + 1 /\ j \in 1 .. Len(s)
    BY <1>1, <2>3
  <2> QED BY <1>3, <2>1, <2>2, <2>3
<1> QED BY <1>1, <1>2, <1>4

LEMMA SelectRetryHolds ==
  ASSUME IInv, NEW r \in Requests, SelectRetry(r)
  PROVE  IInv' /\ ToEnabled
<1>1. TypeOK /\ Listed /\ Trail(r) /\ Blame(r) /\ Held(r) /\ pc[r] = "retry"
  BY DEF IInv, ReqOK, SelectRetry
<1>2. /\ memoryCache' = memoryCache /\ status' = status /\ enabled' = enabled
      /\ suspend' = suspend /\ cache' = cache /\ changes' = changes
      /\ wpc' = wpc /\ target' = target /\ wanted' = wanted /\ loaded' = loaded
      /\ since' = since /\ behind' = behind /\ torn' = torn
      /\ sticky' = sticky /\ stickyLeft' = stickyLeft /\ pin' = pin /\ bound' = bound
      /\ channelId' = channelId /\ firstErr' = firstErr /\ bizErr' = bizErr
      /\ failed' = failed /\ left' = left /\ wait' = wait /\ blamed' = blamed
      /\ faults' = faults /\ tasks' = tasks /\ crashed' = crashed
  BY DEF SelectRetry, db, writing, session
<1>3. /\ tried \in [Requests -> Seq(Channels)] /\ left[r] \in Nat
      /\ tried[r] \in Seq(Channels) /\ failed[r] \in SUBSET Channels
  BY <1>1 DEF TypeOK
<1>4. ASSUME left[r] > 0, NEW c \in RetryCandidates(r),
             ctxChannel' = [ctxChannel EXCEPT ![r] = c],
             tried' = [tried EXCEPT ![r] = Append(@, c)], Goto(r, "recall")
      PROVE  IInv' /\ ToEnabled
  <2>1. c \in Channels \ failed[r] /\ (status[c] = "enabled" \/ Unknown(c)) /\ tried[r] # <<>>
    BY <1>1, <1>4, CandidatesFresh, ViewEnabled DEF Trail
  <2>2. PICK t : t = Append(tried[r], c)
    OBVIOUS
  <2>3. /\ t \in Seq(Channels) /\ Len(t) = Len(tried[r]) + 1 /\ t[Len(t)] = c
        /\ \A i \in 1 .. Len(t) - 1 : t[i] \in failed[r]
        /\ \A i, j \in 1 .. Len(t) : t[i] = t[j] => i = j
    <3>1. PICK s \in Seq(Channels), F \in SUBSET Channels : s = tried[r] /\ F = failed[r]
      BY <1>3
    <3>2. /\ \A i \in 1 .. Len(s) : s[i] \in F
          /\ \A i, j \in 1 .. Len(s) : s[i] = s[j] => i = j
      BY <1>1, <3>1 DEF Trail
    <3>3. c \in Channels /\ c \notin F /\ t = Append(s, c)
      BY <2>1, <2>2, <3>1
    <3>4. /\ t \in Seq(Channels) /\ Len(t) = Len(s) + 1 /\ t[Len(t)] = c
          /\ \A i \in 1 .. Len(t) - 1 : t[i] \in F
          /\ \A i, j \in 1 .. Len(t) : t[i] = t[j] => i = j
      BY <3>2, <3>3, TrailGrows
    <3> QED BY <3>1, <3>4
  <2>4. /\ tried' \in [Requests -> Seq(Channels)] /\ tried'[r] = t
        /\ \A q \in Requests \ {r} : tried'[q] = tried[q]
    BY <1>3, <1>4, <2>2, <2>3
  <2>5. /\ ctxChannel' \in [Requests -> Channels \cup {NoChannel}] /\ ctxChannel'[r] = c
        /\ \A q \in Requests \ {r} : ctxChannel'[q] = ctxChannel[q]
    BY <1>1, <1>4, <2>1 DEF TypeOK
  <2>6. /\ pc' \in [Requests -> PCs] /\ pc'[r] = "recall"
        /\ \A q \in Requests \ {r} : pc'[q] = pc[q]
    BY <1>1, <1>4 DEF TypeOK, PCs, Goto
  <2>7. TypeOK'
    BY <1>1, <1>2, <2>4, <2>5, <2>6 DEF TypeOK
  <2>8. Len(t) > 0 /\ Len(tried[r]) \in Nat
    BY <1>3, <2>3
  <2>9. ReqOK(r)'
    <3>1. Trail(r)'
      BY <1>1, <1>2, <1>4, <2>1, <2>3, <2>4, <2>5, <2>6, <2>8 DEF Trail
    <3>2. Held(r)'
      BY <1>1, <1>2, <1>4 DEF Held
    <3>3. Blame(r)'
      BY <1>1, <1>2, <2>6 DEF Blame, Pending, Fault
    <3> QED BY <3>1, <3>2, <3>3 DEF ReqOK
  <2>10. IInv'
    BY <1>2, <2>4, <2>5, <2>6, <2>7, <2>9, RelayFrame
  <2>11. ToEnabled
    <3>1. \A q \in Requests : Len(tried[q]) \in Nat
      BY <1>3
    <3> SUFFICES ASSUME NEW q \in Requests, Len(tried'[q]) > Len(tried[q])
                 PROVE  Allowed(q, tried'[q][Len(tried'[q])])
      BY DEF ToEnabled
    <3>2. q = r
      BY <2>4, <3>1
    <3> QED BY <2>1, <2>3, <2>4, <3>2 DEF Allowed
  <2> QED BY <2>10, <2>11
<1>5. ASSUME Goto(r, "done"), UNCHANGED <<ctxChannel, tried>>
      PROVE  IInv' /\ ToEnabled
  <2>1. /\ pc' \in [Requests -> PCs] /\ pc'[r] = "done"
        /\ \A q \in Requests \ {r} : pc'[q] = pc[q]
    BY <1>1, <1>5 DEF TypeOK, PCs, Goto
  <2>2. TypeOK'
    BY <1>1, <1>2, <1>5, <2>1 DEF TypeOK
  <2>3. Trail(r)'
    BY <1>1, <1>2, <1>5, <2>1 DEF Trail
  <2>4. Held(r)' /\ Blame(r)'
    BY <1>1, <1>2, <1>5, <2>1 DEF Held, Blame, Pending, Fault
  <2>5. ReqOK(r)'
    BY <2>3, <2>4 DEF ReqOK
  <2>6. IInv'
    BY <1>2, <1>5, <2>1, <2>2, <2>5, RelayFrame
  <2> QED BY <1>1, <1>5, <2>6, NothingTried
<1> QED BY <1>4, <1>5 DEF SelectRetry

LEMMA ReattemptHolds ==
  ASSUME IInv, NEW r \in Requests, Reattempt(r)
  PROVE  IInv' /\ ToEnabled
<1>1. TypeOK /\ Trail(r) /\ Blame(r) /\ Held(r) /\ pc[r] = "recall"
  BY DEF IInv, ReqOK, Reattempt
<1>2. PICK e \in ErrorKinds \cup {"nil"} :
        /\ Answered(r, e)
        /\ pc' = [pc EXCEPT ![r] = IF e = "nil" THEN "done" ELSE "record"]
  BY RoutingAssumption DEF Reattempt, Goto
<1>3. /\ memoryCache' = memoryCache /\ status' = status /\ enabled' = enabled
      /\ suspend' = suspend /\ cache' = cache /\ changes' = changes
      /\ wpc' = wpc /\ target' = target /\ wanted' = wanted /\ loaded' = loaded
      /\ since' = since /\ behind' = behind /\ torn' = torn
      /\ sticky' = sticky /\ stickyLeft' = stickyLeft /\ pin' = pin /\ bound' = bound
      /\ channelId' = channelId /\ ctxChannel' = ctxChannel /\ failed' = failed
      /\ left' = left /\ wait' = wait /\ tried' = tried /\ blamed' = blamed
      /\ firstErr' = firstErr /\ tasks' = tasks /\ crashed' = crashed
  BY DEF Reattempt, db, writing, session
<1>4. ctxChannel[r] \in Channels
  BY <1>1 DEF Trail
<1>5. /\ bizErr' \in [Requests -> ErrorKinds \cup {"nil"}]
      /\ faults' \subseteq Requests \X Channels \X ErrorKinds
      /\ faults \subseteq faults'
      /\ e # "nil" => \E f \in faults' : f[1] = r /\ f[2] = ctxChannel[r]
  BY <1>1, <1>2, <1>4, AnsweredTypes
<1>6. /\ pc' \in [Requests -> PCs] /\ pc'[r] = (IF e = "nil" THEN "done" ELSE "record")
      /\ \A q \in Requests \ {r} : pc'[q] = pc[q]
  BY <1>1, <1>2 DEF TypeOK, PCs
<1>7. TypeOK'
  BY <1>1, <1>3, <1>5, <1>6 DEF TypeOK
<1>8. ReqOK(r)'
  <2>1. Trail(r)'
    BY <1>1, <1>3, <1>6 DEF Trail
  <2>2. Held(r)'
    BY <1>1, <1>3, <1>6 DEF Held
  <2>3. e # "nil" => Fault(r, ctxChannel[r])'
    BY <1>3, <1>5 DEF Fault
  <2>4. Pending(r)' => channelId'[r] \in Channels /\ Fault(r, channelId[r])'
    BY <1>1, <1>3, <1>5 DEF Blame, Pending, Fault
  <2>5. Blame(r)'
    BY <1>3, <1>6, <2>3, <2>4 DEF Blame
  <2> QED BY <2>1, <2>2, <2>5 DEF ReqOK
<1>9. IInv'
  BY <1>3, <1>5, <1>6, <1>7, <1>8, RelayFrame
<1> QED BY <1>1, <1>3, <1>9, NothingTried

LEMMA RecordFailureHolds ==
  ASSUME IInv, NEW r \in Requests, RecordFailure(r)
  PROVE  IInv' /\ ToEnabled
<1>1. TypeOK /\ Trail(r) /\ Blame(r) /\ Held(r) /\ pc[r] = "record"
  BY DEF IInv, ReqOK, RecordFailure
<1>2. /\ channelId' = [channelId EXCEPT ![r] = ctxChannel[r]]
      /\ failed' = [failed EXCEPT ![r] = @ \cup {ctxChannel[r]}]
      /\ left' = [left EXCEPT ![r] = @ - 1]
      /\ Spawn(r) /\ pc' = [pc EXCEPT ![r] = "retry"]
  BY DEF RecordFailure, Goto
<1>3. /\ memoryCache' = memoryCache /\ status' = status /\ enabled' = enabled
      /\ suspend' = suspend /\ cache' = cache /\ changes' = changes
      /\ wpc' = wpc /\ target' = target /\ wanted' = wanted /\ loaded' = loaded
      /\ since' = since /\ behind' = behind /\ torn' = torn
      /\ sticky' = sticky /\ stickyLeft' = stickyLeft /\ pin' = pin /\ bound' = bound
      /\ ctxChannel' = ctxChannel /\ wait' = wait /\ tried' = tried /\ blamed' = blamed
      /\ firstErr' = firstErr /\ bizErr' = bizErr /\ faults' = faults /\ crashed' = crashed
  BY DEF RecordFailure, db, writing, session, audit
<1>4. /\ ctxChannel[r] \in Channels /\ left[r] > 0 /\ left[r] \in Nat
      /\ Len(tried[r]) \in Nat /\ tried[r][Len(tried[r])] = ctxChannel[r]
      /\ \A i \in 1 .. Len(tried[r]) - 1 : tried[r][i] \in failed[r]
      /\ Fault(r, ctxChannel[r])
  BY <1>1 DEF Trail, Blame, TypeOK
<1>5. tasks' \subseteq Requests \X Nat /\ \A t \in tasks' : t \in tasks \/ t[1] = r
  BY <1>1, <1>2, SpawnTypes
<1>6. /\ pc' \in [Requests -> PCs] /\ pc'[r] = "retry"
      /\ \A q \in Requests \ {r} : pc'[q] = pc[q]
  BY <1>1, <1>2 DEF TypeOK, PCs
<1>7. /\ channelId' \in [Requests -> Channels \cup {NoChannel}]
      /\ channelId'[r] = ctxChannel[r]
      /\ \A q \in Requests \ {r} : channelId'[q] = channelId[q]
  BY <1>1, <1>2, <1>4 DEF TypeOK
<1>8. /\ failed' \in [Requests -> SUBSET Channels]
      /\ failed'[r] = failed[r] \cup {ctxChannel[r]}
      /\ \A q \in Requests \ {r} : failed'[q] = failed[q]
  BY <1>1, <1>2, <1>4 DEF TypeOK
<1>9. left' \in [Requests -> Nat] /\ \A q \in Requests \ {r} : left'[q] = left[q]
  BY <1>1, <1>2, <1>4 DEF TypeOK
<1>10. TypeOK'
  BY <1>1, <1>3, <1>5, <1>6, <1>7, <1>8, <1>9 DEF TypeOK
<1>11. ReqOK(r)'
  <2>1. \A i \in 1 .. Len(tried[r]) : i \in 1 .. Len(tried[r]) - 1 \/ i = Len(tried[r])
    BY <1>4
  <2>2. \A i \in 1 .. Len(tried[r]) : tried[r][i] \in failed'[r]
    BY <1>4, <1>8, <2>1
  <2>3. Trail(r)'
    BY <1>1, <1>3, <1>6, <2>2 DEF Trail
  <2>4. Held(r)'
    BY <1>1, <1>3 DEF Held
  <2>5. Fault(r, channelId[r])'
    BY <1>3, <1>4, <1>7 DEF Fault
  <2>6. Blame(r)'
    BY <1>4, <1>6, <1>7, <2>5 DEF Blame
  <2> QED BY <2>3, <2>4, <2>6 DEF ReqOK
<1>12. IInv'
  BY <1>3, <1>5, <1>6, <1>7, <1>8, <1>9, <1>10, <1>11, RelayFrame
<1> QED BY <1>1, <1>3, <1>12, NothingTried

----------------------------------------------------------------------------
(* The error goroutines and the environment *)

\* A step that leaves the requests alone.
LEMMA RequestsKept ==
  ASSUME IInv, TypeOK', Listed', BlamedFailed', faults' = faults, tasks' \subseteq tasks,
         pc' = pc, pin' = pin, bound' = bound, tried' = tried, channelId' = channelId,
         ctxChannel' = ctxChannel, firstErr' = firstErr, failed' = failed, left' = left
  PROVE  IInv' /\ ToEnabled
<1>1. \A q \in Requests : ReqOK(q)'
  <2> TAKE q \in Requests
  <2>1. Pending(q)' => Pending(q)
    BY DEF Pending
  <2>2. ReqOK(q)
    BY DEF IInv
  <2> QED BY <2>1, <2>2, OtherKept
<1> QED BY <1>1, NothingTried DEF IInv

\* The types of what the workers read and write.
WorkersType ==
  /\ status \in [Channels -> {"enabled", "manual", "auto"}]
  /\ enabled \in [Channels -> BOOLEAN] /\ cache \subseteq Channels
  /\ wpc \in [Workers -> Stages] /\ target \in [Workers -> Channels \cup {NoChannel}]
  /\ wanted \in [Workers -> {"enabled", "manual", "auto"}]
  /\ loaded \in [Workers -> SUBSET Channels] /\ since \in [Workers -> SUBSET Channels]
  /\ behind \subseteq Channels /\ torn \subseteq Channels

\* The call of UpdateChannelStatusById: a second writer of a channel tears it.
LEMMA CallHolds ==
  ASSUME TypeOK, Listed, NEW w \in Workers, NEW c \in Channels,
         NEW s \in {"enabled", "manual", "auto"}, UpdateChannelStatus(w, c, s)
  PROVE  WorkersType' /\ Listed'
<1>1. /\ wpc[w] = "idle" /\ wpc' = [wpc EXCEPT ![w] = "abilities"]
      /\ target' = [target EXCEPT ![w] = c] /\ wanted' = [wanted EXCEPT ![w] = s]
      /\ status' = status /\ enabled' = enabled /\ cache' = cache
      /\ loaded' = loaded /\ since' = since /\ behind' = behind
  BY DEF UpdateChannelStatus
<1>2. torn \subseteq torn' /\ torn' \subseteq Channels
  BY DEF UpdateChannelStatus, TypeOK
<1>3. c \notin torn' => \A v \in Workers : ~Writer(v, c)
  BY DEF UpdateChannelStatus
<1>4. /\ wpc' \in [Workers -> Stages] /\ wpc'[w] = "abilities"
      /\ \A v \in Workers \ {w} : wpc'[v] = wpc[v]
  BY <1>1 DEF TypeOK, Stages
<1>5. /\ target' \in [Workers -> Channels \cup {NoChannel}] /\ target'[w] = c
      /\ \A v \in Workers \ {w} : target'[v] = target[v]
  BY <1>1 DEF TypeOK
<1>6. /\ wanted' \in [Workers -> {"enabled", "manual", "auto"}]
      /\ \A v \in Workers \ {w} : wanted'[v] = wanted[v]
  BY <1>1 DEF TypeOK
<1>7. WorkersType'
  BY <1>1, <1>2, <1>4, <1>5, <1>6 DEF WorkersType, TypeOK
<1>8. Cached'
  BY <1>1, <1>4 DEF Listed, Cached
<1>9. Busy'
  BY <1>4, <1>5 DEF Listed, Busy
<1>10. ASSUME NEW d \in Channels, d \notin torn' PROVE Row(d)'
  <2>1. Row(d)
    BY <1>2, <1>10 DEF Listed, Rows
  <2>2. \A v \in Workers \ {w} : Writer(v, d)' <=> Writer(v, d)
    BY <1>4, <1>5 DEF Writer
  <2>3. Writer(w, d)' => d = c
    BY <1>5 DEF Writer
  <2>4. \A v, u \in Workers : Writer(v, d)' /\ Writer(u, d)' => v = u
    BY <1>3, <1>10, <2>1, <2>2, <2>3 DEF Row
  <2>5. HalfWritten(d) => HalfWritten(d)'
    BY <1>1, <1>4, <1>5 DEF HalfWritten
  <2> QED BY <1>1, <1>4, <1>5, <1>6, <2>1, <2>4, <2>5 DEF Row
<1> QED BY <1>7, <1>8, <1>9, <1>10 DEF Listed, Rows

LEMMA ProcessHolds ==
  ASSUME IInv, NEW t \in tasks, ProcessChannelRelayError(t)
  PROVE  IInv' /\ ToEnabled
<1>1. TypeOK /\ Listed /\ BlamedFailed /\ tasks \subseteq Requests \X Nat
  BY DEF IInv, TypeOK
<1>2. PICK r \in Requests : r = t[1]
  BY <1>1
<1>3. PICK e \in ErrorKinds \cup {"nil"} : e = bizErr[r]
  BY <1>1 DEF TypeOK
<1>4. Pending(r)
  BY <1>2 DEF Pending
<1>5. PICK c \in Channels : c = channelId[r] /\ Fault(r, c)
  BY <1>4 DEF IInv, ReqOK, Blame
<1>6. /\ memoryCache' = memoryCache /\ sticky' = sticky /\ stickyLeft' = stickyLeft
      /\ pc' = pc /\ pin' = pin /\ bound' = bound /\ channelId' = channelId
      /\ bizErr' = bizErr /\ ctxChannel' = ctxChannel /\ firstErr' = firstErr
      /\ failed' = failed /\ left' = left /\ wait' = wait /\ tried' = tried
      /\ faults' = faults /\ tasks' = tasks \ {t}
  BY DEF ProcessChannelRelayError, session, request
<1>7. /\ \/ UNCHANGED <<status, enabled, cache, wpc, target, wanted, loaded, since, behind, torn>>
         \/ DisableChannel(c)
      /\ suspend' = suspend \/ \E x \in {"rate", "server", "auth"} : SuspendAbility(c, x)
      /\ blamed' = blamed \/ (e # "nil" /\ blamed' = blamed \cup {<<r, c, e>>})
      /\ changes' = changes /\ crashed' \in {crashed, TRUE}
  BY <1>2, <1>3, <1>5 DEF ProcessChannelRelayError, db, writing
<1>8. suspend' \in [Channels -> Nat]
  <2>1. CASE suspend' = suspend
    BY <1>1, <2>1 DEF TypeOK
  <2>2. CASE \E x \in {"rate", "server", "auth"} : SuspendAbility(c, x)
    <3>1. PICK n \in Nat : suspend' = [suspend EXCEPT ![c] = n]
      BY <2>2, RoutingAssumption DEF SuspendAbility
    <3> QED BY <1>1, <3>1 DEF TypeOK
  <2> QED BY <1>7, <2>1, <2>2
<1>9. WorkersType' /\ Listed'
  <2>1. CASE UNCHANGED <<status, enabled, cache, wpc, target, wanted, loaded, since, behind, torn>>
    <3>1. Listed'
      BY <1>1, <2>1, ListedKept
    <3> QED BY <1>1, <2>1, <3>1 DEF TypeOK, WorkersType
  <2>2. CASE DisableChannel(c)
    BY <1>1, <2>2, CallHolds DEF DisableChannel
  <2> QED BY <1>7, <2>1, <2>2
<1>10. blamed' \subseteq Requests \X Channels \X ErrorKinds /\ BlamedFailed'
  <2>1. CASE blamed' = blamed
    BY <1>1, <1>6, <2>1, BlameKept DEF TypeOK
  <2>2. CASE e # "nil" /\ blamed' = blamed \cup {<<r, c, e>>}
    <3>1. PICK b : b = <<r, c, e>>
      OBVIOUS
    <3>2. b \in Requests \X Channels \X ErrorKinds /\ b[1] = r /\ b[2] = c
      BY <2>2, <3>1
    <3>3. blamed' = blamed \cup {b}
      BY <2>2, <3>1
    <3>4. BlamedFailed'
      BY <1>1, <1>5, <1>6, <3>2, <3>3 DEF BlamedFailed, Fault
    <3> QED BY <1>1, <3>2, <3>3, <3>4 DEF TypeOK
  <2> QED BY <1>7, <2>1, <2>2
<1>11. TypeOK'
  BY <1>1, <1>6, <1>7, <1>8, <1>9, <1>10 DEF TypeOK, WorkersType
<1> QED BY <1>6, <1>9, <1>10, <1>11, RequestsKept

\* A step of a worker leaves the requests alone.
LEMMA WorkersOnly ==
  ASSUME IInv, WorkersType', Listed', changes' \in 0..MaxChanges,
         UNCHANGED <<memoryCache, suspend, sticky, stickyLeft>>,
         UNCHANGED <<pc, pin, bound, channelId, bizErr, ctxChannel, firstErr, failed, left, wait>>,
         UNCHANGED <<tasks, tried, faults, blamed, crashed>>
  PROVE  IInv' /\ ToEnabled
<1>1. TypeOK'
  BY DEF IInv, TypeOK, WorkersType
<1>2. BlamedFailed'
  BY BlameKept DEF IInv
<1> QED BY <1>1, <1>2, RequestsKept

LEMMA SetStatusHolds ==
  ASSUME IInv, NEW w \in Workers, NEW c \in Channels, NEW s \in {"enabled", "manual"},
         SetStatus(w, c, s)
  PROVE  IInv' /\ ToEnabled
<1>1. /\ UNCHANGED <<memoryCache, suspend, sticky, stickyLeft>>
      /\ UNCHANGED <<pc, pin, bound, channelId, bizErr, ctxChannel, firstErr, failed, left, wait>>
      /\ UNCHANGED <<tasks, tried, faults, blamed, crashed>>
  BY DEF SetStatus, session, request, audit
<1>2. WorkersType' /\ Listed'
  BY CallHolds DEF IInv, SetStatus
<1>3. changes' \in 0..MaxChanges
  BY RoutingAssumption DEF IInv, SetStatus, TypeOK
<1> QED BY <1>1, <1>2, <1>3, WorkersOnly

LEMMA WriteAbilitiesHolds ==
  ASSUME IInv, NEW w \in Workers, WriteAbilities(w)
  PROVE  IInv' /\ ToEnabled
<1>1. /\ UNCHANGED <<memoryCache, suspend, sticky, stickyLeft, changes>>
      /\ UNCHANGED <<pc, pin, bound, channelId, bizErr, ctxChannel, firstErr, failed, left, wait>>
      /\ UNCHANGED <<tasks, tried, faults, blamed, crashed>>
      /\ status' = status /\ cache' = cache /\ target' = target /\ wanted' = wanted
      /\ loaded' = loaded /\ since' = since /\ behind' = behind
      /\ wpc[w] = "abilities" /\ wpc' = [wpc EXCEPT ![w] = "status"]
  BY DEF WriteAbilities, session, request, audit
<1>2. TypeOK /\ Listed /\ changes \in 0..MaxChanges
  BY DEF IInv, TypeOK
<1>3. PICK c \in Channels : c = target[w]
  BY <1>1, <1>2 DEF Listed, Busy
<1>4. /\ wpc' \in [Workers -> Stages] /\ wpc'[w] = "status"
      /\ \A v \in Workers \ {w} : wpc'[v] = wpc[v]
  BY <1>1, <1>2 DEF TypeOK, Stages
<1>5. /\ enabled' \in [Channels -> BOOLEAN] /\ \A d \in Channels \ {c} : enabled'[d] = enabled[d]
      /\ torn \subseteq torn' /\ torn' \subseteq Channels
      /\ c \in torn' \/ (enabled'[c] <=> wanted[w] = "enabled")
  <2>1. CASE /\ enabled' = [enabled EXCEPT ![target[w]] = wanted[w] = "enabled"]
             /\ UNCHANGED torn
    BY <1>2, <1>3, <2>1 DEF TypeOK
  <2>2. CASE torn' = torn \cup {target[w]} /\ UNCHANGED enabled
    BY <1>2, <1>3, <2>2 DEF TypeOK
  <2> QED BY <2>1, <2>2 DEF WriteAbilities
<1>6. WorkersType'
  BY <1>1, <1>2, <1>4, <1>5 DEF WorkersType, TypeOK
<1>7. Cached'
  BY <1>1, <1>2, <1>4 DEF Listed, Cached
<1>8. Busy'
  BY <1>1, <1>2, <1>3, <1>4 DEF Listed, Busy
<1>9. ASSUME NEW d \in Channels, d \notin torn' PROVE Row(d)'
  <2>1. Row(d)
    BY <1>2, <1>5, <1>9 DEF Listed, Rows
  <2>2. \A v \in Workers : Writer(v, d)' <=> Writer(v, d)
    BY <1>1, <1>4 DEF Writer
  <2>3. \A v, u \in Workers : Writer(v, d)' /\ Writer(u, d)' => v = u
    BY <2>1, <2>2 DEF Row
  <2>4. CASE d = c
    <3>1. HalfWritten(d)'
      BY <1>1, <1>3, <1>4, <2>4 DEF HalfWritten
    <3>2. Writer(w, d)
      BY <1>1, <1>3, <2>4 DEF Writer
    <3>3. \A v \in Workers : target[v] = d /\ wpc'[v] = "status" => v = w
      BY <1>4, <2>1, <3>2 DEF Row, Writer
    <3> QED BY <1>1, <1>5, <1>9, <2>3, <2>4, <3>1, <3>3 DEF Row
  <2>5. CASE d # c
    <3>1. HalfWritten(d) => HalfWritten(d)'
      BY <1>1, <1>4 DEF HalfWritten
    <3> QED BY <1>1, <1>3, <1>4, <1>5, <2>1, <2>3, <2>5, <3>1 DEF Row
  <2> QED BY <2>4, <2>5
<1>10. Listed'
  BY <1>7, <1>8, <1>9 DEF Listed, Rows
<1> QED BY <1>1, <1>2, <1>6, <1>10, WorkersOnly

LEMMA WriteStatusHolds ==
  ASSUME IInv, NEW w \in Workers, WriteStatus(w)
  PROVE  IInv' /\ ToEnabled
<1>1. /\ UNCHANGED <<memoryCache, suspend, sticky, stickyLeft, changes>>
      /\ UNCHANGED <<pc, pin, bound, channelId, bizErr, ctxChannel, firstErr, failed, left, wait>>
      /\ UNCHANGED <<tasks, tried, faults, blamed, crashed>>
      /\ enabled' = enabled /\ cache' = cache /\ loaded' = loaded /\ wpc[w] = "status"
  BY DEF WriteStatus, session, request, audit
<1>2. TypeOK /\ Listed /\ changes \in 0..MaxChanges
  BY DEF IInv, TypeOK
<1>3. PICK c \in Channels : c = target[w]
  BY <1>1, <1>2 DEF Listed, Busy
<1>4. CASE /\ status' = [status EXCEPT ![target[w]] = wanted[w]]
           /\ wpc' = [wpc EXCEPT ![w] = "load"]
           /\ since' = [v \in Workers |-> IF wpc[v] = "install" THEN since[v] \cup {target[w]}
                                          ELSE since[v]]
           /\ behind' = behind \cup {target[w]}
           /\ UNCHANGED <<target, wanted, torn>>
  <2>1. /\ wpc' \in [Workers -> Stages] /\ wpc'[w] = "load"
        /\ \A v \in Workers \ {w} : wpc'[v] = wpc[v]
    BY <1>2, <1>4 DEF TypeOK, Stages
  <2>2. /\ status' \in [Channels -> {"enabled", "manual", "auto"}] /\ status'[c] = wanted[w]
        /\ \A d \in Channels \ {c} : status'[d] = status[d]
    BY <1>2, <1>3, <1>4 DEF TypeOK
  <2>3. /\ since' \in [Workers -> SUBSET Channels]
        /\ \A v \in Workers : since[v] \subseteq since'[v] /\ (wpc[v] = "install" => c \in since'[v])
    BY <1>2, <1>3, <1>4 DEF TypeOK
  <2>4. WorkersType'
    BY <1>1, <1>2, <1>3, <1>4, <2>1, <2>2, <2>3 DEF WorkersType, TypeOK
  <2>5. Cached'
    <3>1. \A d \in cache : d \in behind' \/ status'[d] = "enabled"
      BY <1>2, <1>3, <1>4, <2>2 DEF Listed, Cached, TypeOK
    <3>2. ASSUME NEW v \in Workers, wpc'[v] = "install", NEW d \in loaded[v]
          PROVE  d \in since'[v] \/ status'[d] = "enabled"
      <4>1. wpc[v] = "install" /\ d \in Channels
        BY <1>2, <2>1, <3>2 DEF TypeOK
      <4>2. CASE d = c
        BY <2>3, <4>1, <4>2
      <4>3. CASE d # c
        BY <1>2, <2>2, <2>3, <4>1, <4>3 DEF Listed, Cached
      <4> QED BY <4>2, <4>3
    <3> QED BY <1>1, <3>1, <3>2 DEF Cached
  <2>6. Busy'
    BY <1>2, <1>4, <2>1 DEF Listed, Busy
  <2>7. ASSUME NEW d \in Channels, d \notin torn' PROVE Row(d)'
    <3>1. Row(d)
      BY <1>2, <1>4, <2>7 DEF Listed, Rows
    <3>2. \A v \in Workers : Writer(v, d)' => Writer(v, d)
      BY <1>4, <2>1 DEF Writer
    <3>3. \A v, u \in Workers : Writer(v, d)' /\ Writer(u, d)' => v = u
      BY <3>1, <3>2 DEF Row
    <3>4. CASE d = c
      <4>1. enabled[d] => wanted[w] = "enabled"
        BY <1>1, <1>3, <3>1, <3>4 DEF Row
      <4> QED BY <1>1, <1>4, <2>1, <2>2, <3>1, <3>3, <3>4, <4>1 DEF Row
    <3>5. CASE d # c
      <4>1. HalfWritten(d) => HalfWritten(d)'
        BY <1>3, <1>4, <2>1, <3>5 DEF HalfWritten
      <4> QED BY <1>1, <1>4, <2>1, <2>2, <3>1, <3>3, <3>5, <4>1 DEF Row
    <3> QED BY <3>4, <3>5
  <2>8. Listed'
    BY <2>5, <2>6, <2>7 DEF Listed, Rows
  <2> QED BY <1>1, <1>2, <2>4, <2>8, WorkersOnly
<1>5. CASE torn' = torn \cup {target[w]} /\ Return(w) /\ UNCHANGED <<status, since, behind>>
  <2>1. /\ wpc' \in [Workers -> Stages] /\ wpc'[w] = "idle"
        /\ \A v \in Workers \ {w} : wpc'[v] = wpc[v]
    BY <1>2, <1>5 DEF TypeOK, Stages, Return
  <2>2. /\ target' \in [Workers -> Channels \cup {NoChannel}]
        /\ wanted' \in [Workers -> {"enabled", "manual", "auto"}]
        /\ \A v \in Workers \ {w} : target'[v] = target[v] /\ wanted'[v] = wanted[v]
    BY <1>2, <1>5 DEF TypeOK, Return
  <2>3. torn \subseteq torn' /\ torn' \subseteq Channels /\ c \in torn'
    BY <1>2, <1>3, <1>5 DEF TypeOK
  <2>4. WorkersType'
    BY <1>1, <1>2, <1>5, <2>1, <2>2, <2>3 DEF WorkersType, TypeOK
  <2>5. Cached'
    BY <1>1, <1>2, <1>5, <2>1 DEF Listed, Cached
  <2>6. Busy'
    BY <1>2, <2>1, <2>2 DEF Listed, Busy
  <2>7. ASSUME NEW d \in Channels, d \notin torn' PROVE Row(d)'
    <3>1. Row(d) /\ d # c
      BY <1>2, <2>3, <2>7 DEF Listed, Rows
    <3>2. \A v \in Workers : Writer(v, d)' => Writer(v, d)
      BY <2>1, <2>2 DEF Writer
    <3>3. \A v, u \in Workers : Writer(v, d)' /\ Writer(u, d)' => v = u
      BY <3>1, <3>2 DEF Row
    <3>4. HalfWritten(d) => HalfWritten(d)'
      BY <1>3, <2>1, <2>2, <3>1 DEF HalfWritten
    <3> QED BY <1>1, <1>5, <2>1, <2>2, <3>1, <3>3, <3>4 DEF Row
  <2>8. Listed'
    BY <2>5, <2>6, <2>7 DEF Listed, Rows
  <2> QED BY <1>1, <1>2, <2>4, <2>8, WorkersOnly
<1> QED BY <1>4, <1>5 DEF WriteStatus

LEMMA LoadChannelsHolds ==
  ASSUME IInv, NEW w \in Workers, LoadChannels(w)
  PROVE  IInv' /\ ToEnabled
<1>1. /\ UNCHANGED <<memoryCache, suspend, sticky, stickyLeft, changes>>
      /\ UNCHANGED <<pc, pin, bound, channelId, bizErr, ctxChannel, firstErr, failed, left, wait>>
      /\ UNCHANGED <<tasks, tried, faults, blamed, crashed>>
      /\ UNCHANGED <<status, enabled, cache, target, wanted, behind, torn>>
      /\ wpc[w] \in {"load", "idle"} /\ wpc' = [wpc EXCEPT ![w] = "install"]
      /\ loaded' = [loaded EXCEPT ![w] = FreshCache] /\ since' = [since EXCEPT ![w] = {}]
  BY DEF LoadChannels, session, request, audit
<1>2. TypeOK /\ Listed /\ changes \in 0..MaxChanges
  BY DEF IInv, TypeOK
<1>3. /\ wpc' \in [Workers -> Stages] /\ wpc'[w] = "install"
      /\ \A v \in Workers \ {w} : wpc'[v] = wpc[v]
  BY <1>1, <1>2 DEF TypeOK, Stages
<1>4. FreshCache \subseteq Channels /\ \A c \in FreshCache : status[c] = "enabled"
  BY DEF FreshCache
<1>5. /\ loaded' \in [Workers -> SUBSET Channels] /\ loaded'[w] = FreshCache
      /\ since' \in [Workers -> SUBSET Channels]
      /\ \A v \in Workers \ {w} : loaded'[v] = loaded[v] /\ since'[v] = since[v]
  BY <1>1, <1>2, <1>4 DEF TypeOK
<1>6. WorkersType'
  BY <1>1, <1>2, <1>3, <1>5 DEF WorkersType, TypeOK
<1>7. Cached'
  BY <1>1, <1>2, <1>3, <1>4, <1>5 DEF Listed, Cached
<1>8. Busy'
  BY <1>1, <1>2, <1>3 DEF Listed, Busy
<1>9. Rows'
  <2>1. \A v \in Workers, d \in Channels : Writer(v, d)' <=> Writer(v, d)
    BY <1>1, <1>3 DEF Writer
  <2>2. \A d \in Channels : HalfWritten(d)' <=> HalfWritten(d)
    BY <1>1, <1>3 DEF HalfWritten
  <2> QED BY <1>1, <1>2, <1>3, <2>1, <2>2 DEF Listed, Rows, Row
<1>10. Listed'
  BY <1>7, <1>8, <1>9 DEF Listed
<1> QED BY <1>1, <1>2, <1>6, <1>10, WorkersOnly

LEMMA InstallCacheHolds ==
  ASSUME IInv, NEW w \in Workers, InstallCache(w)
  PROVE  IInv' /\ ToEnabled
<1>1. /\ UNCHANGED <<memoryCache, suspend, sticky, stickyLeft, changes>>
      /\ UNCHANGED <<pc, pin, bound, channelId, bizErr, ctxChannel, firstErr, failed, left, wait>>
      /\ UNCHANGED <<tasks, tried, faults, blamed, crashed>>
      /\ UNCHANGED <<status, enabled, torn>> /\ wpc[w] = "install" /\ Return(w)
      /\ cache' = loaded[w] /\ behind' = since[w]
      /\ loaded' = [loaded EXCEPT ![w] = {}] /\ since' = [since EXCEPT ![w] = {}]
  BY DEF InstallCache, session, request, audit
<1>2. TypeOK /\ Listed /\ changes \in 0..MaxChanges
  BY DEF IInv, TypeOK
<1>3. /\ wpc' \in [Workers -> Stages] /\ wpc'[w] = "idle"
      /\ \A v \in Workers \ {w} : wpc'[v] = wpc[v]
  BY <1>1, <1>2 DEF TypeOK, Stages, Return
<1>4. /\ target' \in [Workers -> Channels \cup {NoChannel}]
      /\ wanted' \in [Workers -> {"enabled", "manual", "auto"}]
      /\ \A v \in Workers \ {w} : target'[v] = target[v] /\ wanted'[v] = wanted[v]
  BY <1>1, <1>2 DEF TypeOK, Return
<1>5. /\ loaded' \in [Workers -> SUBSET Channels] /\ since' \in [Workers -> SUBSET Channels]
      /\ \A v \in Workers \ {w} : loaded'[v] = loaded[v] /\ since'[v] = since[v]
      /\ cache' \subseteq Channels /\ behind' \subseteq Channels
  BY <1>1, <1>2 DEF TypeOK
<1>6. WorkersType'
  BY <1>1, <1>2, <1>3, <1>4, <1>5 DEF WorkersType, TypeOK
<1>7. Cached'
  BY <1>1, <1>2, <1>3, <1>5 DEF Listed, Cached
<1>8. Busy'
  BY <1>2, <1>3, <1>4 DEF Listed, Busy
<1>9. Rows'
  <2>1. \A v \in Workers, d \in Channels : Writer(v, d)' <=> Writer(v, d)
    BY <1>1, <1>3, <1>4 DEF Writer
  <2>2. \A d \in Channels : HalfWritten(d)' <=> HalfWritten(d)
    BY <1>1, <1>3, <1>4 DEF HalfWritten
  <2>3. ASSUME NEW d \in Channels, Row(d) PROVE Row(d)'
    BY <1>1, <1>3, <1>4, <2>1, <2>2, <2>3 DEF Row
  <2> QED BY <1>1, <1>2, <2>3 DEF Listed, Rows
<1>10. Listed'
  BY <1>7, <1>8, <1>9 DEF Listed
<1> QED BY <1>1, <1>2, <1>6, <1>10, WorkersOnly

LEMMA TickHolds ==
  ASSUME IInv, Tick
  PROVE  IInv' /\ ToEnabled
<1>1. /\ UNCHANGED <<memoryCache, status, enabled, cache, changes, sticky>>
      /\ UNCHANGED <<wpc, target, wanted, loaded, since, behind, torn>>
      /\ UNCHANGED <<pc, pin, bound, channelId, bizErr, ctxChannel, firstErr, failed, left>>
      /\ UNCHANGED <<tasks, tried, faults, blamed, crashed>>
  BY DEF Tick, writing, audit
<1>2. \A n \in Nat : Down(n) \in Nat /\ Down(n) <= n
  BY DEF Down
<1>3. suspend' \in [Channels -> Nat] /\ wait' \in [Requests -> Nat]
  BY <1>2 DEF Tick, IInv, TypeOK
<1>4. stickyLeft' \in 0..StickyTTL
  BY RoutingAssumption DEF Tick, IInv, TypeOK, Down
<1>5. TypeOK'
  BY <1>1, <1>3, <1>4 DEF IInv, TypeOK
<1>6. Listed' /\ BlamedFailed'
  BY <1>1, BlameKept, ListedKept DEF IInv
<1> QED BY <1>1, <1>5, <1>6, RequestsKept

----------------------------------------------------------------------------
(* The theorems *)

LEMMA InitHolds == Init => IInv
<1> SUFFICES ASSUME Init PROVE IInv
  OBVIOUS
<1>1. TypeOK
  <2>1. suspend \in [Channels -> Nat]
    <3>1. PICK n \in Nat : n = Suspension["rate"]
      BY RoutingAssumption
    <3>2. suspend \in [Channels -> {0, n}]
      BY <3>1 DEF Init
    <3> QED BY <3>2
  <2>2. stickyLeft \in 0..StickyTTL
    BY RoutingAssumption DEF Init
  <2>3. pin \in [Requests -> {"none", "specific", "bound"}]
    BY RoutingAssumption DEF Init
  <2>4. tried \in [Requests -> Seq(Channels)]
    BY DEF Init
  <2>5. changes \in 0..MaxChanges
    BY RoutingAssumption DEF Init
  <2> QED BY <2>1, <2>2, <2>3, <2>4, <2>5 DEF Init, TypeOK, PCs, Stages
<1>2. Listed /\ BlamedFailed
  <2>1. \A w \in Workers : wpc[w] = "idle"
    BY DEF Init
  <2>2. Cached /\ Busy
    BY <2>1 DEF Init, Cached, Busy
  <2>3. Rows
    BY <2>1 DEF Init, Rows, Row, Writer
  <2> QED BY <2>2, <2>3 DEF Init, Listed, BlamedFailed
<1>3. ASSUME NEW q \in Requests PROVE ReqOK(q)
  <2>1. tried[q] = <<>> /\ Len(<<>>) = 0 /\ pc[q] = "new" /\ tasks = {}
    BY DEF Init
  <2>2. Trail(q)
    BY <2>1 DEF Init, Trail
  <2> QED BY <2>1, <2>2 DEF ReqOK, Blame, Held, Pending
<1> QED BY <1>1, <1>2, <1>3 DEF IInv

LEMMA NextHolds == IInv /\ [Next]_vars => IInv' /\ ToEnabled
<1> SUFFICES ASSUME IInv, [Next]_vars PROVE IInv' /\ ToEnabled
  OBVIOUS
<1>1. CASE UNCHANGED vars
  <2>1. /\ UNCHANGED <<memoryCache, status, enabled, suspend, cache, changes, sticky, stickyLeft>>
        /\ UNCHANGED <<wpc, target, wanted, loaded, since, behind, torn>>
        /\ UNCHANGED <<pc, pin, bound, channelId, bizErr, ctxChannel, firstErr, failed, left, wait>>
        /\ UNCHANGED <<tasks, tried, faults, blamed, crashed>>
    BY <1>1 DEF vars, db, writing, session, request, audit
  <2>2. TypeOK'
    BY <2>1 DEF IInv, TypeOK
  <2>3. Listed' /\ BlamedFailed'
    BY <2>1, BlameKept, ListedKept DEF IInv
  <2> QED BY <2>1, <2>2, <2>3, RequestsKept
<1>2. ASSUME NEW r \in Requests, Handle(r) PROVE IInv' /\ ToEnabled
  BY <1>2, DistributeBoundHolds, DistributeStickyHolds, DistributeSelectHolds,
     DistributeAgainHolds, FirstAttemptHolds, DecideHolds, SelectRetryHolds,
     ReattemptHolds, RecordFailureHolds DEF Handle
<1>3. CASE Process
  BY <1>3, ProcessHolds DEF Process
<1>4. CASE Environment
  BY <1>4, TickHolds, SetStatusHolds, DisconnectHolds DEF Environment
<1>5. ASSUME NEW w \in Workers, Work(w) PROVE IInv' /\ ToEnabled
  BY <1>5, WriteAbilitiesHolds, WriteStatusHolds, LoadChannelsHolds, InstallCacheHolds DEF Work
<1> QED BY <1>1, <1>2, <1>3, <1>4, <1>5 DEF Next

\* Whatever suspensions end, caches are rebuilt and channels come back between
\* its attempts, a request never goes to one channel twice, and one that is
\* held to a channel stays there unless the first answer was a 413 or unreadable.
THEOREM AttemptsTheorem == Spec => []AttemptsOnce
<1>1. IInv => AttemptsOnce
  <2> SUFFICES ASSUME IInv PROVE AttemptsOnce
    OBVIOUS
  <2>1. \A r \in Requests : DOMAIN tried[r] = 1 .. Len(tried[r])
    BY DEF IInv, TypeOK
  <2>2. NoRepeat
    BY <2>1 DEF IInv, ReqOK, Trail, NoRepeat
  <2>3. PinnedStays
    BY DEF IInv, ReqOK, Held, PinnedStays
  <2> QED BY <2>2, <2>3 DEF IInv, AttemptsOnce
<1> QED BY <1>1, InitHolds, NextHolds, PTL DEF Spec

\* processChannelRelayError, which reads channelId when it runs and not when it
\* was started, suspends or disables only channels that failed its request.
THEOREM BlameTheorem == Spec => []BlamedFailed
<1>1. IInv => BlamedFailed
  BY DEF IInv
<1> QED BY <1>1, InitHolds, NextHolds, PTL DEF Spec

\* Sticky sessions, bindings, the memory cache and the abilities may be older than
\* the status; an attempt goes to a channel that is disabled at that moment only by
\* a selection by priority, and only while the cache, or the abilities between the
\* writes of UpdateChannelStatusById or after a failed one, do not show it.
THEOREM DisabledTheorem == Spec => NeverToDisabled
<1>1. IInv /\ [Next]_vars =>
        [\A r \in Requests :
           Len(tried'[r]) > Len(tried[r])
             => LET c == tried'[r][Len(tried'[r])]
                IN  \/ status[c] = "enabled"
                    \/ Unknown(c) /\ (pin[r] = "none" \/ tried[r] # <<>>)]_vars
  BY NextHolds DEF ToEnabled, Allowed
<1> QED BY <1>1, InitHolds, NextHolds, PTL DEF Spec, NeverToDisabled

============================================================================
