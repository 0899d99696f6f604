--------------------------- MODULE ChannelRouting ---------------------------
(***************************************************************************)
(* How a relayed request finds a channel: the distributor (pinned channel, *)
(* response binding, sticky session, selection by priority, waiting for a  *)
(* suspended pool), the retry loop of Relay and the goroutines that        *)
(* process the error of every failed attempt by suspending the ability or  *)
(* disabling the channel.                                                  *)
(*                                                                         *)
(* One user, one group and one model, so that an ability is a channel.     *)
(* Times are what is left of them: suspend_until is the number of ticks    *)
(* until it has passed.  The closures given to GoCritical capture the      *)
(* variables channelId and bizErr of Relay, not their values.              *)
(*                                                                         *)
(* UpdateChannelStatusById writes the abilities, then the status, and then *)
(* rebuilds the cache; each write may fail, and several calls and rebuilds *)
(* may run at once.  The two queries of a rebuild are one step here;       *)
(* ChannelStatus has them apart.                                           *)
(***************************************************************************)
EXTENDS Integers, Sequences, FiniteSets

CONSTANTS
  Requests,      \* requests of one user for one model
  Workers,       \* goroutines in UpdateChannelStatusById or InitChannelCache
  Channels,      \* channels that have an ability for the group and model
  Priority,      \* channels.priority
  MaxTokens,     \* max_tokens of the channel's model config, 0 for no config
  Serves,        \* channels that support the requested endpoint
  Limited,       \* channels that have a rate limit
  RetryTimes,    \* config.RetryTimes
  AutoDisable,   \* config.AutomaticDisableChannelEnabled
  Suspension,    \* ticks of suspension for each class of error
  WaitMax,       \* config.ChannelPoolRecoveryWaitMax, in ticks
  StickyTTL,     \* config.StickySessionTimeoutSeconds, in ticks
  Pins,          \* how a request may be bound to a channel
  MaxChanges,    \* bound on changes of status by administrators
  Errors,        \* classes of errors that attempts may end with
  NoChannel

\* The classes that the code tells apart: 429; 413; 5xx; 5xx whose message
\* suggests a retry; 401/403; another 4xx; a 4xx that classifyRetryable-
\* UpstreamClientError accepts; the client's cancellation.
ErrorKinds == {"rate", "large", "server", "busy", "auth", "client", "reparse", "cancel"}

ASSUME RoutingAssumption ==
  /\ IsFiniteSet(Channels)
  /\ Priority \in [Channels -> Int] /\ MaxTokens \in [Channels -> Nat]
  /\ Serves \subseteq Channels /\ Limited \subseteq Channels
  /\ RetryTimes \in Nat /\ WaitMax \in Nat /\ StickyTTL \in Nat
  /\ AutoDisable \in BOOLEAN /\ MaxChanges \in Nat
  /\ Errors \subseteq ErrorKinds /\ Pins \subseteq {"none", "specific", "bound"}
  /\ Suspension \in [{"rate", "server", "auth"} -> Nat]
  /\ NoChannel \notin Channels

VARIABLES
  memoryCache,               \* config.MemoryCacheEnabled
  status, enabled, suspend,  \* channels.status, abilities.enabled and suspend_until
  cache,                     \* group2model2channels[group][model]
  sticky, stickyLeft,        \* the user's sticky session and its time to live
  pc, pin, bound,            \* a request, how it is bound and to which channel
  channelId, bizErr,         \* variables of Relay that its closures share
  ctxChannel,                \* ctxkey.ChannelId
  firstErr, failed, left, wait,   \* other variables of Relay and Distribute
  changes,                   \* changes of status asked for so far
  wpc, target, wanted,       \* a worker, the channel and status it is to write
  loaded,                    \* newGroup2model2channels of a worker's rebuild
  since, behind,             \* audit: channels whose status was written after that
                             \* rebuild's queries, or after those of the cache
  torn,                      \* audit: channels a write of which failed, or that two
                             \* workers wrote at once
  tasks,                     \* processChannelRelayError goroutines not yet run
  tried, faults, blamed, crashed  \* what really happened (audit only)

writing == <<wpc, target, wanted, loaded, since, behind, torn>>
db      == <<status, enabled, suspend, cache, changes, writing>>
session == <<sticky, stickyLeft>>
request == <<pc, pin, bound, channelId, bizErr, ctxChannel, firstErr, failed,
             left, wait>>
audit   == <<tried, faults, blamed, crashed>>
vars    == <<memoryCache, db, session, request, tasks, audit>>

PCs == {"new", "wait", "call", "decide", "retry", "recall", "record", "done"}

-----------------------------------------------------------------------------
(* Selection *)

Available(c) == enabled[c] /\ suspend[c] = 0

\* What InitChannelCache builds.
FreshCache == {c \in Channels : status[c] = "enabled" /\ Available(c)}

\* The channels a selection starts from: the memory cache, or a query of the
\* abilities, which does not look at channels.status.
View == IF memoryCache THEN cache ELSE {c \in Channels : Available(c)}

TopTier(S) == {c \in S : \A d \in S : Priority[d] <= Priority[c]}

\* ignoreFirstPriority: the tiers below the first.  The cache's version gives
\* up when the first priority is not positive.
LowerTiers(S) ==
  IF memoryCache /\ \E c \in TopTier(S) : Priority[c] <= 0
    THEN {} ELSE S \ TopTier(S)

\* tryLargerMaxTokens, which only the cache's version implements.
LargerMaxTokens(S, excluded) ==
  {c \in S : \/ ~memoryCache
             \/ MaxTokens[c] = 0
             \/ \A d \in excluded \cap View : MaxTokens[d] # MaxTokens[c]}

\* selectChannel of the distributor: candidates that are rate limited or do
\* not serve the endpoint are excluded one by one, so that the best of the
\* others remains.
Selectable(limited) == TopTier((View \cap Serves) \ limited)

\* The retry loop's choice; its strategy follows the first error.
RetryCandidates_KeepFailed(r) == TopTier(View)
RetryCandidates(r) ==
  LET S == View \ failed[r]
  IN  CASE firstErr[r] = "large" -> TopTier(LargerMaxTokens(S, failed[r]))
        [] firstErr[r] = "rate"  -> IF LowerTiers(S) # {} THEN LowerTiers(S) ELSE TopTier(S)
        [] OTHER                 -> TopTier(S)

-----------------------------------------------------------------------------
\* Earlier requests of the user may have left a sticky session and suspensions.
Init ==
  /\ memoryCache \in BOOLEAN
  /\ status = [c \in Channels |-> "enabled"]
  /\ enabled = [c \in Channels |-> TRUE]
  /\ suspend \in [Channels -> {0, Suspension["rate"]}]
  /\ cache = Channels /\ changes = 0
  /\ wpc = [w \in Workers |-> "idle"] /\ target = [w \in Workers |-> NoChannel]
  /\ wanted = [w \in Workers |-> "enabled"] /\ loaded = [w \in Workers |-> {}]
  /\ since = [w \in Workers |-> {}] /\ behind = {} /\ torn = {}
  /\ sticky \in Channels \cup {NoChannel}
  /\ stickyLeft = IF sticky = NoChannel THEN 0 ELSE StickyTTL
  /\ pc = [r \in Requests |-> "new"] /\ pin \in [Requests -> Pins]
  /\ bound \in [Requests -> Channels \cup {NoChannel}]
  /\ \A r \in Requests : (bound[r] = NoChannel) <=> (pin[r] = "none")
  /\ channelId = [r \in Requests |-> NoChannel]
  /\ ctxChannel = [r \in Requests |-> NoChannel]
  /\ bizErr = [r \in Requests |-> "nil"] /\ firstErr = [r \in Requests |-> "nil"]
  /\ failed = [r \in Requests |-> {}] /\ left = [r \in Requests |-> 0]
  /\ wait = [r \in Requests |-> 0]
  /\ tasks = {}
  /\ tried = [r \in Requests |-> <<>>] /\ faults = {} /\ blamed = {}
  /\ crashed = FALSE

Goto(r, next) == pc' = [pc EXCEPT ![r] = next]

\* SetupContextForSelectedChannel, and Relay reads the channel's id.
Forward(r, c) ==
  /\ Goto(r, "call")
  /\ ctxChannel' = [ctxChannel EXCEPT ![r] = c]
  /\ channelId' = [channelId EXCEPT ![r] = c]
  /\ tried' = [tried EXCEPT ![r] = Append(@, c)]

Reject(r) == /\ Goto(r, "done")
             /\ UNCHANGED <<ctxChannel, channelId, tried>>

\* The end of Distribute for an unbound request: the limit is looked at once
\* more, the context is set up and the sticky session written.
Finish(r, c) ==
  \/ Forward(r, c) /\ sticky' = c /\ stickyLeft' = StickyTTL
  \/ c \in Limited /\ Reject(r) /\ UNCHANGED session

-----------------------------------------------------------------------------
(* Distribute *)

\* A channel that the token or an earlier response names.  A response's
\* channel that is rate limited is given up and the request is no longer bound.
DistributeBound(r) ==
  /\ pc[r] = "new" /\ pin[r] # "none"
  /\ \E limited \in SUBSET Limited :
       LET c == bound[r]
           ok == status[c] = "enabled" /\ c \in Serves
       IN \/ /\ ok /\ c \notin limited
             /\ Forward(r, c) /\ UNCHANGED <<pin, bound>>
          \/ /\ ~ok \/ (pin[r] = "specific" /\ c \in limited)
             /\ Reject(r) /\ UNCHANGED <<pin, bound>>
          \/ /\ ok /\ pin[r] = "bound" /\ c \in limited
             /\ pin' = [pin EXCEPT ![r] = "none"]
             /\ bound' = [bound EXCEPT ![r] = NoChannel]
             /\ UNCHANGED <<pc, ctxChannel, channelId, tried>>
  /\ UNCHANGED <<memoryCache, db, session, bizErr, firstErr, failed, left, wait,
                 tasks, faults, blamed, crashed>>

\* The sticky channel is kept while it is enabled; its suspension and the
\* endpoint are not looked at.
StickyAlive_Always == sticky # NoChannel /\ stickyLeft > 0
StickyAlive == sticky # NoChannel /\ stickyLeft > 0 /\ status[sticky] = "enabled"

DistributeSticky(r) ==
  /\ pc[r] = "new" /\ pin[r] = "none" /\ StickyAlive
  /\ Finish(r, sticky)
  /\ UNCHANGED <<memoryCache, db, pin, bound, bizErr, firstErr, failed, left, wait,
                 tasks, faults, blamed, crashed>>

\* The suspensions that end soonest, when that is near enough to wait for.
Soonest == LET S == {c \in Channels : enabled[c] /\ suspend[c] > 0}
           IN  {c \in S : \A d \in S : suspend[c] <= suspend[d]}
WorthWaiting == \E c \in Soonest : suspend[c] <= WaitMax

\* Selection by priority: without a sticky channel, or when the sticky one is
\* rate limited.  A dead sticky session is deleted on the way.
DistributeSelect(r) ==
  /\ pc[r] = "new" /\ pin[r] = "none"
  /\ \E limited \in SUBSET Limited :
       /\ StickyAlive => sticky \in limited
       /\ \/ /\ \E c \in Selectable(limited) : Finish(r, c)
             /\ UNCHANGED wait
          \/ /\ Selectable(limited) = {}
             /\ sticky' = IF StickyAlive THEN sticky ELSE NoChannel
             /\ stickyLeft' = IF StickyAlive THEN stickyLeft ELSE 0
             /\ \/ /\ WorthWaiting
                   /\ \E c \in Soonest : wait' = [wait EXCEPT ![r] = suspend[c]]
                   /\ Goto(r, "wait") /\ UNCHANGED <<ctxChannel, channelId, tried>>
                \/ /\ ~WorthWaiting
                   /\ Reject(r) /\ UNCHANGED wait
  /\ UNCHANGED <<memoryCache, db, pin, bound, bizErr, firstErr, failed, left,
                 tasks, faults, blamed, crashed>>

\* After the wait the selection is tried once more.
DistributeAgain(r) ==
  /\ pc[r] = "wait" /\ wait[r] = 0
  /\ \E limited \in SUBSET Limited :
       \/ \E c \in Selectable(limited) : Finish(r, c)
       \/ Selectable(limited) = {} /\ Reject(r) /\ UNCHANGED session
  /\ UNCHANGED <<memoryCache, db, pin, bound, bizErr, firstErr, failed, left, wait,
                 tasks, faults, blamed, crashed>>

\* The client goes away while the request waits.
Disconnect(r) ==
  /\ pc[r] = "wait" /\ Reject(r)
  /\ wait' = [wait EXCEPT ![r] = 0]
  /\ UNCHANGED <<memoryCache, db, session, pin, bound, bizErr, firstErr, failed,
                 left, tasks, faults, blamed, crashed>>

-----------------------------------------------------------------------------
(* Relay *)

Answered(r, e) ==
  /\ bizErr' = [bizErr EXCEPT ![r] = e]
  /\ faults' = IF e = "nil" THEN faults ELSE faults \cup {<<r, ctxChannel[r], e>>}

\* GoCritical(processChannelRelayError).
Spawn(r) == tasks' = tasks \cup {<<r, Len(tried[r])>>}

\* The first attempt.
FirstAttempt(r) ==
  /\ pc[r] = "call"
  /\ \E e \in Errors \cup {"nil"} :
       /\ Answered(r, e)
       /\ firstErr' = [firstErr EXCEPT ![r] = e]
       /\ Goto(r, IF e = "nil" THEN "done" ELSE "decide")
       /\ IF e = "nil" THEN UNCHANGED tasks ELSE Spawn(r)
  /\ UNCHANGED <<memoryCache, db, session, pin, bound, channelId, ctxChannel,
                 failed, left, wait, tried, blamed, crashed>>

\* shouldRetry, and the client errors that are retried nevertheless.
ShouldRetry(r) ==
  \/ firstErr[r] = "reparse"
  \/ pin[r] = "none" /\ firstErr[r] \notin {"client", "cancel"}

\* The budget of the loop.  For a 413 it is replaced whatever was decided.
RetryBudget(r) ==
  LET base == IF ShouldRetry(r) THEN RetryTimes ELSE 0
  IN  CASE firstErr[r] = "rate"  -> 2 * base
        [] firstErr[r] = "large" -> IF memoryCache /\ cache # {}
                                      THEN Cardinality(cache) - 1 ELSE 1
        [] OTHER -> base

Decide(r) ==
  /\ pc[r] = "decide"
  /\ left' = [left EXCEPT ![r] = RetryBudget(r)]
  /\ failed' = [failed EXCEPT ![r] = {channelId[r]}]
  /\ Goto(r, "retry")
  /\ UNCHANGED <<memoryCache, db, session, pin, bound, channelId, bizErr,
                 ctxChannel, firstErr, wait, tasks, audit>>

\* An iteration selects a channel and sets the context up, or the error of the
\* last attempt goes to the client.
SelectRetry_SetsChannelId(r) ==
  /\ pc[r] = "retry"
  /\ \/ /\ left[r] > 0
        /\ \E c \in RetryCandidates(r) :
             /\ ctxChannel' = [ctxChannel EXCEPT ![r] = c]
             /\ channelId' = [channelId EXCEPT ![r] = c]
             /\ tried' = [tried EXCEPT ![r] = Append(@, c)]
        /\ Goto(r, "recall")
     \/ /\ left[r] = 0 \/ RetryCandidates(r) = {}
        /\ Goto(r, "done") /\ UNCHANGED <<ctxChannel, channelId, tried>>
  /\ UNCHANGED <<memoryCache, db, session, pin, bound, bizErr, firstErr,
                 failed, left, wait, tasks, faults, blamed, crashed>>
SelectRetry(r) ==
  /\ pc[r] = "retry"
  /\ \/ /\ left[r] > 0
        /\ \E c \in RetryCandidates(r) :
             /\ ctxChannel' = [ctxChannel EXCEPT ![r] = c]
             /\ tried' = [tried EXCEPT ![r] = Append(@, c)]
        /\ Goto(r, "recall")
     \/ /\ left[r] = 0 \/ RetryCandidates(r) = {}
        /\ Goto(r, "done") /\ UNCHANGED <<ctxChannel, tried>>
  /\ UNCHANGED <<memoryCache, db, session, pin, bound, channelId, bizErr, firstErr,
                 failed, left, wait, tasks, faults, blamed, crashed>>

\* bizErr is assigned when the helper returns ...
Reattempt(r) ==
  /\ pc[r] = "recall"
  /\ \E e \in Errors \cup {"nil"} :
       Answered(r, e) /\ Goto(r, IF e = "nil" THEN "done" ELSE "record")
  /\ UNCHANGED <<memoryCache, db, session, pin, bound, channelId, ctxChannel,
                 firstErr, failed, left, wait, tasks, tried, blamed, crashed>>

\* ... and channelId later, before the error's own goroutine is started.
RecordFailure(r) ==
  /\ pc[r] = "record"
  /\ channelId' = [channelId EXCEPT ![r] = ctxChannel[r]]
  /\ failed' = [failed EXCEPT ![r] = @ \cup {ctxChannel[r]}]
  /\ left' = [left EXCEPT ![r] = @ - 1]
  /\ Spawn(r) /\ Goto(r, "retry")
  /\ UNCHANGED <<memoryCache, db, session, pin, bound, bizErr, ctxChannel,
                 firstErr, wait, audit>>

-----------------------------------------------------------------------------
(* UpdateChannelStatusById and InitChannelCache *)

Stages == {"idle", "abilities", "status", "load", "install"}

\* A worker that still has a row of the channel to write; its abilities are
\* written and its status is not.
Writer(w, c) == target[w] = c /\ wpc[w] \in {"abilities", "status"}
HalfWritten(c) == \E w \in Workers : target[w] = c /\ wpc[w] = "status"

\* The call.
UpdateChannelStatus(w, c, s) ==
  /\ wpc[w] = "idle" /\ wpc' = [wpc EXCEPT ![w] = "abilities"]
  /\ target' = [target EXCEPT ![w] = c] /\ wanted' = [wanted EXCEPT ![w] = s]
  /\ torn' = IF \E v \in Workers : Writer(v, c) THEN torn \cup {c} ELSE torn
  /\ UNCHANGED <<status, enabled, cache, loaded, since, behind>>

Return(w) ==
  /\ wpc' = [wpc EXCEPT ![w] = "idle"]
  /\ target' = [target EXCEPT ![w] = NoChannel]
  /\ wanted' = [wanted EXCEPT ![w] = "enabled"]

\* UpdateAbilityStatus; its error is only logged.
WriteAbilities(w) ==
  /\ wpc[w] = "abilities" /\ wpc' = [wpc EXCEPT ![w] = "status"]
  /\ \/ /\ enabled' = [enabled EXCEPT ![target[w]] = wanted[w] = "enabled"]
        /\ UNCHANGED torn
     \/ /\ torn' = torn \cup {target[w]}
        /\ UNCHANGED enabled
  /\ UNCHANGED <<memoryCache, status, suspend, cache, changes, target, wanted, loaded,
                 since, behind, session, request, tasks, audit>>

\* The channel's row; when it fails the cache is not rebuilt.
WriteStatus(w) ==
  /\ wpc[w] = "status"
  /\ \/ /\ status' = [status EXCEPT ![target[w]] = wanted[w]]
        /\ wpc' = [wpc EXCEPT ![w] = "load"]
        /\ since' = [v \in Workers |-> IF wpc[v] = "install" THEN since[v] \cup {target[w]}
                                       ELSE since[v]]
        /\ behind' = behind \cup {target[w]}
        /\ UNCHANGED <<target, wanted, torn>>
     \/ /\ torn' = torn \cup {target[w]}
        /\ Return(w)
        /\ UNCHANGED <<status, since, behind>>
  /\ UNCHANGED <<memoryCache, enabled, suspend, cache, changes, loaded, session, request,
                 tasks, audit>>

\* InitChannelCache queries the tables, and installs what it has found however
\* late that is.
LoadChannels(w) ==
  /\ \/ wpc[w] = "load"
     \/ wpc[w] = "idle" /\ memoryCache           \* SyncChannelCache
  /\ wpc' = [wpc EXCEPT ![w] = "install"]
  /\ loaded' = [loaded EXCEPT ![w] = FreshCache]
  /\ since' = [since EXCEPT ![w] = {}]
  /\ UNCHANGED <<memoryCache, status, enabled, suspend, cache, changes, target, wanted,
                 behind, torn, session, request, tasks, audit>>

InstallCache(w) ==
  /\ wpc[w] = "install" /\ Return(w)
  /\ cache' = loaded[w] /\ behind' = since[w]
  /\ loaded' = [loaded EXCEPT ![w] = {}] /\ since' = [since EXCEPT ![w] = {}]
  /\ UNCHANGED <<memoryCache, status, enabled, suspend, changes, torn, session, request,
                 tasks, audit>>

-----------------------------------------------------------------------------
(* processChannelRelayError *)

\* SuspendAbility overwrites suspend_until.
SuspendAbility(c, e) == suspend' = [suspend EXCEPT ![c] = Suspension[e]]

\* monitor.DisableChannel.
DisableChannel(c) == \E w \in Workers : UpdateChannelStatus(w, c, "auto")

\* The goroutine starts: it reads what the shared variables hold by then.  The
\* error nil is dereferenced, and GoCritical does not recover a panic.  Whether
\* a client error is authentication-like or fatal, its wording decides.
ProcessChannelRelayError(t) ==
  LET r == t[1]
      e == bizErr[r]
      c == channelId[r]
  IN
  /\ t \in tasks /\ tasks' = tasks \ {t}
  /\ \/ /\ e = "nil"
        /\ crashed' = TRUE
        /\ UNCHANGED <<db, blamed>>
     \/ /\ e \in {"busy", "client", "reparse", "cancel", "large"}
        /\ UNCHANGED <<db, blamed, crashed>>
     \/ /\ e = "client" /\ AutoDisable
        /\ DisableChannel(c)
        /\ blamed' = blamed \cup {<<r, c, e>>}
        /\ UNCHANGED <<suspend, changes, crashed>>
     \/ /\ e \in {"rate", "server"}
        /\ SuspendAbility(c, e)
        /\ blamed' = blamed \cup {<<r, c, e>>}
        /\ UNCHANGED <<status, enabled, cache, changes, writing, crashed>>
     \/ /\ e \in {"auth", "client"}
        /\ SuspendAbility(c, "auth")
        /\ blamed' = blamed \cup {<<r, c, e>>}
        /\ \/ AutoDisable /\ DisableChannel(c)
           \/ UNCHANGED <<status, enabled, cache, writing>>
        /\ UNCHANGED <<changes, crashed>>
  /\ UNCHANGED <<memoryCache, session, request, tried, faults>>

-----------------------------------------------------------------------------
(* The environment *)

\* An administrator changes a channel's status.
SetStatus(w, c, s) ==
  /\ status[c] # s /\ changes < MaxChanges /\ changes' = changes + 1
  /\ UpdateChannelStatus(w, c, s)
  /\ UNCHANGED <<memoryCache, suspend, session, request, tasks, audit>>

Down(n) == IF n > 0 THEN n - 1 ELSE 0

\* Time passes.
Tick ==
  /\ \/ \E c \in Channels : suspend[c] > 0
     \/ \E r \in Requests : wait[r] > 0
     \/ stickyLeft > 0
  /\ suspend' = [c \in Channels |-> Down(suspend[c])]
  /\ wait' = [r \in Requests |-> Down(wait[r])]
  /\ stickyLeft' = Down(stickyLeft)
  /\ UNCHANGED <<memoryCache, status, enabled, cache, changes, writing, sticky, pc, pin,
                 bound, channelId, bizErr, ctxChannel, firstErr, failed, left, tasks, audit>>

Handle(r) ==
  \/ DistributeBound(r) \/ DistributeSticky(r) \/ DistributeSelect(r)
  \/ DistributeAgain(r)
  \/ FirstAttempt(r) \/ Decide(r) \/ SelectRetry(r) \/ Reattempt(r) \/ RecordFailure(r)

Process == \E t \in tasks : ProcessChannelRelayError(t)

Work(w) == WriteAbilities(w) \/ WriteStatus(w) \/ LoadChannels(w) \/ InstallCache(w)

Environment ==
  \/ Tick \/ \E r \in Requests : Disconnect(r)
  \/ \E w \in Workers, c \in Channels, s \in {"enabled", "manual"} : SetStatus(w, c, s)

\* Nothing happens in a process that has crashed.
Next ==
  /\ ~crashed
  /\ \/ \E r \in Requests : Handle(r)
     \/ Process
     \/ \E w \in Workers : Work(w)
     \/ Environment

Spec == Init /\ [][Next]_vars

-----------------------------------------------------------------------------
(* Properties *)

TypeOK ==
  /\ memoryCache \in BOOLEAN
  /\ status \in [Channels -> {"enabled", "manual", "auto"}]
  /\ enabled \in [Channels -> BOOLEAN] /\ suspend \in [Channels -> Nat]
  /\ cache \subseteq Channels /\ changes \in 0..MaxChanges
  /\ wpc \in [Workers -> Stages] /\ target \in [Workers -> Channels \cup {NoChannel}]
  /\ wanted \in [Workers -> {"enabled", "manual", "auto"}]
  /\ loaded \in [Workers -> SUBSET Channels] /\ since \in [Workers -> SUBSET Channels]
  /\ behind \subseteq Channels /\ torn \subseteq Channels
  /\ sticky \in Channels \cup {NoChannel} /\ stickyLeft \in 0..StickyTTL
  /\ pc \in [Requests -> PCs] /\ pin \in [Requests -> {"none", "specific", "bound"}]
  /\ bound \in [Requests -> Channels \cup {NoChannel}]
  /\ channelId \in [Requests -> Channels \cup {NoChannel}]
  /\ ctxChannel \in [Requests -> Channels \cup {NoChannel}]
  /\ bizErr \in [Requests -> ErrorKinds \cup {"nil"}]
  /\ firstErr \in [Requests -> ErrorKinds \cup {"nil"}]
  /\ failed \in [Requests -> SUBSET Channels]
  /\ left \in [Requests -> Nat] /\ wait \in [Requests -> Nat]
  /\ tasks \subseteq Requests \X Nat
  /\ tried \in [Requests -> Seq(Channels)]
  /\ faults \subseteq Requests \X Channels \X ErrorKinds
  /\ blamed \subseteq Requests \X Channels \X ErrorKinds
  /\ crashed \in BOOLEAN

\* One request never goes to the same channel twice, whatever suspensions end,
\* caches are rebuilt and channels come back between its attempts.
NoRepeat ==
  \A r \in Requests : \A i, j \in DOMAIN tried[r] : tried[r][i] = tried[r][j] => i = j

\* A request for a given channel, or for the channel of an earlier response, is
\* not tried elsewhere, except after a 413 or an answer that could not be parsed.
PinnedStays ==
  \A r \in Requests :
    pin[r] # "none" /\ firstErr[r] \notin {"large", "reparse"} => Len(tried[r]) <= 1

\* The error goroutines, whenever they run, suspend or disable only channels on
\* which an attempt of their own request has failed.
BlamedFailed ==
  \A b \in blamed : \E f \in faults : f[1] = b[1] /\ f[2] = b[2]

\* What an attempt cannot know of a disabled channel: its status was written after
\* the queries the cache comes from, or, without a cache, the abilities that the
\* query reads and the status do not agree, because one of them is still to be
\* written, failed, or was written by two workers at once.
Unknown(c) == IF memoryCache THEN c \in behind ELSE c \in torn \/ HalfWritten(c)

\* No attempt, first or retried, goes to a channel that is disabled by then, save
\* where selection by priority cannot know, although sticky sessions, bindings and
\* rebuilt caches remember older states and rebuilds may overtake one another.
NeverToDisabled ==
  [][\A r \in Requests :
       Len(tried'[r]) > Len(tried[r])
         => LET c == tried'[r][Len(tried'[r])]
            IN  \/ status[c] = "enabled"
                \/ Unknown(c) /\ (pin[r] = "none" \/ tried[r] # <<>>)]_vars

\* Where the attempts of a request go, taken together.
AttemptsOnce == TypeOK /\ NoRepeat /\ PinnedStays

=============================================================================
