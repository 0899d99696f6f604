# TLA+ models of uniapi

uniapi is a gateway in front of some fifty LLM providers: clients send OpenAI-, Claude- or
Response-API-shaped requests with a token of theirs, the gateway picks a channel, converts and
forwards the request, relays the (possibly streamed) answer and charges the user and the token
in *quota*. Three things in it are hard to get right and hard to test: the money (quota lives in
database rows that concurrent requests, background goroutines, retries, administrators and a
batching cache update without common transactions), the choice of a channel (derived tables and
caches that are rebuilt while requests read them) and the streams (state machines that must leave
the client with a well-formed answer whatever the upstream and the client do). The models here
follow these three.

## 1. Inventory

| Component | State | Operations | Hard behaviour | What makes it correct |
|---|---|---|---|---|
| Quota store (`model/token.go`, `model/user.go`) | `users.quota`, `tokens.remain_quota`, token status | pre-consume, post-consume, increase, decrease | check and update are separate statements; two rows, no transaction | rows never negative; both rows move together; a missed charge is noticed |
| Request billing (`relay/controller`, `relay/billing`, `relay/streaming`) | reservation, marks in the gin context, stream tracker, goroutines | reserve, forward, flush, settle, refund, audit | refunds in goroutines, recycled contexts, audit racing refunds | a request costs its price, or its kept reservation, or nothing; refunds happen once and only when safe |
| Media, Claude and realtime billing (`relay/controller`, `controller/realtime.go`) | as above, the consume log row, two pumps of a websocket | reserve, send, copy, settle, roll back | each helper has a rule of its own for failures; the answer may break after billing | the cost is the price and the log says so; failures cost what the helper's rule says |
| Relay retry (`controller/relay.go`) | attempt counter, exclusion list, variables shared with goroutines | retry on another channel, process errors | marks of the failed attempt survive; closures see later values | retries end, never repeat a channel, and their cost is bounded |
| Batch updater and shutdown (`model/utils.go`, `common/graceful`, `main.go`) | five in-memory stores, updater goroutine, wait group | record, tick, flush, stop, drain, close | swap racing records, failing writes, order of shutdown steps | nothing recorded is lost or applied twice; shutdown ends |
| Budget pools (`model/pool.go`) | pools, allocation rows, user quota | create, purchase, allocate, recall, recall all, close, roll over | row locks that cover only part of an operation | never hands out more than it holds; recalls bounded; closed pools do not move |
| External billing (`controller/token.go`, `model/token_transaction.go`) | transactions, their log entries, both quota rows | pre, post, cancel, single, auto-confirm | read, move, update without a transaction; expiry; compensation | a transaction has taken exactly what its row says |
| Channel routing (`middleware/distributor.go`, `model/ability.go`, `model/sticky_session.go`) | abilities, suspension, sticky sessions, in-memory cache | select, wait, suspend, stick | stale caches and sessions, expiring suspensions | a channel that is known to be disabled gets no attempt; only failed channels are blamed; no channel is tried twice |
| Channel status and monitor (`model/channel.go`, `model/cache.go`, `monitor`, `controller/channel_testing.go`) | channels, abilities, the channel cache, the sweep's list | insert, update, disable, delete, purge, sweep, refresh | several statements without a transaction; refreshes overtaking each other | abilities follow the status; the cache ends up fresh |
| MCP tool loops (`relay/controller/mcp_orchestrator.go`, `mcp_tool_search.go`) | round, calls, candidates, tool cost, history | ask, call, fall back, bill | refusals in mid-loop, retries, several rounds with one bill | every round and call is paid for exactly once and answered in the history; the loop ends |
| User accounts and credits (`model/user.go`, `controller/user.go`, `model/redemption.go`, `model/recharge_request.go`, `common/blacklist`) | user rows, blacklist, Redis copy, codes, requests | manage, update, delete, top up, redeem, review | whole rows read and written back; check apart from credit; cache filled after an invalidation | no amount is lost or invented; codes pay once; a deleted or disabled user is locked out |
| Stream handlers (`relay/adaptor/*/main.go`, `openai_compatible`, `relay/controller/response_stream_bridge.go`) | open blocks and items, tables of tool calls, usage, thinking tags | convert a line, end, cancel | upstream ends, fails, sends junk or tool calls in any order; clients leave | blocks open and close once; nothing follows the end the gateway writes; calls are kept apart; handlers return |
| Cache layer (`model/cache.go`) | Redis copies of tokens, groups, quotas, users | read-through, clear | stale set after a clear | staleness bounded by the expiry |
| Rate limiting (`middleware/rate-limit.go`, `common/rate-limit.go`) | windows per key, in memory or Redis | request, expire | separate Redis commands | at most N requests per window |
| Logs and costs (`model/log.go`, `model/cost.go`) | consume logs, request costs | provisional entry, reconcile | late updates | the log shows what was charged |
| Request conversion, pricing, OAuth, options, migrations, telemetry, web | - | conversion, CRUD, I/O | - | outside these models |

Interaction: every relay request passes TokenAuth, the distributor and a relay helper. The
helper calls the quota store before and after the upstream call, leaves goroutines behind
through `graceful.GoCritical`, and with batch mode on the quota store hands its changes to the
batch updater. The adaptor's stream handler runs inside the helper and decides which usage is
billed. Failed attempts suspend abilities, which the channel cache copies. Pools, external
billing, redemption and recharge change the same `users.quota`.

## 2. Modules

| Module | Models | Checked by | Proved in |
|---|---|---|---|
| `RelayBilling` | request billing, retries, the quota store's two rows | `MCRelayBilling` | `RelayBilling_proofs` |
| `BatchUpdater` | batch updater and graceful shutdown | `MCBatchUpdater` | `Consumption_proofs` |
| `DeferredLedger` | abstract: what the batch updater promises | as a property of `MCBatchUpdater` | implemented: `Consumption_proofs` |
| `BudgetPool` | budget pools and a spending user | `MCBudgetPool` | `PoolsAndStreams_proofs` |
| `ExternalBilling` | `POST /api/token/consume` | `MCExternalBilling` | `ExternalBilling_proofs` |
| `ChannelRouting` | distributor, retry loop, error goroutines | `MCChannelRouting` | `ChannelRouting_proofs` |
| `ChannelStatus` | channels, abilities, channel cache, test sweep | `MCChannelStatus` | `ChannelStatus_proofs` |
| `MediaBilling` | image, audio, video, OCR, Claude and realtime billing | `MCMediaBilling` | `MediaBilling_proofs` |
| `McpToolLoop` | tool loops and their billing | `MCMcpToolLoop` | `Consumption_proofs` |
| `UserAccounts` | user rows, blacklist, user cache, codes, recharges | `MCUserAccounts` | `UserAccounts_proofs` |
| `StreamRelay`, `ProviderStreams` | every stream handler, and the Response API bridge | `MCStreamRelay` | `PoolsAndStreams_proofs` |

The MC modules name the model values of the configurations, the functions that cannot be
written in a cfg and the statements of section 4 that the code does not meet. Definitions whose names end
in `_Something` are mutated forms of the definition that follows them: `PROJECT.json` pairs each
with the property that notices it. Variables marked "audit only" record what really happened
and guard nothing. Two proof modules hold two components each, whose names do not overlap:
`McpToolLoop` calls its specification `LoopSpec` and `StreamRelay` its own `StreamSpec`.

### RelayBilling

One user, one token, a set of requests. A request is a program counter (`pc`) through a relay
helper; each SQL statement is one step.

- *Reserve*: `PreConsumeQuota` (the helper's own checks, the trust rule that skips the
  reservation of a rich user), `CheckTokenQuota`, `CheckUserQuota`, `DecreaseTokenQuota`,
  `DecreaseUserQuota` (the four statements of `PreConsumeTokenQuota`).
- *Forward*: `ConvertRequest`, `DoRequest` (sets the forwarded mark over HTTP; SDK adaptors set
  none), `UpstreamReplies`.
- *Answer*: `RecordCompletionTokens` (a stream's incremental charges), `DoResponse`, `Finalize`.
- *Settle*: `PreBillingReconcile`, `PostConsumeQuota`, `BillingAuditSafetyNet`, `Retry`.
- *Tasks*: every call of `PostConsumeTokenQuota` in progress is a member of `tasks` with the leg
  it is at. Goroutines are the ones the handler does not wait for (`sync = FALSE`).

`cpre`, `forwarded` and `reconciled` are the billing keys of the gin context (`ctxkey`).
Contexts are a pool (`CtxOf`): with one context for two requests, `Start` of the second clears
the marks a goroutine of the first still wants to read (`CtxOf <- SharedContext`, section 4). `handler` selects the helper: `text`
(`RelayTextHelper`), `response` (`RelayResponseAPIHelper`) or `rerank` (`RelayRerankHelper`);
where they differ, a definition has one case for each. The audit variables `userPaid`, `tokenPaid`
and `spent` keep one account per attempt: a refund that a goroutine makes late belongs to the
attempt that started it, and the properties speak of each attempt. Abstracted: how a price is computed (an
input from `Usages`), Redis, batch mode, the billing timeout, log rows.

### BatchUpdater and DeferredLedger

`store` and `db` per type and id; the updater goroutine walks the types (`Swap`, `Write`), a
failing write drops its entry, an expired context drops the rest. `faults` is chosen once: in
half of the behaviours nothing ever fails, which is what the flushing properties are about.
`main` goes from serving to draining, waiting and closed in the order of `main.go`. Workers are
requests with an optional critical task; both may record.

`DeferredLedger` says what code that records a change may rely on: the change waits, is sealed
together with everything that waits for its kind, and is applied once or, only in a faulty
system, dropped. It knows no goroutine, lock, tick or signal. `BatchUpdater` instantiates it with
`waiting` as the stores, `sealed` as the map being written, `applied` as the database, `dropped`
as the losses, and `closed` as the end of `main`. `ImplementsLedger` is its specification, the
safety part, which is also proved. `NothingWaitsForever` is its liveness (until the process ends,
what is sealed is applied or dropped and, without faults, what waits is sealed) and the end of a
shutdown.

### BudgetPool

Purchases, allocations and closing are one transaction each. `AllocateFromPool` takes from the
pool and inserts its row for any id, whether or not the update of the user's quota finds a row
(`Ids`, of which `Users` have one; `pool.go:232`). A recall is two steps, because it
reads the user's row without a lock and decrements it later (`BeginRecall`, `CommitRecall`); it
holds the pool's row lock in between (`Locked`). `RecallAllFromPool` reads its list once and
recalls user by user. `RollOverPool` is a read, an update and an insert. `Spend` stands for all
that relay billing takes from a user meanwhile. The `pool_transactions` log, which no operation
reads, and `UpdatePool`, which nothing calls, are left out. Row locks are those of MySQL and
PostgreSQL; SQLite serialises writers.

### ExternalBilling

A call of `ConsumeToken` is `TokenAuth` (with the query for expired holds), one `AutoConfirm`
per hold found, `Validate`, then `PreConsume`/`Insert`, or `Read`/`Adjust`/`Update`/`UpdateLog`.
Calls interleave between these. A statement on `token_transactions` or `logs` may fail
(`MaxFailures` bounds how many do), with the compensation the code then makes. `shared` marks a
transaction two calls worked on at once. A reservation is `PreConsume` (the checks), `TakeToken`
and `TakeUser`: when the second fails the token's part stays taken, which `stranded` counts.
`PostConsumeTokenQuota` is one step here, `RelayBilling` has it leg by leg; an
auto-confirmation and its log entry are one step.

### ChannelRouting

One user, one group, one model, so that an ability is a channel; times are ticks left. A request
goes through the distributor (`DistributeBound`, `DistributeSticky`, `DistributeSelect`, the
recovery wait and `DistributeAgain`), then through attempts and the retry loop of `Relay`
(`Decide`, the 413 path, the tiers of `CacheGetRandomSatisfiedChannelExcluding` or of the
database query, as `memoryCache` says). Each failed attempt leaves a
`processChannelRelayError` goroutine; its closure captures the *variables* `channelId` and
`bizErr`, so that it reads what later attempts wrote into them. Administrators (`MaxChanges`) and
error goroutines have the status of a channel written by one of the `Workers`: the abilities, the
status and a rebuild of the cache in separate steps, the first two of which may fail. `behind`
names the channels written since the queries the cache was built from, `torn` those a write of
which failed or was overtaken; `Unknown` is the window in which a selection cannot know that a
channel is disabled. Suspensions and sticky sessions expire (`Tick`), and a client may leave
(`Disconnect`).

### ChannelStatus

Every operation of an administrator, of the monitor and of the test sweep is a program
(`Program`): a list of statements that interleave with those of others and each of which may
fail (`MaxFailures`). Every program ends with `InitChannelCache`: two queries and an assignment.
`overlapped` and `damaged` name the channels that two programs worked on at once or on which a
statement failed. The sweep goes over a list it has read once and tests a disabled channel twice.

### MediaBilling

The helpers that do not share the chat protocol, by `kind`. `Reserves`, `Trusts` and `Take` are
what each reserves; `ImageReturn`, `AudioFails`, `VideoFails`, `OCRFails` and `ClaudeFails` are what
each gives back; `PostConsume` settles and reconciles the provisional log row; `CopyAnswer` may
break after billing. A realtime session has two pumps, whose usage events are counted once per
response id. An image answer is priced by usage, by the legacy ratio on top of its base, or by its
base alone (`ImagePrices`), also when the answer breaks off. `Relay` may call a helper again with the same context; `paid` and `spent` are kept per
attempt. The token is unlimited, so
that only the user's row moves.

### McpToolLoop

One request in `executeChatMCPToolLoop` (from the chat helper, the Response API fallback or the
Claude helper) or in `executeClaudeToolSearchMCPLoop`: `Begin`, `StartRound`,
`UpstreamAnswers` with tool calls or without, `CallTool` over the candidates in the order of
priority and policy, `EndRound`, `Respond`, `Bill`. `Spend` is what other requests of the user
take meanwhile; a refused round ends the loop in its middle. A call may come without an id
(`NoCallId`): it is not recorded as executed, so that nothing keeps it from running again.

### UserAccounts

Rows of users with quota, status and one profile field. `User.Update` reads a row, changes a
field of the copy and writes every non-zero field back; `overlapped` marks copies that were out
of date by then. The blacklist is a set that is changed before the row is saved: a save may fail
(`WriteFails`, with what it was to write in `unsaved`), and `Restart` ends the handlers and empties
the blacklist (`forgotten`). The Redis copy has an expiry. `Serial` says whether
write transactions exclude each other (SQLite, the default) or overlap (the row lock of
`redemption.go:92` is asked for with an option the ORM ignores).

### StreamRelay and ProviderStreams

One streamed answer: the upstream sends lines in any order (text, with or without a thinking tag,
reasoning, tool-call deltas in four ways of numbering them, usage, junk, an error, `[DONE]` and
whatever comes after it), ends or fails at any point, and the client may leave. The `openai` and
`unified` handlers pass `[DONE]` on and read on, the others stop at it (`ReadsOn`). `hdl` selects one of the eight shared handlers,
three of which may write to the Response API bridge, or one of the 22 handlers that providers
have of their own. These share one loop and differ in the record that `ProviderStreams` gives
each: what the upstream sends, what is rendered, where usage comes from, what junk, the end and a
failing reader do, and what the loop waits on. `out` is what the client got: events with the
block or item and the upstream call they belong to. The wording of a chunk is left out; so are
failures to close a body, `cloudflare`'s own handler and the websocket transport of the Response
API, which nothing calls.

## 3. Runs

| Run | Instance | Shows |
|---|---|---|
| `relay_text` | two requests, each chat, Response API or rerank, user 5, token 4, estimates 1 and 3, prices 0 and 4 | `Solvent`, `NeverOverRefunded`, `ExactSettlement`, `TokenFollowsUser`, `EventuallyRefunded` |
| `relay_retry` | one chat, Response API or rerank request, HTTP or SDK, three attempts, unlimited token | `RetryCostBounded`, `EventuallySettled` |
| `batch_shutdown` | two workers, two types, two ids | `Accounting`, `StopFlushesAll`, `ImplementsLedger`, `NothingWaitsForever` |
| `batch_shutdown_loss` | two workers, one id | violates `PersistedAtExit` |
| `pool_ops` | two administrators, two pools, two allocation rows, a user and an id without a row | `WithinBudget`, `RecalledBounded`, `Reconciled`, `Conservation`, `ClosedPoolFrozen` |
| `ext_calls` | two calls, two transactions, one failure | `BooksBalance`, `NoLateSettlement`, `TerminalIsFinal` |
| `routing` | one request with any pin, two channels in two tiers, one retry, all classes of errors, one writer of the status, one change by an administrator | `AttemptsOnce`, `BlamedFailed`, `NeverToDisabled` |
| `channel_admin` | one channel, an administrator with two operations, the sweep, the ticker, one failing statement | `AbilitiesAgree`, `EventuallyFresh` |
| `media_billing` | a request of any kind beside a Claude request, quota 4, two attempts | `SettledExactly`, `CostBounded`, `EventuallySettled` |
| `mcp_loop` | any helper, rounds of up to two calls with and without an id, three servers, three rounds, two attempts | `PaidExactly`, `CallsSettled`, `EventuallyReturns` |
| `accounts` | one user, two handlers, four operations of thirteen kinds, failing writes, restarts | `LedgerExact`, `CreditsPaid`, `BlacklistAgrees`, `CacheCatchesUp` |
| `streams` | 33 handlers, four lines, two tool calls, four dialects | `WellFormed`, `CallsIntact`, `UsageReturned`, `ReturnsWhenClientLeaves` |

Some properties are conjunctions of named parts, each stated where it is defined: `BooksBalance`
(types, `Solvent`, `Settled`, `LogAgrees`), `AttemptsOnce` (types, `NoRepeat`, `PinnedStays`),
`CostBounded` (types, `FailureCost`, `RetryCostBounded`), `CallsSettled` (types,
`RunsOncePerAttempt`, `ToolCostOnce`, `HistoryAnswered`), `CreditsPaid` (types, `CodePaysOnce`,
`RequestTellsCredit`), `WellFormed` (types, `Bracketed`, `NothingAfterEnd`, `FinalChunk`,
`HonestEnd`), `CallsIntact` (`CallsKeptApart`, `CallTable`).

**Bounds.** The balances are chosen between one and two estimates, so that two requests together
exceed them, each alone may or may not, and the trust rule (`TrustFactor = 3` instead of 100)
applies to small requests only. Prices lie on both sides of the reservation, and 0 is the
answer without usage. Two requests are what a check-update race needs; three attempts show that
what the second leaves behind does not add up in the third. Two ids and two types let a flush
stop after part of a map and after part of the types. Two pools are a rollover; two rows are a
user allocated to twice. In `ext_calls` the user has less than the token, so that each leg fails
alone. In `routing` two channels in two tiers with a retry reach the case of a goroutine that
runs after the retry has overwritten its variables, and the case where nothing is left to try;
one writer is enough for the window between its three steps and for its failures (that writers and
rebuilds overtake one another is left to the theorem, which is for any number of them);
`WaitMax`, `StickyTTL` and the suspensions are one tick, which is enough for each to end before,
between and after the others. In `channel_admin` two operations, a sweep and the ticker give up
to three overlapping refreshes. In `media_billing` the quota of 4 lets the second reservation
fail. In `mcp_loop` one server is not whitelisted, the others differ in priority and price;
one id and none make every pair of calls: the same id twice, one with and one without, two without;
three rounds reach the limit of rounds. In `accounts` four operations by two handlers are a copy
read, two changes by the other handler and the write; one user, code and request suffice because
no operation relates two of them. In `streams` four lines are two deltas of each of two calls,
or a block of each kind, before the stream ends. Nothing in the properties counts beyond two
actors; what should hold for any number is proved where section 5 says so. `MaxRecords`,
`MaxPools`, `MaxAllocs`, `MaxBought`, `MaxFailures`, `MaxChanges`, `MaxAsked`, `MaxSuspends`,
`MaxSweeps`, `MaxEvents`, `MaxSpend`, `MaxOps` and `MaxLines` bound what the code leaves
unbounded. `ext_calls` uses symmetry in transactions and in calls, which nothing distinguishes.

**Fairness.** The upstream owes nothing: `RELAY_TIMEOUT` is 0 by default, so that a call to it has
no time limit (`config.go:685`, `client/init.go:136`). In `RelayBilling`, `MediaBilling` and
`McpToolLoop` only the gateway's own steps are fair (`Own`: what a handler does between its waits
for the upstream) and the goroutines in progress, which the Go scheduler runs.
Their liveness properties say that a request comes to its end unless, from some moment on, it waits
for the upstream for ever. `EventuallyRefunded` starts where nothing waits for the upstream any more.
An MCP call is fair: `MCP_TOOL_CALL_TIMEOUT` (60 s) bounds it. A realtime session of which one direction has ended
is settled without such a condition. `BatchUpdater`: goroutines and the ticker go on; `StopSignal`
is strongly fair because Go's `select` chooses at random among ready cases, so that an ever-ready
tick cannot win for ever. Nobody has to send SIGTERM or a request. `ChannelStatus`: goroutines go on, which for the ticker is `SyncChannelCache`.
`UserAccounts`: handlers that have begun go on and keys in Redis expire. `StreamRelay`: only a read
whose context is cancelled returns. `BudgetPool`, `ExternalBilling` and
`ChannelRouting` state no liveness: selection and waiting are tried a fixed number of times, and
`AttemptsOnce` bounds the retry loop by the number of channels.

**Deadlock** is checked except in the runs of `ChannelRouting`, `McpToolLoop`, `UserAccounts` and
`StreamRelay`, whose behaviours end when their requests have been answered; in the others the
system never stops, or its end (`AllQuiet`, `Exited`) is a step of its own.

## 4. Where the code disagrees with its documentation

With a run (details under `findings` in `PROJECT.json`): `StopBatchUpdater` flushes before `Drain`
has waited for the tasks that still record (`batch_shutdown_loss`).

Seen with the same models, without a run of their own. Where a name is given, the statement is in
the MC module and TLC refutes it when it is added to a configuration with the constants named (where
none are named, with those of the module's run).

*Relay billing.*
- `RefundedOnce` (`Handlers = {"response"}`): the Response API helper refunds in a goroutine
  (`response.go:225`), and the deferred audit, which "detects cases where pre-consumed quota was
  never reconciled" (`billing_safety.go:103`), may refund before that one has set its mark.
- `NoUnderbilling` (`CtxOf <- SharedContext`, one context): a refund goroutine reads the forwarded
  mark after `Start` of the next request in the same gin context has cleared it (`text.go:313`), so
  that a forwarded request is refunded (`docs/arch/billing.md:763`). Also with `Transports = {"sdk"}`:
  SDK adaptors (`aws/adaptor.go:179`, `xunfei/adaptor.go:197`) never set the mark.
- `UnsentAttemptRefunded` (one request, two attempts): the first attempt sets the forwarded mark,
  the second fails before it is sent and is not refunded (`controller/relay.go:375`;
  `billing_safety.go:105` promises the refund).
- `UnbilledDetected` (a usage beyond the user's quota): `PostConsumeTokenQuota` loses the error of
  the user's leg (`token.go:491`), so that `billing.go:61` never reports it.
- `PaidOnce` (`Handlers = {"rerank"}`): `preConsumedQuota` is set to 0 after a refund that was
  skipped, so that billing charges the whole price again (`rerank.go:157`; `ocr.go:159` is the same).

*Pools and external billing.*
- `RolloverCarriesRemaining`: a rollover carries over a balance read before the pool is closed
  (`pool.go:417`, `425`).
- `NoOverdraft`: a user spends between the check and the unguarded decrement of a recall
  (`pool.go:316`, `322`). `AllRecalled`: only a user's first allocation row is recalled (`pool.go:299`).
  `AllocatedToSomebody`: an allocation to an id without a row succeeds (`pool.go:232`).
- `CanceledIsFree`: two calls find a transaction pending and both give quota back
  (`controller/token.go:562`; `docs/manuals/external_billing.md:145`).
- `AlwaysFinal`: a call that read a pending transaction overwrites what another made of it
  (`token_transaction.go:182`). `CancelHonoured` (token quota equal to the reservation):
  `TokenAuth` refuses the cancel that would release it (`token.go:810`). Read, not stated: a
  reservation whose user's part fails leaves the token's part taken (`model/token.go:470`), which
  `BooksBalance` counts in `stranded`.

*Routing and channels.*
- `NoCrash`: the retry loop may set `bizErr` to nil before the goroutine of the failed attempt
  reads it (`controller/relay.go:159`); `docs/arch/channels.md:142` calls the race safe in practice.
- `BlameDeserved`: a late goroutine suspends a channel for an error another channel returned
  (`docs/arch/channels.md:116`).
- `PinnedNeverElsewhere`: the 413 path retries a pinned request elsewhere
  (`controller/relay.go:236`; `docs/arch/channels.md:188`).
- `AbilitySetCorrectly`: overlapping operations leave abilities that contradict the status
  (`model/channel.go:1488`; `model/cache.go:326`).
- Read, not stated: with the memory cache on the recovery wait cannot see a suspension end
  (`config.go:370`); a retry ignores whether the channel supports the endpoint; a shorter
  suspension overwrites a longer one (`ability.go:153`); the sweep re-enables a channel that was
  disabled by hand after the list was read; a failing list query leaves `testAllChannelsRunning` set
  (`channel_testing.go:412`).

*Media.*
- `NoUnderbilling`: audio and video refund after the request has been forwarded.
- `DeductionsLogged`: an upstream error answer empties the log row of an image request that keeps
  its reservation (`image.go:513`); a Claude answer without usage refunds everything.

*MCP.* `EveryCallBilled`: calls of a round that fails later run but are not billed
(`mcp_orchestrator.go:426`; `docs/manuals/mcp_aggregator.md:100`). The tool-search loop never adds
tool costs. The registry of tools is not kept across retries.

*Accounts.* `StatusByAdmin`: a profile save on an old copy re-enables a user who was disabled
meanwhile (`controller/user.go:1588`). `RechargeOnce`: two approvals both credit
(`recharge_request.go:123`). `CodePaysOnce` without its `Serial` premise fails for
`Serial = FALSE`. Editing the name of a used code may enable it again (`controller/redemption.go:202`).

*Streams.* `NoFabricatedDone`: with the bridge, `openai.StreamHandler` completes a response the
upstream did not finish (`openai/main.go:423`). `ClaudeCallsKeptApart`: every tool call of a Claude
stream gets index 0 (`anthropic/main.go:724`). The Claude converter splits a call whose later deltas
carry no id (the premise on `dialect` in `CallsKeptApart`); the `openai` and `unified` handlers
forward what follows the upstream's `[DONE]`, a second `[DONE]` included; zhipu sends `[DONE]` twice after a
quota error (`NothingAfterEnd`); Bedrock streams that fail end with `[DONE]`; Gemini's stream ignores
the upstream's usage; Cohere and Coze drop tool calls; Xunfei does not notice a departed client
(the premise `Notices`); Palm's failing read wraps a nil error.

## 5. Proofs

Proved with TLAPS for every value of the constants that satisfies the modules' assumptions
(amounts and bounds are natural numbers, contexts are assigned to requests, the sets of channels,
users and MCP servers are finite, only the three handlers that can write to the Response API
bridge do, an upstream numbers its tool calls from 0 without gaps; nothing is assumed about how
many requests, attempts, rounds, lines, administrators, handlers, ids, channels or pools there
are). Each invariant below was checked by TLC on the instance of the
module's run, or a smaller one, before it was proved. In every module the proof has one lemma per
action or group of actions, and one that says what a step leaves alone, so that each request,
transaction or channel is looked at by itself.

| Module | Theorems | States |
|---|---|---|
| `RelayBilling_proofs` | `TypeCorrect`, `SolvencyTheorem`, `RefundTheorem`, `SettlementTheorem`, `TokenTheorem`, `RetryCostTheorem` | types, `Solvent`, `NeverOverRefunded`, `ExactSettlement`, `TokenFollowsUser`, `RetryCostBounded` |
| `MediaBilling_proofs` | `InvariantTheorem`, `SettledTheorem`, `CostTheorem` | `SettledExactly`, `CostBounded` |
| `Consumption_proofs` (updater) | `AccountingTheorem`, `FlushTheorem`, `RefinementTheorem` | `Accounting`, `StopFlushesAll`, `ImplementsLedger` |
| `Consumption_proofs` (tool loop) | `PaidTheorem`, `CallsTheorem` | `PaidExactly`, `CallsSettled` |
| `PoolsAndStreams_proofs` (pools) | `PoolInvariant`, `BudgetTheorem`, `RecallTheorem`, `FrozenTheorem`, `ReconciledTheorem`, `ConservationTheorem` | `WithinBudget`, `RecalledBounded`, `ClosedPoolFrozen`, `Reconciled`, `Conservation` |
| `PoolsAndStreams_proofs` (streams) | `UsageTheorem`, `ShapeTheorem`, `CallsIntactTheorem` | `UsageReturned`, `WellFormed`, `CallsIntact` |
| `ExternalBilling_proofs` | `BooksTheorem`, `LateTheorem`, `FinalTheorem` | `BooksBalance`, `NoLateSettlement`, `TerminalIsFinal` |
| `UserAccounts_proofs` | `LedgerTheorem`, `CreditsTheorem`, `BlacklistTheorem` | `LedgerExact`, `CreditsPaid`, `BlacklistAgrees` |
| `ChannelRouting_proofs` | `AttemptsTheorem`, `BlameTheorem`, `DisabledTheorem` | `AttemptsOnce`, `BlamedFailed`, `NeverToDisabled` |
| `ChannelStatus_proofs` | `AgreeTheorem` | `AbilitiesAgree` |

- *RelayBilling*. `Solvent` needs types only: every update of a row is guarded by `Covers`,
  whatever was read before, and refunds add. The settlement properties speak of requests at rest,
  so the invariant `Books` says what an attempt has cost at every other moment: it relates
  `userPaid` to the place of the handler (`Locals`), the billing keys of the context it holds
  (`Marks`), the `PostConsumeTokenQuota` calls under way and the leg each is in (`CallsOf`), with
  a part for each question: what is taken so far (`UserBooks`), what the bill will make of it
  (`BillBooks`), what a failure keeps (`FailBooks`), what a refund may still give back
  (`RefundBooks`), and by how much the token's row is ahead of the user's (`TokenBooks`).
  `Owners` (one live request per context) is what makes the marks trustworthy.
- *MediaBilling*. At most one call of an attempt is under way (`OneTask`), though calls of several
  attempts may be. So each attempt has an amount that it will have cost once its call is done
  (`Ends`): the reservation while the helper runs (`Held`), what a bill or a failure leaves
  (`Closed`), at most what it was worth once Relay has gone on (`Past`). A refund that looks at the
  forwarded mark late finds it set already (`TaskMarks`), which is why the shared mark does no harm
  to attempts that are past. `Session` ties the meter of a realtime session to the responses.
- *BatchUpdater*. `Accounting` is not inductive: when the last key is written the map is
  forgotten, so that nothing may be left in it (`TodoCoversBatch`). `FlushInv` says that each
  store the final flush has been through holds late records only. The refinement maps every step
  to a step of the ledger or a stutter: `Swap` seals, `Write` applies or drops, the rest stutters.
- *BudgetPool*. `LockHolds` says what a recall under way knows about the rows it has read: that
  its pool is active and the amount is still there, because every operation that could change it
  waits for the lock; `Blank`, that rows not inserted yet are empty. The action property follows
  from a step lemma with the same invariant. `Reconciled` and `Conservation` are sums over sets,
  defined by a recursive function. What a sum becomes when one summand changes would be an
  induction over the set; it is proved by taking a smallest set for which it fails and removing
  one element from it. With that, each step moves an amount between two summands or into one; the
  rows of ids that nobody has (`Orphans`) are a summand of their own.
- *McpToolLoop*. `LoopInv` relates the user's row to the place of the loop: what rounds have
  reserved (`RoundsCharged`), what the attempt has taken so far and what earlier attempts kept
  (`PaidSoFar`); and the calls to the conversation: a call with an id that ran is marked as executed
  (`RunsMarked`), its cost is in the bill when its result is in the history (`CostsAnswered`), and
  what went upstream answers every call but the dropped ones (`HistoryKept`).
- *StreamRelay*. `UsageInv` is for `UsageReturned`: what a handler has counted is what it has been
  sent (`CountedOnce`), and what it keeps of the usage (`Gathered`). `ShapeInv` is for the other
  two. Its centre is the predicate `Log(o, S, C, M)`: in the sequence `o` the blocks `S` were
  started once and before their deltas, `C` of them closed once and after, and other events are
  of the kinds `M`. It is stated of what each kind of handler has written, with `S` read off the
  handler's own state (`ClaudeOK`, `BridgeOK`, `FinalOK`, `PlainOK`), so that a state and an
  answer that disagree are excluded. A lemma for each way of writing (append a delta, open,
  close one, close all) says how `Log` changes. For the bridge, `Table` says that its three tables
  of calls agree and `Numbering` which key every upstream call has in each dialect: that is why
  no late or missing id splits or joins calls (`ItemOfCall`). The buffered handler writes all its
  blocks at the end; that their concatenation is a `Log` is again shown by a smallest prefix that
  is none. When a handler returns, `EndOK` says what may have been written after the `Log`.
- *ExternalBilling*. `Taken` says what a transaction has taken at each statement of the call that
  works on it, the compensations included (`Half` between the token's and the user's part of a
  reservation); `Told`, what its log entry says by then; `LateHolds`
  that a hold that was due when a call began is still to be confirmed by it, or is confirmed. `Structure` holds the
  types and who works on what. `TerminalIsFinal` is an action property of the same invariant.
- *UserAccounts*. A call's copy of the balance is right while it is not stale (`CopyFresh`); a code
  has paid as often as it was enabled, except for the one being redeemed (`CodesOwed`); only one
  status change is under way on a row that did not overlap, and between its change of the
  blacklist and its save the two disagree only by what it is about to write (`OneSetter`,
  `Halfway`), so that it restores the agreement whether the save succeeds or fails
  (`AloneRestores`).
- *ChannelRouting*. In the retry loop the failed set holds every channel of the trail but the one
  being tried (`Trail`); the variable that pending goroutines will read names a channel that has
  failed (`Blame`); `Held` keeps pinned requests where they are. What the cache and a rebuild
  under way hold is enabled but for the channels written since their queries (`Cached`), and an
  ability that is not torn disagrees with its channel's status only where one worker is between
  its two writes (`Rows`): hence `NeverToDisabled`, which allows an attempt on a disabled channel
  only in that window and never through a binding or a sticky session.
- *ChannelStatus*. A program writes the two tables in separate statements, so that they disagree
  in its middle: `Staged` says what a channel's rows are before each statement of the only program
  on it, `Alone` that there is only one unless programs overlapped, `Fresh` that an id that was
  not given out has no rows.

Only model-checked:

- liveness, which the prover does not reach (`EventuallyRefunded`, `EventuallySettled`,
  `NothingWaitsForever`, `EventuallyFresh`, `EventuallyReturns`,
  `CacheCatchesUp`, `ReturnsWhenClientLeaves`).

Every invariant and action property that a passing run checks is a theorem.

## 6. Not modelled

Listed with reasons under `components` in `PROJECT.json`. The models stand for about a ninth of
the implementation's lines. Most of the rest has no state that steps could reach in a wrong order:

- conversions of requests and of whole answers by some fifty adaptors and `relay/format`: functions
  of one message, which a test reaches as well as a model does;
- tables of models, ratios and prices, and the floating-point arithmetic over them; prices are
  inputs of the billing models;
- configuration and option parsing, migrations, telemetry, logging, e-mail;
- listing, searching and form-like CRUD endpoints, statistics over logs;
- identity protocols (OAuth, passkeys, TOTP), whose state is in external services and sessions;
- the web front end, command line tools and live tests.

Hazards that no property covers have a note in `PROJECT.json`: those where the code does not do what
it should (section 4), whole rows saved from an old copy (`user.go:215`, which `LedgerExact`
excepts), redemptions that overlap (`redemption.go:92`, which `CreditsPaid` excludes by its premise
`Serial`), the billing timeout that ends a critical task while its inner goroutine goes on
(`text.go:433`) and the separate commands of the Redis rate limiter (`rate-limit.go:44`). Batch mode's
unguarded decrements (`utils.go:207`) and the flag of the test sweep (`channel_testing.go:412`, which
only a restart resets once the list of channels could not be read) are not listed: the code promises
nothing about either.

## 7. Plan

1. Done: request, media, tool-loop, pool and external billing; the batch updater and the ledger it
   implements; routing and channel status; accounts and credits; stream handlers; the proofs of
   section 5.
2. Rate limiting in memory (exact window) and in Redis (separate commands).
3. Token cache in Redis: a stale copy after `clearTokenCache`.
4. Composition of `RelayBilling` with `BatchUpdater`: batch mode and the billing timeout.
5. An abstract account (reserve, settle, refund) that `RelayBilling` without retries and
   `ExternalBilling` without shared transactions implement.
