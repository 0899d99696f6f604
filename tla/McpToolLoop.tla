---------------------------- MODULE McpToolLoop ----------------------------
(***************************************************************************)
(* Multi-round execution of MCP tools for one request.  Each round         *)
(* pre-consumes quota, asks the upstream model, runs the tool calls of its *)
(* answer on the MCP servers and sends the results back in the next round; *)
(* the answer without tool calls goes to the client and the whole loop is  *)
(* billed once, less what the rounds have charged.                         *)
(*                                                                         *)
(* Four helpers run a loop.  "text" and "response" (the Response API over  *)
(* chat) and "claude" (MCP aliases in a Claude request, found only after   *)
(* a first upstream call has been made) use executeChatMCPToolLoop;        *)
(* "search" (Claude tool search) uses executeClaudeToolSearchMCPLoop,      *)
(* whose tools never fail the loop.  Relay may run a failed helper again   *)
(* on another channel with the same gin context.                           *)
(*                                                                         *)
(* There is one tool name, published by several servers.  The token is     *)
(* unlimited; other requests of the user spend from the same row.          *)
(***************************************************************************)
EXTENDS Integers, Sequences, FiniteSets

CONSTANTS
  Helpers,      \* subset of {"text", "response", "claude", "search"}
  Servers,      \* MCP servers that publish the tool
  Policy,       \* Policy[s]: the server's row and the blacklists of the request
  CallIds,      \* tool_call_id values the model may use
  NoCallId,     \* the empty one
  MaxCalls,     \* bound on the calls of one answer
  Quota0,       \* users.quota
  PreQuota,     \* estimate of the helper's own pre-consumption
  RoundQuota,   \* estimate of a round
  Prices,       \* what the tokens of one answer may cost
  MaxRounds,    \* config.MCPMaxToolRounds
  MaxAttempts,  \* 1 + retry times
  MaxSpend      \* bound on what other requests spend

ASSUME McpAssumption ==
  /\ Helpers \subseteq {"text", "response", "claude", "search"}
  /\ Policy \in [Servers -> [priority : Int, enabled : BOOLEAN, whitelisted : BOOLEAN,
                              blacklisted : BOOLEAN, cost : Nat]]
  /\ Quota0 \in Nat /\ PreQuota \in Nat /\ RoundQuota \in Nat /\ Prices \subseteq Nat
  /\ MaxCalls \in Nat /\ MaxRounds \in Nat \ {0} /\ MaxAttempts \in Nat \ {0}
  /\ MaxSpend \in Nat /\ IsFiniteSet(Servers)

VARIABLES
  helper, sdk,          \* who runs the loop; sdk: the adaptor never marks the request forwarded
  pc, attempt,
  quota, spent,         \* users.quota and what other requests took from it
  pre,                  \* preConsumedQuota of the helper
  forwarded,            \* mark of the gin context, kept between attempts
  reqCost,              \* the row of user_request_costs
  loop,                 \* the local variables of the loop
  kept, ran, ranCost, answeredCost, dropped, unbilled
                        \* what really happened (audit only)

request == <<helper, sdk>>
audit   == <<kept, ran, ranCost, answeredCost, dropped, unbilled>>
loopVars    == <<request, pc, attempt, quota, spent, pre, forwarded, reqCost, loop, audit>>

PCs == {"begin", "probe", "round", "sent", "exec", "respond", "billing", "done", "failed"}

----------------------------------------------------------------------------
\* ResolveTools: the whitelist must name the tool and no blacklist may.
Allowed(s) == Policy[s].enabled /\ Policy[s].whitelisted /\ ~Policy[s].blacklisted

\* BuildToolCandidates: by priority, shuffled among equals.
Candidates ==
  LET on == {s \in Servers : Allowed(s)} IN
  {o \in [1..Cardinality(on) -> on] :
     /\ \A i, j \in DOMAIN o : i # j => o[i] # o[j]
     /\ \A i, j \in DOMAIN o : i < j => Policy[o[i]].priority >= Policy[o[j]].priority}

FreshLoop == [
  order |-> <<>>,      \* candidatesByName of the tool
  selected |-> 1,      \* selectedIndex of the tool
  round |-> 0, incr |-> 0, price |-> 0, tools |-> 0,
  total |-> 0, snapshot |-> 0,         \* summary.TotalCost, previousCost
  executed |-> {}, pending |-> <<>>, results |-> {},
  current |-> {}, asked |-> {}, answered |-> {}]  \* request.Messages, as call ids

\* The tool calls of an answer, by id; an id may come twice, in one answer or in
\* later ones.
Answers == UNION {[1..n -> CallIds] : n \in 0..MaxCalls}

LoopInit ==
  /\ helper \in Helpers /\ sdk \in BOOLEAN
  /\ pc = "begin" /\ attempt = 1
  /\ quota = Quota0 /\ spent = 0 /\ pre = 0
  /\ forwarded = FALSE /\ reqCost = 0
  /\ loop = FreshLoop
  /\ kept = 0 /\ ran = [i \in CallIds |-> 0] /\ ranCost = 0 /\ answeredCost = 0
  /\ dropped = {} /\ unbilled = 0

ChatLoop == helper # "search"

\* Another request of the user is billed.
Spend ==
  /\ quota > 0 /\ spent < MaxSpend
  /\ quota' = quota - 1 /\ spent' = spent + 1
  /\ UNCHANGED <<request, pc, attempt, pre, forwarded, reqCost, loop, audit>>

----------------------------------------------------------------------------
\* The helper gives up.  returnPreConsumedQuotaConservative takes its own
\* reservation back unless the request may have been forwarded; what earlier
\* rounds charged stays charged.  Relay runs the helper again when the error
\* is retryable.
Fails(retryable, l, bal) ==
  LET refund == IF forwarded' THEN 0 ELSE pre
      again  == retryable /\ attempt < MaxAttempts
  IN /\ quota' = bal + refund
     /\ kept' = kept + pre - refund + l.incr
     /\ pre' = 0
     /\ loop' = FreshLoop
     /\ pc' = IF again THEN "begin" ELSE "failed"
     /\ attempt' = IF again THEN attempt + 1 ELSE attempt

\* preConsumeQuota of the helper and the construction of the registry; a
\* trusted user is not charged ahead.
Begin ==
  /\ pc = "begin"
  /\ \E p \in {0, PreQuota} :
       /\ quota >= PreQuota
       /\ quota' = quota - p /\ pre' = p
  /\ \E o \in Candidates : loop' = [FreshLoop EXCEPT !.order = o]
  /\ pc' = IF helper = "claude" THEN "probe" ELSE "round"
  /\ answeredCost' = 0 /\ ranCost' = 0 /\ dropped' = {}
  /\ UNCHANGED <<request, attempt, spent, forwarded, reqCost, kept, ran, unbilled>>

BeginRefused_Uncounted ==
  /\ pc = "begin" /\ quota < PreQuota
  /\ UNCHANGED loopVars
BeginRefused ==
  /\ pc = "begin" /\ quota < PreQuota
  /\ pc' = IF attempt < MaxAttempts THEN "begin" ELSE "failed"
  /\ attempt' = IF attempt < MaxAttempts THEN attempt + 1 ELSE attempt
  /\ UNCHANGED <<request, quota, spent, pre, forwarded, reqCost, loop, audit>>

\* DoRequestHelper marks the request as forwarded; a vendor SDK does not.
Marks == forwarded' = (forwarded \/ ~sdk)

\* RelayClaudeMessagesHelper looks for MCP aliases after its own upstream
\* request succeeded; that answer is not used.
Probe ==
  /\ pc = "probe"
  /\ Marks
  /\ \/ /\ pc' = "round" /\ reqCost' = PreQuota
        /\ UNCHANGED <<attempt, quota, pre, loop, kept>>
     \/ /\ \E retryable \in BOOLEAN : Fails(retryable, loop, quota)
        /\ reqCost' \in {reqCost, 0}   \* 0 when the upstream sent an error status
  /\ UNCHANGED <<request, spent, ran, ranCost, answeredCost, dropped, unbilled>>

----------------------------------------------------------------------------
\* preConsumeMCPRoundQuota, preConsumeQuotaForMCPRound
StartRound_KeepsLast ==
  /\ pc = "round" /\ loop.round < MaxRounds
  /\ quota >= RoundQuota
  /\ quota' = quota - RoundQuota
  /\ loop' = [loop EXCEPT !.round = @ + 1, !.incr = RoundQuota]
  /\ reqCost' = IF ChatLoop THEN pre + loop'.incr ELSE reqCost
  /\ pc' = "sent"
  /\ UNCHANGED <<request, attempt, spent, pre, forwarded, audit>>
StartRound ==
  /\ pc = "round" /\ loop.round < MaxRounds
  /\ quota >= RoundQuota
  /\ quota' = quota - RoundQuota
  /\ loop' = [loop EXCEPT !.round = @ + 1, !.incr = @ + RoundQuota]
  /\ reqCost' = IF ChatLoop THEN pre + loop'.incr ELSE reqCost
  /\ pc' = "sent"
  /\ UNCHANGED <<request, attempt, spent, pre, forwarded, audit>>

\* The user cannot pay for another round (403, retried), or the rounds are
\* used up (400, not retried).
RoundRefused ==
  /\ pc = "round"
  /\ loop.round = MaxRounds \/ quota < RoundQuota
  /\ UNCHANGED forwarded
  /\ Fails(loop.round < MaxRounds, loop, quota)
  /\ UNCHANGED <<request, spent, reqCost, ran, ranCost, answeredCost, dropped, unbilled>>

\* doChatRequestOnce or doClaudeRequestOnce fails, before or after the
\* request left; the round's charge is returned in either case.
UpstreamFails ==
  /\ pc = "sent"
  /\ Marks \/ UNCHANGED forwarded
  /\ \E retryable \in BOOLEAN :
       Fails(retryable, [loop EXCEPT !.incr = @ - RoundQuota], quota + RoundQuota)
  /\ reqCost' = IF ChatLoop THEN pre + loop.incr - RoundQuota ELSE reqCost
  /\ UNCHANGED <<request, spent, ran, ranCost, answeredCost, dropped, unbilled>>

\* The answer, with calls of MCP tools and perhaps a call of a tool of the
\* client (foreign).  Without MCP calls it goes to the client; the chat loop
\* also hands over a mixed answer, the search loop runs the MCP calls of it.
UpstreamAnswers ==
  /\ pc = "sent" /\ Marks
  /\ \E p \in Prices, a \in Answers, foreign \in BOOLEAN :
       LET ids == {a[i] : i \in DOMAIN a}
           runs == a # <<>> /\ ~(foreign /\ ChatLoop)
           l == [loop EXCEPT !.price = @ + p]
       IN /\ reqCost' = IF ChatLoop THEN l.price + l.tools ELSE reqCost
          /\ pc' = IF runs THEN "exec" ELSE "respond"
          /\ loop' = IF ~runs THEN l
                     ELSE [l EXCEPT !.pending = a, !.results = {}, !.snapshot = l.total,
                             !.current = ids \cup (IF foreign THEN {"foreign"} ELSE {})]
  /\ UNCHANGED <<request, attempt, quota, spent, pre, audit>>

----------------------------------------------------------------------------
\* callMCPToolWithFallback: candidates from the selected one on, each tried
\* when those before it failed.  The first is tried whatever its schema, a
\* later one only when the arguments satisfy it (fits: the servers whose
\* schema they satisfy).  A cancelled context ends the search at any of them.
Fallback(fits) ==
  LET n == Len(loop.order)
      fit(a, b) == \A j \in a..b : loop.order[j] \in fits
  IN {[is |-> "ok", at |-> k] :
        k \in {k \in loop.selected..n : fit(loop.selected + 1, k)}}
     \cup {[is |-> "mismatch", at |-> k] :
             k \in {k \in (loop.selected + 1)..n :
                      loop.order[k] \notin fits /\ fit(loop.selected + 1, k - 1)}}
     \cup {[is |-> "error", at |-> 0]}

\* setSelectedCandidate, rebuildRequestTools and the loop's continue: the
\* round's messages go, and only the call that did not fit may run again.
Reissue_ForgetsAll(c, k) ==
  [loop EXCEPT !.selected = k, !.pending = <<>>, !.current = {}, !.results = {},
               !.executed = {}]
Reissue(c, k) ==
  [loop EXCEPT !.selected = k, !.pending = <<>>, !.current = {}, !.results = {},
               !.executed = @ \ {c}]

\* executeMCPToolCalls, one call.  A call without an id is not recorded, so it
\* is never skipped.
Recorded(c) == {c} \ {NoCallId}

SkipCall ==
  /\ pc = "exec" /\ loop.pending # <<>>
  /\ Head(loop.pending) \in loop.executed
  /\ loop' = [loop EXCEPT !.pending = Tail(@)]
  /\ UNCHANGED <<request, pc, attempt, quota, spent, pre, forwarded, reqCost, audit>>

CallTool ==
  /\ pc = "exec" /\ loop.pending # <<>>
  /\ UNCHANGED forwarded
  /\ LET c == Head(loop.pending) IN
     /\ c \notin loop.executed
     /\ \E fits \in SUBSET {s \in Servers : Allowed(s)} : \E r \in Fallback(fits) :
        LET marked == [loop EXCEPT !.executed = @ \cup Recorded(c), !.pending = Tail(@)]
            cost   == Policy[loop.order[r.at]].cost
        IN \/ /\ r.is = "ok"
              /\ loop' = [marked EXCEPT !.total = @ + cost, !.results = @ \cup {c}]
              /\ ran' = [i \in CallIds |-> IF i \in Recorded(c) THEN ran[i] + 1 ELSE ran[i]]
              /\ ranCost' = ranCost + cost
              /\ UNCHANGED <<pc, attempt, quota, pre, kept, dropped>>
           \/ /\ r.is = "mismatch" /\ ChatLoop
              /\ loop' = Reissue(c, r.at) /\ pc' = "round"
              /\ dropped' = dropped \cup loop.results
              /\ UNCHANGED <<attempt, quota, pre, kept, ran, ranCost>>
           \/ /\ r.is = "error" /\ ChatLoop
              /\ \E cancelled \in BOOLEAN : Fails(~cancelled, loop, quota)
              /\ UNCHANGED <<ran, ranCost, dropped>>
           \/ /\ r.is # "ok" /\ ~ChatLoop   \* the error is the result
              /\ loop' = [marked EXCEPT !.results = @ \cup {c}]
              /\ UNCHANGED <<pc, attempt, quota, pre, kept, ran, ranCost, dropped>>
  /\ UNCHANGED <<request, spent, reqCost, answeredCost, unbilled>>

\* applyMCPToolCostDelta
CostDelta == loop.total - loop.snapshot

\* The round's messages become part of the request.  A chat round in which
\* every call was skipped ends the loop; the search loop adds no tool cost.
EndRound ==
  /\ pc = "exec" /\ loop.pending = <<>>
  /\ loop' = [loop EXCEPT
       !.tools = IF ChatLoop THEN @ + CostDelta ELSE @,
       !.asked = @ \cup loop.current, !.answered = @ \cup loop.results, !.current = {}]
  /\ reqCost' = IF ChatLoop THEN loop'.price + loop'.tools ELSE reqCost
  /\ answeredCost' = answeredCost + loop.total - loop.snapshot
  /\ pc' = IF ChatLoop /\ loop.results = {} THEN "respond" ELSE "round"
  /\ UNCHANGED <<request, attempt, quota, spent, pre, forwarded, kept, ran, ranCost,
                 dropped, unbilled>>

----------------------------------------------------------------------------
\* The answer is written to the client.  "text" and "response" then call
\* returnPreConsumedQuotaConservative, whatever the bill subtracts later.
Respond ==
  /\ pc = "respond"
  /\ UNCHANGED forwarded
  /\ \/ /\ quota' = quota + (IF helper \in {"text", "response"} /\ ~forwarded
                             THEN pre ELSE 0)
        /\ pc' = "billing"
        /\ UNCHANGED <<attempt, pre, loop, kept>>
     \/ helper # "text" /\ Fails(TRUE, loop, quota)
  /\ UNCHANGED <<request, spent, reqCost, ran, ranCost, answeredCost, dropped, unbilled>>

\* postConsumeQuota, postConsumeClaudeMessagesQuotaWithTraceID: the total less
\* what was charged ahead.  A user who cannot pay the rest is not charged.
Bill ==
  /\ pc = "billing"
  /\ LET total == loop.price + loop.tools
         delta == total - pre - loop.incr
     IN /\ quota' = IF quota >= delta THEN quota - delta ELSE quota
        /\ unbilled' = IF quota >= delta THEN 0 ELSE delta
        /\ reqCost' = total
  /\ pc' = "done"
  /\ UNCHANGED <<request, attempt, spent, pre, forwarded, loop, kept, ran, ranCost,
                 answeredCost, dropped>>

Step == \/ Begin \/ BeginRefused \/ Probe
        \/ StartRound \/ RoundRefused \/ UpstreamFails \/ UpstreamAnswers
        \/ SkipCall \/ CallTool \/ EndRound \/ Respond \/ Bill

LoopNext == Step \/ Spend

\* The steps that end by themselves: database statements, and calls of MCP
\* servers, which MCP_TOOL_CALL_TIMEOUT bounds (60 s).  The upstream model has
\* no time limit unless RELAY_TIMEOUT is configured, nor has a client that
\* does not read its answer.
Own == \/ Begin \/ BeginRefused \/ StartRound \/ RoundRefused
       \/ SkipCall \/ CallTool \/ EndRound \/ Bill

LoopSpec == LoopInit /\ [][LoopNext]_loopVars /\ WF_loopVars(Own)

----------------------------------------------------------------------------
\* The variables have their types.
LoopTypeOK ==
  /\ helper \in Helpers /\ sdk \in BOOLEAN /\ pc \in PCs /\ attempt \in 1..MaxAttempts
  /\ quota \in Nat /\ spent \in 0..MaxSpend /\ pre \in {0, PreQuota}
  /\ forwarded \in BOOLEAN /\ reqCost \in Int
  /\ loop.round \in 0..MaxRounds /\ loop.selected \in Nat \ {0}
  /\ loop.pending \in Seq(CallIds) /\ loop.executed \subseteq CallIds
  /\ kept \in Nat /\ ran \in [CallIds -> Nat] /\ dropped \subseteq CallIds

Charged == Quota0 - quota - spent

\* executeChatMCPToolLoop charges every round and the final bill subtracts the
\* sum: at each moment the user has paid for the reservation and for the
\* rounds that were sent, and in the end for the tokens of all rounds plus the
\* tool costs, on top of what failed attempts kept.  A failed attempt keeps
\* its reservation, if it may have been forwarded, and RoundQuota for each
\* round that the upstream answered.
PaidExactly ==
  /\ pc \in {"exec", "respond", "billing", "round"} => loop.incr = RoundQuota * loop.round
  /\ pc \in {"round", "sent", "exec", "respond", "failed"} =>
       Charged = kept + pre + loop.incr
  /\ pc = "done" /\ forwarded =>
       Charged + unbilled = kept + loop.price + loop.tools /\ reqCost = loop.price + loop.tools

\* A tool's cost is added to the bill when, and only when, its result went
\* into the conversation, although TotalCost also counts the calls of a round
\* that a schema mismatch discarded.
ToolCostOnce == ChatLoop /\ pc \in {"round", "billing"} => loop.tools = answeredCost

\* Deduplication by tool_call_id: no call with an id runs twice in one attempt,
\* even when a reissued round repeats ids (docs/arch/mcp_aggregator.md,
\* Execution loop).
RunsOncePerAttempt == \A i \in CallIds \ {NoCallId} : ran[i] <= attempt

\* A chat request never goes upstream with a tool call that has no result,
\* except for calls whose results a schema mismatch threw away.
HistoryAnswered ==
  ChatLoop /\ pc = "sent" => loop.asked \ loop.answered \subseteq dropped

\* The loop ends: tool rounds, candidates and attempts are bounded.  Only the
\* upstream model or the client can keep it waiting.
EventuallyReturns ==
  <>(pc \in {"done", "failed"}) \/ <>[](pc \in {"probe", "sent", "respond"})

\* Tool calls run once, are billed once and are answered, taken together.
CallsSettled == LoopTypeOK /\ RunsOncePerAttempt /\ ToolCostOnce /\ HistoryAnswered

============================================================================
