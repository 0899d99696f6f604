----------------------------- MODULE StreamRelay -----------------------------
(***************************************************************************)
(* One streamed answer on its way to the client.  A handler reads the      *)
(* upstream's lines and forwards, converts or rewrites them:               *)
(*   claude     ConvertOpenAIStreamToClaudeSSE: chat chunks to Claude      *)
(*              events                                                     *)
(*   unified    UnifiedStreamProcessing, the OpenAI-compatible providers   *)
(*   openai     openai.StreamHandler, with a quota tracker for chat        *)
(*   direct     ResponseAPIDirectStreamHandler, passed through             *)
(*   anthropic  anthropic.StreamHandler: Claude events to chat chunks      *)
(*   native     ClaudeNativeStreamHandler, passed through                  *)
(*   converted  ResponseAPIStreamHandler: Response API events to chunks    *)
(*   buffered   gemini's convertStreamingToClaudeResponse: Claude events   *)
(*              once the whole stream has been read                        *)
(*   or one of the provider's own handlers (ProviderStreams),              *)
(* and unified, openai and anthropic may write to the bridge that turns    *)
(* chat chunks into Response API events (chatToResponseStreamBridge).      *)
(*                                                                         *)
(* What the client gets is the sequence out.  An event that belongs to a   *)
(* content block or output item has its index b, and the upstream tool     *)
(* call it came from.  A [DONE] is "done" when the gateway makes it and    *)
(* "relayed" when it is the upstream's, passed on before the handler ends. *)
(***************************************************************************)
EXTENDS Integers, Sequences, FiniteSets, SequencesExt, ProviderStreams

CONSTANTS
  Handlers,   \* [kind, bridge]: the handlers of this instance
  Dialects,   \* how upstreams number the deltas of a tool call
  Calls,      \* tool calls of the upstream's answer, from 0
  MaxLines    \* bound on the lines of an answer

ASSUME StreamAssumption ==
  /\ Handlers \subseteq [kind : {"claude", "unified", "openai", "direct", "anthropic", "native",
                                 "converted", "buffered"} \cup DOMAIN Provider,
                         bridge : BOOLEAN]
  /\ Dialects \subseteq {"openai", "repeated", "late", "bare"}
  /\ \A h \in Handlers : h.bridge => h.kind \in {"unified", "openai", "anthropic"}
  /\ Calls \subseteq Nat /\ (\A k \in Calls : 0..k \subseteq Calls) /\ MaxLines \in Nat

VARIABLES
  hdl, dialect,  \* this stream's handler and upstream
  pc,            \* "poll", "stream" or "returned"
  tp,            \* ThinkingProcessor: before, inside or after the first tag
  cl,            \* ConvertOpenAIStreamToClaudeSSE: its block indices
  br,            \* chatToResponseStreamBridge: its tables of tool calls
  fin,           \* streamfinalizer.Finalizer
  out,           \* what the client got
  count,         \* deltas the handler would count tokens of
  usage,         \* none, given by the upstream, computed, or of the prompt
  err,           \* TRUE: an error was returned
  gone,          \* the client has disconnected
  up             \* what the upstream really sent (audit, and lines so far)

streamVars == <<hdl, dialect, pc, tp, cl, br, fin, out, count, usage, err, gone, up>>

None == -1
NoId == <<>>
Event(e, b, k) == [e |-> e, b |-> b, call |-> k]
Mark(e) == Event(e, None, None)
Deltas == [text |-> 0, think |-> 0, args |-> 0]

StreamInit ==
  /\ hdl \in Handlers /\ dialect \in Dialects
  /\ hdl.kind = "claude" \/ hdl.bridge \/ dialect = "openai"    \* others pass ids on
  /\ pc = IF hdl.kind \in DOMAIN Provider /\ Provider[hdl.kind].polls THEN "poll" ELSE "stream"
  /\ tp = "before"
  /\ cl = [next |-> 0, think |-> None, text |-> None, tools |-> <<>>]
  /\ br = [started |-> FALSE, calls |-> <<>>, byIndex |-> <<>>, order |-> <<>>, states |-> <<>>]
  /\ fin = [id |-> FALSE, stop |-> FALSE, meta |-> FALSE, sent |-> FALSE]
  /\ out = IF hdl.kind = "claude" THEN <<Mark("start")>> ELSE <<>>
  /\ count = Deltas /\ usage = "none" /\ err = FALSE /\ gone = FALSE
  /\ up = [lines |-> 0, chunks |-> 0, done |-> FALSE, usage |-> FALSE, sent |-> Deltas,
           begun |-> {}, bare |-> None]

\* A partial function with one more point.
With(f, x, y) == [z \in DOMAIN f \cup {x} |-> IF z = x THEN y ELSE f[z]]

----------------------------------------------------------------------------
\* ThinkingProcessor.  Text is plain, has the opening tag, the closing tag, or
\* a whole block; it becomes content, reasoning or both.
Texts == {"plain", "opens", "closes", "block"}

Split(t) ==
  CASE tp = "before" /\ t = "opens"  -> [clean |-> FALSE, think |-> TRUE, tp |-> "inside"]
    [] tp = "before" /\ t = "block"  -> [clean |-> TRUE, think |-> TRUE, tp |-> "after"]
    [] tp = "inside" /\ t \in {"closes", "block"}
                                     -> [clean |-> TRUE, think |-> TRUE, tp |-> "after"]
    [] tp = "inside" /\ t \in {"plain", "opens"}
                                     -> [clean |-> FALSE, think |-> TRUE, tp |-> "inside"]
    [] OTHER                         -> [clean |-> TRUE, think |-> FALSE, tp |-> tp]

\* The deltas of an upstream tool call: the id, its index, and arguments or not.
Tool(k, args) ==
  LET first == k \notin up.begun IN
  [call |-> k, args |-> args,
   id  |-> IF hdl.kind = "anthropic" THEN IF first THEN <<"up", k>> ELSE NoId
           ELSE CASE dialect = "openai"   -> IF first THEN <<"up", k>> ELSE NoId
                  [] dialect = "repeated" -> <<"up", k>>
                  [] dialect = "late"     -> IF first THEN NoId ELSE <<"up", k>>
                  [] dialect = "bare"     -> NoId,
   idx |-> IF hdl.kind = "anthropic" THEN 0          \* tools is empty at every event
           ELSE IF dialect = "repeated" THEN None ELSE k]

----------------------------------------------------------------------------
\* The Claude converter.  A state s has the indices c and the output o.
State == [c |-> cl, o |-> out]

BlockDelta(s, f) ==
  IF s.c[f] = None
  THEN [c |-> [s.c EXCEPT ![f] = s.c.next, !.next = @ + 1],
        o |-> s.o \o <<Event("open", s.c.next, None), Event("delta", s.c.next, None)>>]
  ELSE [s EXCEPT !.o = Append(@, Event("delta", s.c[f], None))]

ToolBlock(s, t, id) ==
  LET new == id \notin DOMAIN s.c.tools
      idx == IF new THEN s.c.next ELSE s.c.tools[id]
  IN [c |-> IF new THEN [s.c EXCEPT !.next = @ + 1, !.tools = With(@, id, idx)] ELSE s.c,
      o |-> s.o \o (IF new THEN <<Event("open", idx, t.call)>> ELSE <<>>)
                \o (IF t.args THEN <<Event("delta", idx, t.call)>> ELSE <<>>)]

\* A delta without an id gets one made of the next block index.
ToolDelta(s, t) == ToolBlock(s, t, IF t.id = NoId THEN <<"tool", s.c.next>> ELSE t.id)

\* At the end every started block is stopped; message_stop only after [DONE].
OpenBlocks == ({cl.think, cl.text} \ {None}) \cup {cl.tools[i] : i \in DOMAIN cl.tools}
CloseAll(S) == SetToSeq({Event("close", b, None) : b \in S})
MessageStop(done) == out \o CloseAll(OpenBlocks) \o (IF done THEN <<Mark("stop")>> ELSE <<>>)

----------------------------------------------------------------------------
\* The bridge.  A state s has the tables b and the output o.
Bridge == [b |-> br, o |-> out]

ensureInitialized(s) ==
  IF s.b.started THEN s
  ELSE [b |-> [s.b EXCEPT !.started = TRUE],
        o |-> s.o \o <<Mark("created"), Event("open", 0, None)>>]

appendTextDelta(s) == [s EXCEPT !.o = Append(@, Event("delta", 0, None))]
appendReasoningDelta(s) == [s EXCEPT !.o = Append(@, Mark("reasoning"))]

\* The state of a call: by id, else by the index it came with, else by the
\* position of that index.  0: there is none.
FindCall(b, t) ==
  IF t.id \in DOMAIN b.calls THEN b.calls[t.id]
  ELSE IF t.idx \in DOMAIN b.byIndex THEN b.byIndex[t.idx]
  ELSE IF t.idx >= 0 /\ t.idx < Len(b.order) /\ b.order[t.idx + 1] \in DOMAIN b.calls
       THEN b.calls[b.order[t.idx + 1]] ELSE 0

\* An id that arrives late replaces the one made up for the call.
Renamed_InMapOnly(order, q, id) == order
Renamed(order, q, id) == [order EXCEPT ![q] = id]

\* A new state takes the next output index.
ensureToolCallState(s, t) ==
  LET p    == FindCall(s.b, t)
      new  == p = 0
      q    == IF new THEN Len(s.b.states) + 1 ELSE p
      id   == IF t.id # NoId THEN t.id ELSE IF new THEN <<"call", q>> ELSE s.b.states[p].id
      old  == IF new THEN s.b.calls
              ELSE [i \in DOMAIN s.b.calls \ {s.b.states[p].id} |-> s.b.calls[i]]
  IN [b |-> [s.b EXCEPT !.calls   = With(old, id, q),
                        !.byIndex = IF t.idx = None THEN @ ELSE With(@, t.idx, q),
                        !.order   = IF new THEN Append(@, id) ELSE Renamed(@, q, id),
                        !.states  = IF new THEN Append(@, [id |-> id, index |-> q])
                                    ELSE [@ EXCEPT ![q].id = id]],
      o |-> s.o \o (IF new THEN <<Event("open", q, t.call)>> ELSE <<>>) \o <<Mark("action")>>]

handleToolCalls(s, t) ==
  LET e == ensureToolCallState(s, t)
      p == FindCall(e.b, t)
  IN IF ~t.args THEN e
     ELSE [e EXCEPT !.o = @ \o <<Event("delta", e.b.states[p].index, t.call), Mark("action")>>]

\* HandleDone closes the message and each call in order, then completes; that
\* the upstream finished (upstreamDone) is recorded and not consulted.
HandleDone ==
  LET s == ensureInitialized(Bridge) IN
  s.o \o <<Event("close", 0, None)>>
      \o [i \in 1..Len(s.b.order) |-> Event("close", s.b.states[s.b.calls[s.b.order[i]]].index, None)]
      \o (IF s.b.order = <<>> THEN <<>> ELSE <<Mark("action")>>)
      \o <<Mark("completed"), Mark("done")>>

----------------------------------------------------------------------------
\* Bookkeeping of a line: the upstream sent it, and a chunk was parsed.  A
\* handler that reads on takes lines after [DONE] like any other.
Sends(chunk, d) ==
  /\ up.lines < MaxLines /\ pc = "stream"
  /\ up' = [up EXCEPT !.lines = @ + 1, !.chunks = @ + chunk, !.sent = d]
Unused == UNCHANGED <<hdl, dialect, pc, fin, usage, err, gone>>
Kind(k) == hdl.kind = k
IsProvider == hdl.kind \in DOMAIN Provider
Prof == Provider[hdl.kind]

Plus(d, f) == [d EXCEPT ![f] = @ + 1]

\* Handlers of these kinds add the delta to the text they would count.
Counting(kinds, f) == IF hdl.kind \in kinds THEN Plus(count, f) ELSE count

\* ResponseAPIStreamHandler makes a chunk of every delta, of a call that is
\* added and of the completed response; done events give none.
Converted == Append(out, Mark("chunk"))

\* What convertStreamingToClaudeResponse has read: text, and calls in order.
TextPart == [cl EXCEPT !.text = 0]
FunctionCall(t) == [cl EXCEPT !.tools = With(@, t.call, t.args)]

\* Content.  The bridge is told what the thinking processor left of it.
TextLine(t) ==
  /\ ~IsProvider /\ (Kind("claude") \/ Kind("unified") \/ t = "plain")
  /\ Sends(1, Plus(up.sent, "text"))
  /\ LET x == Split(t) IN
     /\ tp' = IF Kind("claude") \/ Kind("unified") THEN x.tp ELSE tp
     /\ CASE Kind("claude") ->
               LET s == IF x.think THEN BlockDelta(State, "think") ELSE State
                   r == IF x.clean THEN BlockDelta(s, "text") ELSE s
               IN cl' = r.c /\ out' = r.o /\ br' = br
          [] hdl.bridge ->
               LET s == ensureInitialized(Bridge)
                   r == IF x.clean THEN appendTextDelta(s) ELSE s
                   z == IF x.think THEN appendReasoningDelta(r) ELSE r
               IN br' = z.b /\ out' = z.o /\ cl' = cl
          [] Kind("buffered") -> cl' = TextPart /\ UNCHANGED <<br, out>>
          [] Kind("converted") -> out' = Converted /\ UNCHANGED <<cl, br>>
          [] OTHER -> out' = Append(out, Mark("chunk")) /\ UNCHANGED <<cl, br>>
  /\ count' = Counting({"claude", "unified", "openai", "direct", "converted", "buffered"}, "text")
  /\ Unused

\* Reasoning in a field of its own.
ThinkLine ==
  /\ ~IsProvider /\ ~Kind("buffered")
  /\ Sends(1, Plus(up.sent, "think"))
  /\ CASE Kind("claude") -> LET s == BlockDelta(State, "think") IN cl' = s.c /\ out' = s.o /\ br' = br
       [] hdl.bridge -> LET s == appendReasoningDelta(ensureInitialized(Bridge))
                        IN br' = s.b /\ out' = s.o /\ cl' = cl
       [] OTHER -> out' = Append(out, Mark("chunk")) /\ UNCHANGED <<cl, br>>
  /\ count' = Counting({"claude", "openai", "direct"}, "think")
  /\ tp' = tp /\ Unused

\* A delta of tool call k.  The first one of Claude and of the Response API has
\* no arguments; Gemini sends a call at once.
Writes(t) ==
  CASE Kind("claude") -> LET s == ToolDelta(State, t) IN cl' = s.c /\ out' = s.o /\ br' = br
    [] hdl.bridge -> LET s == handleToolCalls(ensureInitialized(Bridge), t)
                     IN br' = s.b /\ out' = s.o /\ cl' = cl
    [] Kind("buffered") -> cl' = FunctionCall(t) /\ UNCHANGED <<br, out>>
    [] Kind("converted") -> out' = Converted /\ UNCHANGED <<cl, br>>
    [] OTHER -> out' = Append(out, Mark("chunk")) /\ UNCHANGED <<cl, br>>

ToolLine(k, args) ==
  /\ \A j \in Calls : j < k => j \in up.begun
  /\ ~IsProvider
  /\ hdl.kind \in {"anthropic", "native", "converted"} => (args <=> k \in up.begun)
  /\ Kind("buffered") => k \notin up.begun
  /\ up.lines < MaxLines /\ pc = "stream"
  /\ up' = [up EXCEPT !.lines = @ + 1, !.chunks = @ + 1, !.begun = @ \cup {k},
                      !.sent = IF args THEN Plus(@, "args") ELSE @,
                      !.bare = IF args THEN None ELSE k]
  /\ Writes(Tool(k, args))
  /\ count' = IF args THEN Counting({"claude", "unified", "direct", "converted", "buffered"}, "args") ELSE count
  /\ tp' = tp /\ Unused

\* The chunk, or message_delta, with the usage.  anthropic.StreamHandler adds
\* an empty object to a last call that had no arguments.
UsageLine ==
  /\ ~IsProvider /\ up.lines < MaxLines /\ pc = "stream"
  /\ up' = [up EXCEPT !.lines = @ + 1, !.chunks = @ + 1, !.usage = TRUE, !.bare = None]
  /\ usage' = "given"
  /\ IF Kind("anthropic") /\ up.bare # None
     THEN Writes([call |-> up.bare, args |-> TRUE, id |-> <<"up", up.bare>>, idx |-> 0])
     ELSE CASE Kind("claude") -> out' = Append(out, Mark("usage")) /\ UNCHANGED <<cl, br>>
            [] hdl.bridge -> LET s == ensureInitialized(Bridge) IN br' = s.b /\ out' = s.o /\ cl' = cl
            [] Kind("buffered") -> UNCHANGED <<cl, br, out>>
            [] Kind("converted") -> out' = Converted /\ UNCHANGED <<cl, br>>
            [] OTHER -> out' = Append(out, Mark("chunk")) /\ UNCHANGED <<cl, br>>
  /\ UNCHANGED <<hdl, dialect, pc, tp, fin, count, err, gone>>

\* A line that does not parse is skipped or passed on as it is.
JunkLine ==
  /\ ~IsProvider /\ Sends(0, up.sent)
  /\ out' = IF hdl.kind \in {"openai", "direct", "native"} THEN Append(out, Mark("raw")) ELSE out
  /\ UNCHANGED <<tp, cl, br, count>> /\ Unused

----------------------------------------------------------------------------
\* The handler returns.
Returns(o, u, e) ==
  /\ pc' = "returned" /\ out' = o /\ usage' = u /\ err' = e
  /\ UNCHANGED <<hdl, dialect, tp, cl, br, fin, count, gone>>

Usage == IF usage = "none" THEN "computed" ELSE usage
Sent(e) == \E i \in DOMAIN out : out[i].e = e

\* The end of UnifiedStreamProcessing: an incomplete stream is an error.
UnifiedEnd_ForgetsUsage(failed) ==
  IF failed \/ up.chunks = 0 THEN Returns(out, "none", TRUE)
  ELSE Returns(IF hdl.bridge THEN HandleDone ELSE IF Sent("relayed") THEN out ELSE Append(out, Mark("done")),
               Usage, FALSE)
UnifiedEnd(failed) ==
  IF failed \/ up.chunks = 0 THEN Returns(out, usage, TRUE)
  ELSE Returns(IF hdl.bridge THEN HandleDone ELSE IF Sent("relayed") THEN out ELSE Append(out, Mark("done")),
               Usage, FALSE)

\* Claude events of a buffered stream: the text, then each call, one block each.
Block(b, k, delta) == <<Event("open", b, k)>> \o (IF delta THEN <<Event("delta", b, k)>> ELSE <<>>)
                      \o <<Event("close", b, k)>>
WholeMessage ==
  LET first  == IF cl.text = None THEN 0 ELSE 1
      Call(k) == Block(first + k, k, cl.tools[k])
  IN <<Mark("start")>> \o (IF cl.text = None THEN <<>> ELSE Block(0, None, TRUE))
     \o FlattenSeq([i \in 1..Cardinality(DOMAIN cl.tools) |-> Call(i - 1)])
     \o <<Mark("usage"), Mark("stop"), Mark("done")>>

\* The end of ResponseAPIStreamHandler makes up no [DONE].
ConvertedEnd(failed, done) == Returns(IF done THEN Append(out, Mark("done")) ELSE out, Usage, failed)

\* The loop is over: after [DONE] (done), at the end of the stream, or by an
\* error of the reader (failed).
Finish(failed, done) ==
  CASE Kind("claude")    -> Returns(MessageStop(done), Usage, FALSE)
    [] Kind("unified")   -> UnifiedEnd(failed)
    [] Kind("openai")    -> Returns(IF hdl.bridge THEN HandleDone ELSE out, Usage, FALSE)
    [] Kind("direct")    -> Returns(IF done THEN Append(out, Mark("done")) ELSE out, Usage, failed)
    [] Kind("anthropic") -> Returns(IF hdl.bridge THEN HandleDone ELSE Append(out, Mark("done")), usage, FALSE)
    [] Kind("native")    -> Returns(out, usage, FALSE)
    [] Kind("converted") -> ConvertedEnd(failed, done)
    [] Kind("buffered")  -> IF failed THEN Returns(out, "none", TRUE)
                            ELSE Returns(WholeMessage, Usage, FALSE)

\* [DONE], or message_stop of a Claude upstream.  The Claude converter, the
\* handlers of Response API streams and Gemini's stop reading there; the others
\* read on, and unified and openai pass on every [DONE] they meet.
DoneLine ==
  /\ ~IsProvider /\ up.lines < MaxLines /\ pc = "stream"
  /\ up' = [up EXCEPT !.lines = @ + 1, !.done = TRUE]
  /\ IF hdl.kind \in {"claude", "direct", "converted", "buffered"} THEN Finish(FALSE, TRUE)
     ELSE /\ out' = CASE hdl.kind \in {"anthropic", "native"} ->
                           IF hdl.bridge THEN out ELSE Append(out, Mark("chunk"))
                      [] hdl.bridge -> out
                      [] OTHER -> Append(out, Mark("relayed"))
          /\ UNCHANGED <<tp, cl, br, count>> /\ Unused

UpstreamEnds(failed) == ~IsProvider /\ pc = "stream" /\ up' = up /\ Finish(failed, FALSE)

\* The tracker refuses a delta, which is not forwarded; the client gets an error
\* and [DONE], and the text is returned as empty.
QuotaExceeded ==
  /\ Kind("openai") /\ ~hdl.bridge
  /\ \E f \in {"text", "think"} : Sends(1, Plus(up.sent, f))
  /\ Returns(out \o <<Mark("error"), Mark("done")>>, Usage, TRUE)

\* An error event of a Claude upstream ends the stream without HandleDone.
ErrorLine ==
  /\ Kind("anthropic") /\ Sends(0, up.sent)
  /\ Returns(out \o <<Mark("error"), Mark("done")>>, usage, FALSE)

----------------------------------------------------------------------------
\* The providers' own handlers.  The finalizer of Converse streams sends one
\* last chunk, once there is an id, when the stop reason and the usage have
\* both come, or when the stream is closed (force).
emitFinal_Repeats(f, force) ==
  IF ~f.id \/ ~(force \/ (f.stop /\ f.meta)) THEN [f |-> f, o |-> out]
  ELSE [f |-> [f EXCEPT !.sent = TRUE],
        o |-> Append(out, Mark(IF f.meta THEN "final_usage" ELSE "final"))]
emitFinal(f, force) ==
  IF f.sent \/ ~f.id \/ ~(force \/ (f.stop /\ f.meta)) THEN [f |-> f, o |-> out]
  ELSE [f |-> [f EXCEPT !.sent = TRUE],
        o |-> Append(out, Mark(IF f.meta THEN "final_usage" ELSE "final"))]

Finalizes == Prof.done = "final"

\* The upstream's next event; content of a Converse stream follows its start.
ProviderSends(f, d) ==
  /\ IsProvider /\ ~Prof.whole /\ f \in Prof.sends
  /\ pc = "stream" /\ up.lines < MaxLines
  /\ up' = [up EXCEPT !.lines = @ + 1, !.chunks = @ + 1, !.sent = d,
                      !.usage = @ \/ f = "usage", !.done = @ \/ f = "done"]
  /\ Finalizes => fin.id

Rendered(f) == IF f \in Prof.carries THEN Append(out, Mark("chunk")) ELSE out
Text(c) == IF Prof.usage = "counted" THEN Plus(c, "text") ELSE c

ProviderLine(f) ==
  /\ ProviderSends(f, Plus(up.sent, f))
  /\ out' = Rendered(f)
  /\ count' = IF f = "text" THEN Text(count) ELSE count
  /\ UNCHANGED <<tp, cl, br>> /\ Unused

\* messageStart of a Converse stream gives the chunks their id.
SetID ==
  /\ IsProvider /\ pc = "stream" /\ Finalizes /\ ~fin.id /\ up.lines < MaxLines
  /\ fin' = [fin EXCEPT !.id = TRUE]
  /\ UNCHANGED <<hdl, dialect, pc, tp, cl, br, out, count, usage, err, gone, up>>

\* RecordMetadata, or usage in an event of its own.
ProviderUsage ==
  /\ ProviderSends("usage", up.sent)
  /\ usage' = IF Prof.usage = "read" THEN "given" ELSE usage
  /\ IF Finalizes
     THEN LET e == emitFinal([fin EXCEPT !.meta = TRUE], FALSE) IN fin' = e.f /\ out' = e.o
     ELSE fin' = fin /\ out' = Rendered("usage")
  /\ UNCHANGED <<hdl, dialect, pc, tp, cl, br, count, err, gone>>

\* What a handler returns as usage.
ProviderUsageOf ==
  CASE Prof.usage = "counted" -> "computed" [] Prof.usage = "prompt" -> "prompt" [] OTHER -> usage

\* An error; the adaptors that count outside the handler do so nevertheless.
ProviderFails == Returns(out, IF Prof.whole THEN ProviderUsageOf ELSE "none", TRUE)

\* The end of the loop: the finalizer's or the documents' chunk, and [DONE].
FinalizeOnClose(o) ==
  LET e == IF Finalizes THEN emitFinal(fin, TRUE)
           ELSE [f |-> fin, o |-> IF Prof.trailer THEN Append(o, Mark("chunk")) ELSE o]
  IN /\ fin' = e.f
     /\ out' = Append(e.o, Mark("done"))
     /\ pc' = "returned" /\ usage' = ProviderUsageOf /\ err' = FALSE
     /\ UNCHANGED <<hdl, dialect, tp, cl, br, count, gone>>

\* The upstream's own end.
ProviderDone ==
  /\ ProviderSends("done", up.sent)
  /\ CASE Prof.done = "last"   -> FinalizeOnClose(Append(out, Mark("chunk")))
       [] Prof.done = "render" -> FinalizeOnClose(out)
       [] Prof.done = "chunk"  -> /\ out' = Append(out, Mark("chunk"))
                                  /\ UNCHANGED <<tp, cl, br, count>> /\ Unused
       [] Prof.done = "final"  ->
            LET e == emitFinal([fin EXCEPT !.stop = TRUE], FALSE)
            IN /\ fin' = e.f /\ out' = e.o
               /\ UNCHANGED <<hdl, dialect, pc, tp, cl, br, count, usage, err, gone>>

\* An event that does not decode.
ProviderJunk ==
  /\ IsProvider /\ Sends(0, up.sent)
  /\ CASE Prof.junk = "skip"  -> UNCHANGED <<out, tp, cl, br, count>> /\ Unused
       [] Prof.junk = "ends"  -> FinalizeOnClose(out)
       [] Prof.junk = "stop"  -> Returns(out, ProviderUsageOf, FALSE)
       [] Prof.junk = "error" -> ProviderFails

\* The reader is at the end, or has failed.  Of an SDK's channel the handler
\* cannot tell which.
ProviderEnds(failed) ==
  /\ IsProvider /\ pc = "stream" /\ up' = up
  /\ Prof.whole => failed
  /\ IF failed /\ Prof.failed = "error" THEN ProviderFails ELSE FinalizeOnClose(out)

\* The whole body, rendered as one chunk.
ProviderWhole ==
  /\ IsProvider /\ Prof.whole /\ pc = "stream"
  /\ up' = [up EXCEPT !.chunks = 1, !.sent = Plus(@, "text")]
  /\ count' = Text(count) /\ out' = out \o <<Mark("chunk"), Mark("done")>>
  /\ pc' = "returned" /\ usage' = ProviderUsageOf /\ err' = FALSE
  /\ UNCHANGED <<hdl, dialect, tp, cl, br, fin, gone>>

\* The tracker refuses text: the error is sent with a [DONE], and the loop's
\* own end sends another.
ProviderQuota ==
  /\ IsProvider /\ Prof.tracks /\ ProviderSends("text", Plus(up.sent, "text"))
  /\ FinalizeOnClose(out \o <<Mark("error"), Mark("done")>>)

\* The poll of a prediction that is no longer running.
ProviderPolled(succeeded) ==
  /\ pc = "poll" /\ up' = up
  /\ IF succeeded
     THEN pc' = "stream" /\ UNCHANGED <<hdl, dialect, tp, cl, br, fin, out, count, usage, err, gone>>
     ELSE ProviderFails

\* The client has left.  A request made with its context fails; c.Stream looks
\* at it between events; a socket of the handler's own is not told.
ProviderCancelled ==
  /\ IsProvider /\ gone /\ up' = up
  /\ \/ pc = "poll" /\ ProviderFails
     \/ /\ pc = "stream" /\ Prof.reader = "body"
        /\ IF Prof.failed = "error" THEN ProviderFails ELSE FinalizeOnClose(out)
     \/ pc = "stream" /\ Prof.reader = "events" /\ (FinalizeOnClose(out) \/ Returns(out, ProviderUsageOf, FALSE))

----------------------------------------------------------------------------
ClientLeaves ==
  /\ pc # "returned" /\ ~gone /\ gone' = TRUE
  /\ UNCHANGED <<hdl, dialect, pc, tp, cl, br, fin, out, count, usage, err, up>>

\* HeartbeatLineReader.Next, waiting for a line, notices.
NextCancelled_Ignored == FALSE /\ UNCHANGED streamVars
NextCancelled == ~IsProvider /\ gone /\ pc = "stream" /\ up' = up /\ Finish(TRUE, FALSE)

StreamNext ==
  \/ \E t \in Texts : TextLine(t)
  \/ ThinkLine
  \/ \E k \in Calls, args \in BOOLEAN : ToolLine(k, args)
  \/ UsageLine \/ JunkLine \/ DoneLine
  \/ \E failed \in BOOLEAN : UpstreamEnds(failed)
  \/ QuotaExceeded \/ ErrorLine
  \/ \E f \in {"text", "think", "args"} : ProviderLine(f)
  \/ SetID \/ ProviderUsage \/ ProviderDone \/ ProviderJunk
  \/ \E failed \in BOOLEAN : ProviderEnds(failed)
  \/ ProviderWhole \/ ProviderQuota
  \/ \E ok \in BOOLEAN : ProviderPolled(ok)
  \/ ClientLeaves \/ NextCancelled \/ ProviderCancelled

\* The reader's select is served, and a cancelled read returns; nothing is
\* assumed of the upstream.
StreamSpec ==
  StreamInit /\ [][StreamNext]_streamVars /\ WF_streamVars(NextCancelled) /\ WF_streamVars(ProviderCancelled)

----------------------------------------------------------------------------
\* The variables have their types; no delta is counted twice.
StreamTypeOK ==
  /\ hdl \in Handlers /\ dialect \in Dialects /\ pc \in {"poll", "stream", "returned"}
  /\ tp \in {"before", "inside", "after"} /\ cl.next \in Nat
  /\ \A i \in DOMAIN out : out[i].b \in Nat \cup {None} /\ out[i].call \in Calls \cup {None}
  /\ usage \in {"none", "given", "computed", "prompt"} /\ err \in BOOLEAN /\ gone \in BOOLEAN
  /\ \A f \in DOMAIN Deltas : count[f] \in 0..up.sent[f]

\* Content blocks of a Claude stream and output items of a Response API
\* stream are started once, get deltas only while they are open, and are
\* closed once; all are closed when message_stop or response.completed is sent.
Bracketed ==
  LET At(e, b) == {i \in DOMAIN out : out[i].e = e /\ out[i].b = b}
      Blocks   == {out[i].b : i \in DOMAIN out} \ {None}
  IN \A b \in Blocks :
       /\ Cardinality(At("open", b)) = 1 /\ Cardinality(At("close", b)) <= 1
       /\ \A i \in At("open", b), j \in At("delta", b) : i < j
       /\ \A i \in At("close", b), j \in At("delta", b) : j < i
       /\ Sent("stop") \/ Sent("completed") => Cardinality(At("close", b)) = 1

\* The handlers that pass on the upstream's [DONE] and read on.
ReadsOn == hdl.kind \in {"unified", "openai"} /\ ~hdl.bridge

\* An end that the gateway itself sends is sent once and nothing follows it, but
\* the [DONE] of a buffered stream and the second one of zhipu's quota error; and
\* it does not follow a [DONE] of the upstream that was passed on, unless with a
\* quota error.  (What the upstream itself sends after its [DONE] is relayed.)
NothingAfterEnd ==
  /\ \A i \in DOMAIN out : out[i].e \in {"stop", "done"} =>
       \/ i = Len(out)
       \/ /\ i = Len(out) - 1 /\ out[i + 1].e = "done"
          /\ ((out[i].e = "stop" /\ Kind("buffered")) \/ (Kind("zhipu") /\ Sent("error")))
  /\ ReadsOn /\ Sent("relayed") /\ Sent("done") => Sent("error")

\* A Converse stream that was started has exactly one final chunk when it ends
\* with [DONE], and it has the usage if the upstream sent one: also when the
\* stop reason, the usage or both never came.
FinalChunk ==
  LET finals == {i \in DOMAIN out : out[i].e \in {"final", "final_usage"}} IN
  /\ Cardinality(finals) <= 1
  /\ IsProvider /\ Finalizes /\ fin.id /\ Sent("done") =>
       Cardinality(finals) = 1 /\ (Sent("final_usage") <=> up.usage)

\* Where the handler promises it (openai.StreamHandler, the direct handler,
\* the Claude converter, ResponseAPIStreamHandler), a normal end is sent only if the upstream sent one.
HonestEnd ==
  /\ hdl.kind \in {"claude", "direct", "openai", "converted"} /\ ~hdl.bridge
  /\ Sent("stop") \/ Sent("done")
  => up.done \/ Sent("error")

\* Deltas of one upstream tool call arrive as one block or item, and those of
\* two calls as two: in the bridge for every numbering of chat chunks, in the
\* Claude converter for upstreams that repeat the id, and for Gemini.
CallsKeptApart ==
  (hdl.bridge /\ hdl.kind # "anthropic") \/ Kind("buffered") \/ (Kind("claude") /\ dialect = "repeated") =>
    \A i, j \in DOMAIN out :
      out[i].call # None /\ out[j].call # None =>
        (out[i].call = out[j].call <=> out[i].b = out[j].b)

\* The bridge finds the state of every id it lists, and under one id each;
\* HandleDone follows these ids without a check.
CallTable ==
  /\ \A i \in DOMAIN br.order : br.order[i] \in DOMAIN br.calls /\ br.calls[br.order[i]] = i
  /\ Cardinality(DOMAIN br.calls) = Len(br.order)

\* The usage of the upstream is returned however the stream ends, by the
\* handlers that read it; without one, unless an error is returned, the tokens
\* of all content are counted (not by the handlers of Claude upstreams and of
\* most providers).
UsageReturned ==
  pc = "returned" =>
    /\ up.usage /\ (IsProvider => Prof.usage = "read") /\ ~(Kind("buffered") /\ err) => usage = "given"
    /\ usage = "computed" /\ ~err => count.text = up.sent.text

\* A handler whose client has left returns, whatever the upstream does (but the
\* one that waits on a socket of its own).
Notices == IsProvider => Prof.reader # "socket"
ReturnsWhenClientLeaves == gone /\ Notices ~> pc = "returned"

\* The stream is well formed and its end is honest, taken together.
WellFormed == StreamTypeOK /\ Bracketed /\ NothingAfterEnd /\ FinalChunk /\ HonestEnd

\* Tool calls stay what they were, taken together.
CallsIntact == CallsKeptApart /\ CallTable

=============================================================================
