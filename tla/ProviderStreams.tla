--------------------------- MODULE ProviderStreams ---------------------------
(***************************************************************************)
(* The stream handlers that are written for one provider each.  They share *)
(* one loop (read an event, convert it, render a chunk; at the end [DONE]) *)
(* and differ in what StreamRelay reads from these records:                *)
(*   sends    kinds of events the upstream has; "done" marks its end       *)
(*   carries  those a chunk is rendered for                                *)
(*   usage    "read" from the upstream, "counted" from the text, of the    *)
(*            "prompt" only, or "none": returned as zero                   *)
(*   junk     an event that does not decode: "skip" it; "ends" like the    *)
(*            end of the stream; "stop" without [DONE]; an "error"         *)
(*   done     the upstream's end: a "chunk", the "last" chunk before       *)
(*            [DONE], [DONE] itself ("render"), or a stop reason for the   *)
(*            "final" chunk of a finalizer                                 *)
(*   failed   the reader fails: [DONE] all the same, or an "error"         *)
(*   reader   what the loop waits on: the response "body", the SDK's       *)
(*            channel of "events", a "socket" of its own                   *)
(*   whole    the answer is read at once and rendered as one chunk         *)
(*   trailer  a chunk of its own precedes [DONE]                           *)
(*   tracks   text is charged while it streams                             *)
(*   polls    the answer is waited for before it is streamed               *)
(***************************************************************************)
EXTENDS Naturals

\* A loop over the lines of the response body (sse.LineReader).
Sse == [sends |-> {"text", "usage"}, carries |-> {"text", "usage"}, usage |-> "read",
        junk |-> "skip", done |-> "chunk", failed |-> "done", reader |-> "body",
        whole |-> FALSE, trailer |-> FALSE, tracks |-> FALSE, polls |-> FALSE]

Aiproxy   == [Sse EXCEPT !.sends = {"text"}, !.usage = "none", !.trailer = TRUE]
Ali       == [Sse EXCEPT !.sends = {"text", "think", "args", "usage"},
                         !.carries = {"text", "think", "args", "usage"}]
Baidu     == Sse
Cohere    == [Sse EXCEPT !.sends = {"text", "args", "usage"}, !.carries = {"text"}]
Coze      == [Sse EXCEPT !.sends = {"text", "args"}, !.carries = {"text"}, !.usage = "counted"]
Gemini    == [Sse EXCEPT !.sends = {"text", "args", "usage"}, !.carries = {"text", "args"},
                         !.usage = "counted"]
Ollama    == Sse
Tencent   == [Sse EXCEPT !.usage = "counted"]
Zhipu     == [Sse EXCEPT !.tracks = TRUE]

\* A prediction is polled until it has succeeded; a failed read is an error.
Replicate == [Sse EXCEPT !.sends = {"text", "done"}, !.usage = "counted", !.done = "render",
                         !.failed = "error", !.polls = TRUE]

\* A websocket read by a goroutine, which the request's context does not reach.
Xunfei    == [Sse EXCEPT !.sends = {"text", "usage", "done"}, !.junk = "ends", !.done = "last",
                         !.reader = "socket"]

\* The whole body is one answer.
Palm      == [Sse EXCEPT !.sends = {"text"}, !.usage = "counted", !.junk = "error",
                         !.failed = "error", !.whole = TRUE]
Deepl     == [Palm EXCEPT !.usage = "prompt"]

\* Amazon Bedrock.  The SDK closes the channel at the end and after an error,
\* which none of the handlers asks for.  InvokeModel streams:
BedrockClaude  == [Sse EXCEPT !.sends = {"text", "think", "args", "usage", "done"},
                              !.carries = {"text", "think", "args", "usage"},
                              !.junk = "stop", !.reader = "events"]
BedrockMistralTools ==
  [Sse EXCEPT !.sends = {"text", "args"}, !.carries = {"text", "args"}, !.usage = "none",
              !.junk = "stop", !.reader = "events"]

\* Converse streams end with one chunk made by the finalizer; events of a
\* kind the handler does not know are ignored.
Converse(kinds) == [Sse EXCEPT !.sends = kinds \cup {"usage", "done"}, !.carries = kinds,
                               !.done = "final", !.reader = "events"]

BedrockCohere   == Converse({"text"})
BedrockDeepSeek == Converse({"text", "think"})
BedrockLlama3   == Converse({"text"})
BedrockMistral  == Converse({"text"})
BedrockOpenAI   == Converse({"text", "think"})
BedrockQwen     == Converse({"text", "think", "args"})
BedrockWriter   == Converse({"text"})

Provider ==
  [aiproxy |-> Aiproxy, ali |-> Ali, baidu |-> Baidu, cohere |-> Cohere, coze |-> Coze,
   gemini |-> Gemini, ollama |-> Ollama, tencent |-> Tencent, zhipu |-> Zhipu,
   replicate |-> Replicate, xunfei |-> Xunfei, palm |-> Palm, deepl |-> Deepl,
   bedrock_claude |-> BedrockClaude, bedrock_mistral_tools |-> BedrockMistralTools,
   bedrock_cohere |-> BedrockCohere, bedrock_deepseek |-> BedrockDeepSeek,
   bedrock_llama3 |-> BedrockLlama3, bedrock_mistral |-> BedrockMistral,
   bedrock_openai |-> BedrockOpenAI, bedrock_qwen |-> BedrockQwen,
   bedrock_writer |-> BedrockWriter]
==============================================================================
