---------------------------- MODULE MCStreamRelay ----------------------------
EXTENDS StreamRelay

MCHandlers ==
  {[kind |-> k, bridge |-> FALSE] : k \in {"claude", "unified", "openai", "direct", "anthropic", "native",
                                            "converted", "buffered"} \cup DOMAIN Provider}
  \cup {[kind |-> k, bridge |-> TRUE] : k \in {"unified", "openai", "anthropic"}}

\* src/relay/adaptor/openai/main.go:423, "do NOT fabricate a [DONE] when the
\* upstream didn't send one".
NoFabricatedDone == Kind("openai") /\ Sent("done") => up.done \/ Sent("error")

\* src/relay/adaptor/anthropic/main.go:724, "The index should match the last
\* tool call that was started".
ClaudeCallsKeptApart ==
  Kind("anthropic") /\ hdl.bridge =>
    \A i, j \in DOMAIN out :
      out[i].call # None /\ out[j].call # None =>
        (out[i].call = out[j].call <=> out[i].b = out[j].b)
==============================================================================
