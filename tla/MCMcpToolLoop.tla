--------------------------- MODULE MCMcpToolLoop ---------------------------
EXTENDS McpToolLoop, TLC

CONSTANTS s1, s2, s3

\* Two servers offer the tool at different priorities and costs; a third one
\* is not whitelisted.
MCPolicy == s1 :> [priority |-> 2, enabled |-> TRUE, whitelisted |-> TRUE,
                   blacklisted |-> FALSE, cost |-> 1]
         @@ s2 :> [priority |-> 1, enabled |-> TRUE, whitelisted |-> TRUE,
                   blacklisted |-> FALSE, cost |-> 2]
         @@ s3 :> [priority |-> 3, enabled |-> TRUE, whitelisted |-> FALSE,
                   blacklisted |-> FALSE, cost |-> 0]

\* docs/manuals/mcp_aggregator.md:100, "Tool usage is billed per call": a
\* finished request pays for every tool call that ran.  Not met: calls
\* before a failing one of their round are not billed.
EveryCallBilled == pc = "done" => loop.tools = ranCost
============================================================================
