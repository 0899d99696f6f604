------------------------- MODULE MCChannelRouting -------------------------
(* Small instances of ChannelRouting for TLC. *)
EXTENDS ChannelRouting

CONSTANTS r1, r2, c1, c2, c3, w1, w2

TwoTiers == [c \in Channels |-> IF c = c3 THEN 0 ELSE 1]
TokenSizes == [c \in Channels |-> IF c = c3 THEN 0 ELSE 1]
Pauses == [e \in {"rate", "server", "auth"} |-> 1]

-----------------------------------------------------------------------------
(* Statements of the documentation that the code does not meet and that no  *)
(* run checks; the README tells the counterexamples.                        *)

\* docs/arch/channels.md:142 calls the race on bizErr "safe in practice": no error
\* goroutine finds it nil (controller/relay.go:159).
NoCrash == ~crashed

\* docs/arch/channels.md: "Actions are scoped to the specific (group, model,
\* channel_id)": what a channel is suspended for is an error it returned.
BlameDeserved == blamed \subseteq faults

\* docs/arch/channels.md: a pinned request "will not try alternatives".
PinnedNeverElsewhere ==
  \A r \in Requests : pin[r] = "specific" => Len(tried[r]) <= 1

=============================================================================
