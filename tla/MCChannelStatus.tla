-------------------------- MODULE MCChannelStatus --------------------------
(* Small instances of ChannelStatus for TLC. *)
EXTENDS ChannelStatus

CONSTANTS j1, j2, sw, tk

\* An administrator adds, disables, edits, deletes and purges.
Asked == {[op |-> "insert", c |-> 1, s |-> "enabled"],
          [op |-> "status", c |-> 1, s |-> "manual"],
          [op |-> "update", c |-> 1, s |-> "unknown"],
          [op |-> "delete", c |-> 1, s |-> "unknown"],
          [op |-> "purge",  c |-> 1, s |-> "unknown"]}

-----------------------------------------------------------------------------
(* Statements of the documentation that the code does not meet and that no  *)
(* run checks; the README tells the counterexamples.                        *)

\* model/cache.go: "The ability.Enabled should have been set correctly based on
\* channel.Status during AddAbilities/UpdateAbilities."
AbilitySetCorrectly ==
  \A c \in Channels : Quiet(c) /\ c \notin damaged => (ability[c] = "on" <=> status[c] = "enabled")

=============================================================================
