--------------------------- MODULE MCMediaBilling ---------------------------
(* Instances of MediaBilling for TLC. *)
EXTENDS MediaBilling, TLC

CONSTANTS r1, r2

\* Every helper, beside one that bills what was used.
AnyBesideClaude == (r1 :> Kinds) @@ (r2 :> {"claude"})
OneAlone        == r1 :> Kinds

-----------------------------------------------------------------------------
(* Statements of the documentation and of comments that the code does not    *)
(* meet and that no run checks; the README tells the counterexamples.        *)

\* Once a request may have been forwarded, its reservation is not given back.
NoUnderbilling ==
  \A r \in Requests :
    Quiet(r) /\ sent[r] /\ outcome[r] = "failed" /\ ~missed[r] => paid[r][attempt[r]] >= pre[r]

\* Every deduction has a trace in the consume log.
DeductionsLogged == \A r \in Requests : Quiet(r) /\ paid[r][attempt[r]] > 0 => log[r] > 0

=============================================================================
