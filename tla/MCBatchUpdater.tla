--------------------------- MODULE MCBatchUpdater ---------------------------
(* Instances of BatchUpdater for TLC. *)
EXTENDS BatchUpdater

CONSTANTS w1, w2, u1, u2

=============================================================================
