------------------------------- MODULE MCWatch -------------------------------
(* Small instances of Watch for TLC: their parameters are in the .cfg.      *)
EXTENDS Watch

=============================================================================
