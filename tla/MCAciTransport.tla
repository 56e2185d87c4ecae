--------------------------- MODULE MCAciTransport ---------------------------
(* Small instances of AciTransport for TLC: its bounds are in the .cfg.     *)
EXTENDS AciTransport

=============================================================================
