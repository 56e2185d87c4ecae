------------------------------ MODULE MCAciLib ------------------------------
(* Small instances of AciLib for TLC: the other parameters are in the .cfg. *)
EXTENDS AciLib

(* A peer's pipes, which services.h does not have, so that the functions   *)
(* about them do something.                                                *)
MCRemotePipes == << [location |-> "REMOTE", type |-> "RX_REQ"],
                    [location |-> "REMOTE", type |-> "RX_ACK"] >>

(* Pipes of two bytes of the bitmaps: UART_TX is 12.                       *)
MCOpenSets == {{1, 12}, {1, 2, 11, 12}}

MCIntervals == {\h0106, \h0c80}

=============================================================================
