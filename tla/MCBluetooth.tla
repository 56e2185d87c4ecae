---------------------------- MODULE MCBluetooth ----------------------------
(* Small instances of Bluetooth for TLC: their parameters are in the .cfg.  *)
EXTENDS Bluetooth

(* A latitude of 2 degrees and a longitude of 150.                          *)
MCCoordinateCount == [n \in 2..3 |-> IF n = 2 THEN 2 ELSE 150]

=============================================================================
