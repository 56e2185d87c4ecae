----------------------------- MODULE MCDisplay ------------------------------
(* Small instances of Display for TLC: the other parameters are in the .cfg.*)
EXTENDS Display

(* Zero, the last second of the ints, and one of those after it, which are  *)
(* negative: "-9:-6:-8".                                                    *)
MCClocks == {0, 32767, -32768}

=============================================================================
