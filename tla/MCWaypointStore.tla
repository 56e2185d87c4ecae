--------------------------- MODULE MCWaypointStore ---------------------------
(* Small instances of WaypointStore for TLC.                                *)
EXTENDS WaypointStore

(* "-253" is stored in a byte as 3.                                         *)
MCText == {"0.5", "1", "2", "-253"}

MCAtoi ==
    [t \in Text |-> CASE t = "0.5" -> 0 [] t = "1" -> 1 [] t = "2" -> 2
                      [] t = "-253" -> -253]

(* Floats in tenths.                                                        *)
MCAtof ==
    [t \in Text |-> CASE t = "0.5" -> 5 [] t = "1" -> 10 [] t = "2" -> 20
                      [] t = "-253" -> -2530]

MCFloat == {5, 10, 20, -2530}

=============================================================================
