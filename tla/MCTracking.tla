----------------------------- MODULE MCTracking -----------------------------
(* Small instances of Tracking for TLC: places are metres along a street.   *)
EXTENDS Tracking

(* 60 is near both others, which are not near each other.                   *)
MCPlace == {0, 60, 150}

MCDistance ==
    [pair \in Place \X Place |->
        IF pair[1] > pair[2] THEN pair[1] - pair[2] ELSE pair[2] - pair[1]]

(* Complete paths of one to three points.                                   *)
MCStored ==
    [valid : {TRUE}, count : {1, 2}, slot : [1..2 -> Place]]
        \cup [valid : {TRUE}, count : {3}, slot : [1..3 -> Place]]

(* And what an empty path, or an interrupted transfer, leaves behind.       *)
MCLeftover ==
    [valid : {TRUE}, count : {0}, slot : [1..2 -> Place]]
        \cup [valid : {FALSE}, count : {2}, slot : [1..2 -> Place]]

MCImage == MCStored \cup MCLeftover

=============================================================================
