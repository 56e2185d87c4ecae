---------------------------- MODULE MCGpsReceiver ----------------------------
(* GpsReceiver for TLC, with what the three lines say; the other parameters *)
(* are in the .cfg.                                                         *)
EXTENDS GpsReceiver

Degrees == {<<0, 0>>, <<23, 120>>, <<90, 9>>, <<5, 180>>}
Minutes == {<<7, 1256, 16, 4438>>, <<59, 9999, 0, 5>>, <<0, 0, 59, 9990>>}

MCReadings ==
    {[latDegrees |-> d[1], latMinutes |-> m[1], latFraction |-> m[2], ns |-> ns,
      lonDegrees |-> d[2], lonMinutes |-> m[3], lonFraction |-> m[4], ew |-> ew, speed |-> v] :
        d \in Degrees, m \in Minutes, ns \in {"N", "S"}, ew \in {"E", "W"}, v \in {3, 1234, 12345}}

(* The sample line of gps.cpp:30.                                          *)
Sample ==
    [latDegrees |-> 23, latMinutes |-> 7, latFraction |-> 1256, ns |-> "N",
     lonDegrees |-> 120, lonMinutes |-> 16, lonFraction |-> 4438, ew |-> "E", speed |-> 3]

(* Either a line with a fix says one thing, and the others the sample.     *)
MCSayings ==
    {[l \in Line |-> IF l = fix THEN r ELSE Sample] : fix \in Fix, r \in MCReadings}

=============================================================================
