------------------------------ MODULE NmeaLine ------------------------------
(***************************************************************************)
(* What a line of the GPS says, and what gps_parse (gps.cpp) reads in it:  *)
(* the fields at fixed offsets, copied into a buffer and given to atoi,    *)
(* atol and atof. A character is its code. A degree is 600000 units, in    *)
(* which the code's minutes come out as an integer. Speeds are read in     *)
(* thousandths of a knot. What the rounding to floats loses, and the       *)
(* factor to mph, are left out.                                            *)
(***************************************************************************)
EXTENDS Integers, Sequences

-----------------------------------------------------------------------------
(* The line, as the comment at gps.cpp:30 shows it.                        *)

Zero == 48
Code == [comma |-> 44, point |-> 46,
         A |-> 65, V |-> 86, N |-> 78, S |-> 83, E |-> 69, W |-> 87]

Digit(n, k) == (n \div 10 ^ k) % 10
Digits(n, width) == [k \in 1..width |-> Zero + Digit(n, width - k)]
Wide(n) == IF n < 10 THEN 1 ELSE IF n < 100 THEN 2 ELSE 3

(* Characters that gps_parse does not look at are all the same.            *)
Skipped(width) == [k \in 1..width |-> Zero]

(* A position, with ten-thousandths of minutes, and hundredths of a knot.  *)
Fraction == {n \in Nat : n < 10000}
Speed == {n \in Nat : n \div 100 < 1000}
Reading ==
    [latDegrees : 0..90, latMinutes : 0..59, latFraction : Fraction, ns : {"N", "S"},
     lonDegrees : 0..180, lonMinutes : 0..59, lonFraction : Fraction, ew : {"E", "W"},
     speed : Speed]

(* An angle: degrees of a width, and minutes; then the hemisphere.         *)
Angled(degrees, width, minutes, fraction, hemisphere) ==
    Digits(degrees, width) \o Digits(minutes, 2) \o <<Code.point>> \o Digits(fraction, 4)
        \o <<Code.comma, Code[hemisphere], Code.comma>>

Hundredths(n) == Digits(n \div 100, Wide(n \div 100)) \o <<Code.point>> \o Digits(n % 100, 2)

(* After the '$': type, time and flag; what was measured, track and date;  *)
(* and the checksum.                                                       *)
ToFlag(flag) == Skipped(5) \o <<Code.comma>> \o Skipped(10) \o <<Code.comma, Code[flag]>>

Measured(r) ==
    <<Code.comma>>
        \o Angled(r.latDegrees, 2, r.latMinutes, r.latFraction, r.ns)
        \o Angled(r.lonDegrees, 3, r.lonMinutes, r.lonFraction, r.ew)
        \o Hundredths(r.speed) \o <<Code.comma>> \o Skipped(21)

Sentence(r) == Skipped(1) \o ToFlag("A") \o Measured(r) \o Skipped(3)

-----------------------------------------------------------------------------
(* gps_parse.                                                              *)

LATITUDE_OFFSET == 20
NS_OFFSET == 30
LONGITUDE_OFFSET == 32
EW_OFFSET == 43
SPEED_OFFSET == 45

(* strncpy of n characters at an offset, which counts from 0.              *)
Chars(nmea, offset, n) == SubSeq(nmea, offset + 1, offset + n)

IsDigit(c) == c \in Zero..Zero + 9

(* atoi and atol take digits up to the first other character.              *)
Value(s) ==
    LET value[k \in 0..Len(s)] ==
            IF k = 0 THEN 0
            ELSE IF \A i \in 1..k : IsDigit(s[i]) THEN 10 * value[k - 1] + s[k] - Zero
            ELSE value[k - 1]
    IN  value[Len(s)]

(* atof, in thousandths, of digits with at most one point.                 *)
Thousandths(s) ==
    LET point == {k \in 1..Len(s) : s[k] = Code.point}
        after == IF point = {} THEN <<>>
                 ELSE SubSeq(s, (CHOOSE k \in point : TRUE) + 1, Len(s))
    IN  1000 * Value(s) + 10 ^ (3 - Len(after)) * Value(after)

(* Degrees of a width, two digits of minutes, a point, four digits more.   *)
Angle(nmea, offset, width) ==
    600000 * Value(Chars(nmea, offset, width))
        + Value(Chars(nmea, offset + width, 2) \o Chars(nmea, offset + width + 3, 4))

Signed(angle, c, negative) == IF c = Code[negative] THEN -angle ELSE angle

(* MUTANT: the minutes of the longitude are copied from latitude_field.    *)
gps_parse_latitude_field(nmea) ==
    LET minutes(offset) ==
            Value(Chars(nmea, offset, 2) \o Chars(nmea, offset + 3, 4))
        longitude == 600000 * Value(Chars(nmea, LONGITUDE_OFFSET, 3))
                        + minutes(LATITUDE_OFFSET + 2)
    IN  [latitude |-> Signed(Angle(nmea, LATITUDE_OFFSET, 2), nmea[NS_OFFSET + 1], "S"),
         longitude |-> Signed(longitude, nmea[EW_OFFSET + 1], "W"),
         speed |-> Thousandths(Chars(nmea, SPEED_OFFSET, 4))]

gps_parse(nmea) ==
    [latitude |-> Signed(Angle(nmea, LATITUDE_OFFSET, 2), nmea[NS_OFFSET + 1], "S"),
     longitude |-> Signed(Angle(nmea, LONGITUDE_OFFSET, 3), nmea[EW_OFFSET + 1], "W"),
     speed |-> Thousandths(Chars(nmea, SPEED_OFFSET, 4))]

-----------------------------------------------------------------------------
(* What a line means: degrees and minutes, the hemisphere as the sign.     *)
Units(degrees, minutes, fraction) == (60 * degrees + minutes) * 10000 + fraction

Position(r) ==
    [latitude |-> (IF r.ns = "S" THEN -1 ELSE 1)
                    * Units(r.latDegrees, r.latMinutes, r.latFraction),
     longitude |-> (IF r.ew = "W" THEN -1 ELSE 1)
                    * Units(r.lonDegrees, r.lonMinutes, r.lonFraction)]

(* The data that gps_parse finds are the position of a line, and its speed *)
(* but for the digits after the fourth character: less than a tenth of a   *)
(* knot, unless there are three digits before the point, and then less     *)
(* than a knot.                                                            *)
ReadAs(data, r) ==
    LET lost == 10 * r.speed - data.speed
    IN  /\ [latitude |-> data.latitude, longitude |-> data.longitude] = Position(r)
        /\ lost >= 0
        /\ lost < IF r.speed < 10000 THEN 100 ELSE 1000

=============================================================================
