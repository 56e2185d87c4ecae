--------------------------- MODULE WaypointLayout ---------------------------
(***************************************************************************)
(* The bytes of a waypoint path in EEPROM, as waypoint_writer.cpp writes   *)
(* them and waypoint_reader.cpp reads them:                                *)
(*                                                                         *)
(*     0x00 valid   0x01 count   0x04 lat 1   0x08 lng 1   0x0C lat 2 ...  *)
(*                                                                         *)
(* An image of the EEPROM is a record: the two flag bytes, and the four    *)
(* byte floats by the address of their first byte.                         *)
(***************************************************************************)
EXTENDS Integers, Sequences

INVALID == 0
VALID == 1

Byte == 0..255
FloatSize == 4
PathBase == 4

(* Addresses of the floats that a path of n points takes.                  *)
WordAddresses(n) == {PathBase + FloatSize * i : i \in 0..(2 * n - 1)}

Latitude(image, i) == image.word[PathBase + 8 * (i - 1)]
Longitude(image, i) == image.word[PathBase + 8 * (i - 1) + FloatSize]

(* waypoint_reader_initialize followed by waypoint_reader_count.           *)
ReaderCount(image) == IF image.valid # 0 THEN image.count ELSE 0

(* The points that successive calls of waypoint_reader_get_next return     *)
(* until waypoint_reader_end holds.                                        *)
ReaderPath(image) ==
    [i \in 1..ReaderCount(image) |-> <<Latitude(image, i), Longitude(image, i)>>]

=============================================================================
