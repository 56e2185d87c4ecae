----------------------------- MODULE GpsReceiver -----------------------------
(***************************************************************************)
(* Receiving lines from the GPS: gps_available and gps_valid of gps.cpp,   *)
(* called from run_tracking's loop.                                        *)
(*                                                                         *)
(* The GPS sends a line a second, character by character, into a serial    *)
(* buffer that is smaller than a line and drops what does not fit. The     *)
(* program reads it whenever it is not busy with something else.           *)
(*                                                                         *)
(* A character stands for a part of a line: "$", the fields up to the one  *)
(* that says whether there is a fix, the rest, the checksum with its "*",  *)
(* and the two characters that end the line; NmeaLine says what they are.  *)
(* gps_initialize has just ignored a line to its end.                      *)
(***************************************************************************)
EXTENDS Integers, Sequences, NmeaLine

CONSTANTS
    SerialSize,     \* what the serial buffer holds
    NmeaSize,       \* NMEA_LINE_LENGTH: what the line buffer holds
    MaxLines,       \* bound: lines sent
    Fix,            \* the lines that come with a fix
    Nul,            \* '\0', or what the buffer holds before its first use
    Sayings         \* bound: what the lines say, each a function of the line

Line == 1..MaxLines
Part == 1..6
Dollar == 1
Flag == 2
Star == 4
Return == 5
NewLine == 6
Char == [line : Line, part : Part]

ASSUME ReceiverAssumption ==
    /\ SerialSize \in Nat \ {0}
    /\ NmeaSize \in Nat /\ NmeaSize >= Star
    /\ MaxLines \in Nat
    /\ Fix \subseteq Line
    /\ Nul \notin Char
    /\ Sayings \subseteq [Line -> Reading]

VARIABLES
    sent,           \* the number of characters sent
    serial,         \* what the serial buffer holds
    dropped,        \* history: lines of which a character was dropped
    nmea, index,    \* gps_t
    pc,             \* "busy", "read", at the "newline" just read, at a "line",
                    \* or "lost" in a search for a '*' that the buffer lacks
    reported        \* history: the lines that the program has found valid

vars == <<sent, serial, dropped, nmea, index, pc, reported>>

TypeOK ==
    /\ sent \in 0..6 * MaxLines
    /\ serial \in Seq(Char) /\ Len(serial) <= SerialSize
    /\ dropped \subseteq Line
    /\ nmea \in [0..NmeaSize -> Char \cup {Nul}]
    /\ index \in 0..NmeaSize
    /\ pc \in {"busy", "read", "newline", "line", "lost"}
    /\ reported \in Seq(Line)

Init ==
    /\ sent = 0 /\ serial = <<>> /\ dropped = {}
    /\ nmea = [i \in 0..NmeaSize |-> Nul] /\ index = 0
    /\ pc = "busy"
    /\ reported = <<>>

-----------------------------------------------------------------------------
(* The GPS and the serial port                                             *)

NextChar == [line |-> (sent \div 6) + 1, part |-> (sent % 6) + 1]

Send ==
    /\ sent < 6 * MaxLines
    /\ sent' = sent + 1
    /\ IF Len(serial) < SerialSize
       THEN serial' = Append(serial, NextChar) /\ UNCHANGED dropped
       ELSE dropped' = dropped \cup {NextChar.line} /\ UNCHANGED serial
    /\ UNCHANGED <<nmea, index, pc, reported>>

-----------------------------------------------------------------------------
(* gps_available                                                           *)

Call ==
    /\ pc = "busy"
    /\ pc' = "read"
    /\ UNCHANGED <<sent, serial, dropped, nmea, index, reported>>

NothingAvailable ==
    /\ pc = "read" /\ serial = <<>>
    /\ pc' = "busy"
    /\ UNCHANGED <<sent, serial, dropped, nmea, index, reported>>

ReadNewLine ==
    /\ pc = "read" /\ serial # <<>> /\ Head(serial).part = NewLine
    /\ serial' = Tail(serial)
    /\ nmea' = [nmea EXCEPT ![index] = Nul]
    /\ index' = 0
    /\ pc' = "newline"
    /\ UNCHANGED <<sent, dropped, reported>>

(* MUTANT: a line may be longer than the buffer.                           *)
KeepsAll(c) == c.part # Return

(* A carriage return is left out, and so is what the line is too long for. *)
Keeps(c) == c.part # Return /\ index < NmeaSize

ReadCharacter ==
    /\ pc = "read" /\ serial # <<>> /\ Head(serial).part # NewLine
    /\ serial' = Tail(serial)
    /\ IF Keeps(Head(serial))
       THEN nmea' = [nmea EXCEPT ![index] = Head(serial)] /\ index' = index + 1
       ELSE UNCHANGED <<nmea, index>>
    /\ UNCHANGED <<sent, dropped, pc, reported>>

(* MUTANT: a line is thrown away whether or not there is more.             *)
AfterNewLineContinues ==
    /\ pc = "newline"
    /\ pc' = "read"
    /\ UNCHANGED <<sent, serial, dropped, nmea, index, reported>>

(* "If more is available, throwout line and read in next."                 *)
AfterNewLine ==
    /\ pc = "newline"
    /\ pc' = IF serial = <<>> THEN "line" ELSE "read"
    /\ UNCHANGED <<sent, serial, dropped, nmea, index, reported>>

-----------------------------------------------------------------------------
(* gps_valid                                                               *)

(* Where checksum_good finds the first '*'; it does not stop at a '\0'.    *)
Stars == {i \in 1..NmeaSize : nmea[i] # Nul /\ nmea[i].part = Star}
FirstStar == CHOOSE i \in Stars : \A j \in Stars : i <= j

(* The checksum is that of line l: between '$' and '*' stands what the GPS *)
(* computed it of. What is in the place of the '$' does not matter.        *)
ChecksumGood(l) ==
    /\ FirstStar = Star - 1
    /\ \A i \in 1..Star - 1 : nmea[i] = [line |-> l, part |-> i + 1]

(* MUTANT: the flag is looked for beyond the end of the string.            *)
DataValidAnywhere(l) == l \in Fix

(* The search for the flag ends with the string.                           *)
DataValid(l) == l \in Fix /\ \A i \in 0..Flag - 1 : nmea[i] # Nul

Valid(l) == ChecksumGood(l) /\ DataValid(l)

(* The characters of a part of a line, when the lines say this.            *)
Characters(c, said) ==
    CASE c.part = Flag -> ToFlag(IF c.line \in Fix THEN "A" ELSE "V")
      [] c.part = Flag + 1 -> Measured(said[c.line])
      [] c.part = Star -> Skipped(3)
      [] OTHER -> Skipped(1)

(* What gps_parse finds in the buffer up to the checksum. In the place of  *)
(* the '$' is one character, or the offsets of the others would not be     *)
(* those of a line with a good checksum.                                   *)
Buffered(said) ==
    Skipped(1) \o Characters(nmea[1], said) \o Characters(nmea[2], said)
        \o Characters(nmea[3], said)

(* A line is available: it is used if it is valid.                         *)
UseLine ==
    /\ pc = "line" /\ Stars # {}
    /\ pc' = "busy"
    /\ reported' = reported \o
        IF \E l \in Line : Valid(l) THEN <<CHOOSE l \in Line : Valid(l)>> ELSE <<>>
    /\ UNCHANGED <<sent, serial, dropped, nmea, index>>

(* Without a '*' in the buffer, checksum_good goes on through whatever is  *)
(* behind it: what it finds there is no checksum, or it searches for ever. *)
SearchBeyond ==
    /\ pc = "line" /\ Stars = {}
    /\ pc' \in {"busy", "lost"}
    /\ UNCHANGED <<sent, serial, dropped, nmea, index, reported>>

Lost == pc = "lost" /\ UNCHANGED vars

-----------------------------------------------------------------------------

Program ==
    \/ Call \/ NothingAvailable
    \/ ReadNewLine \/ ReadCharacter \/ AfterNewLine
    \/ UseLine \/ SearchBeyond \/ Lost

Next == Send \/ Program

Spec == Init /\ [][Next]_vars

(* run_tracking's loop calls gps_available again and again.                *)
FairSpec == Spec /\ WF_vars(Program)

-----------------------------------------------------------------------------
(* Properties                                                              *)

(* gps.cpp:232, "Only returns true (1) once per datastring": no line is    *)
(* used twice, and none after a later one, whatever was dropped.           *)
OncePerLine ==
    \A i \in 1..Len(reported) - 1 : reported[i] < reported[i + 1]

(* What gps_parse, which trusts fixed offsets, reads in the line buffer    *)
(* when it is found valid is what the GPS measured for the line in it,     *)
(* wherever on earth that was, and whatever the other lines say.           *)
PositionIsRead ==
    \A l \in Line : pc = "line" /\ Stars # {} /\ Valid(l) =>
        \A said \in Sayings : ReadAs(gps_parse(Buffered(said)), said[l])

(* The last line sent is used, if it has a fix and nothing was dropped.    *)
LastLineUsed ==
    (sent = 6 * MaxLines /\ dropped = {} /\ MaxLines \in Fix)
        ~> (reported # <<>> /\ reported[Len(reported)] = MaxLines)

=============================================================================
