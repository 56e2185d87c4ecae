------------------------------ MODULE Display -------------------------------
(***************************************************************************)
(* The LCD: what the pages of src.ino write to it through lcd.cpp, over an *)
(* SPI bus that they share with m_aci_isr, the interrupt routine of the    *)
(* Bluetooth transport.                                                    *)
(*                                                                         *)
(* A transaction of the SPI library sets the order of the bits; it keeps   *)
(* interrupts out only for those who ask for it with usingInterrupt, which *)
(* nobody does. A write of one text stands for that of each of its bytes.  *)
(*                                                                         *)
(* The display has a cell for every character, and its cursor goes on from *)
(* the end of a row to the next. A cell is <<text, its length, position>>. *)
(***************************************************************************)
EXTENDS Integers, Sequences

CONSTANTS
    SpeedLengths,       \* bound: characters of a speed, with a decimal
    DistanceLengths,    \* bound: characters of a distance, or of "NAN"
    CountLengths,       \* characters of "2 WPs", "12 WPs"
    Clocks,             \* bound: time_elapsed at the lines looked at
    Spills              \* how many bytes that are not 0 follow lcd_print_float's
                        \* buffer in memory

LCD_LEN == 13
Columns == 12           \* LCD_X / 7, a character with its two blank columns
Rows == 6               \* of the display; LCD_Y counts its lines of pixels
Cells == 0..Rows * Columns - 1

VARIABLES
    page,               \* what the program shows
    data,               \* the texts of tracking_data_t: their lengths
    todo,               \* what the program has yet to write
    step,               \* where lcd_write_cmd is with the first of it
    order,              \* the bit order that the SPI is set to
    screen, cursor,     \* the display
    radio,              \* the nRF8001: whether it may ask for transfers
    spill               \* of Spills

bus == <<todo, step, order, screen, cursor>>
vars == <<page, data, bus, radio, spill>>

Int16 == -32768..32767       \* int

(* What is shown, and what there is where nothing of it is.                *)
Name ==
    {"CREAM", "WPs", "Pending Fix", "Bluetooth", "Success", "Failure",
     "SP ", "AV ", "TE ", "DI ", "WP ", "Done",
     "speed", "average", "time", "total", "waypoint"}

Text(name, length) == <<name, length>>
Cell(text, k) == <<text[1], text[2], k>>
Blank == <<" ", 0, 0>>
Garbage == <<"garbage", 0, 0>>

PrintStr(text) == [do |-> "print", text |-> text, row |-> 0]
PrintFloat(text) == [do |-> "float", text |-> text, row |-> 0]

(* MUTANT: the row is counted in lines of pixels, as LCD_Y is.             *)
lcd_pos_of_pixels(row) == [do |-> "pos", text |-> Text("", 0), row |-> 8 * row]

lcd_pos(row) == [do |-> "pos", text |-> Text("", 0), row |-> row]
lcd_clear_display == [do |-> "clear", text |-> Text("", 0), row |-> 0]

-----------------------------------------------------------------------------
(* sprintf's "%02d:%02d:%02d" of lcd_print_time, for a time in an int: the *)
(* division of C, and a number of two characters with its sign.            *)
Quot(a, b) == IF a >= 0 THEN a \div b ELSE -((-a) \div b)
Rem(a, b) == a - b * Quot(a, b)
TwoDigits(n) == IF n <= -10 THEN 3 ELSE 2

TimeLength(elapsed) ==
    TwoDigits(Rem(Quot(Quot(elapsed, 60), 60), 60)) + TwoDigits(Rem(Quot(elapsed, 60), 60))
        + TwoDigits(Rem(elapsed, 60)) + 2

(* The buffer has room for the terminating 0 too. What happens when it has *)
(* not is undefined, and out of the model.                                 *)
TimeFits(elapsed) == TimeLength(elapsed) + 1 <= LCD_LEN - 3

ASSUME DisplayAssumption ==
    /\ SpeedLengths \subseteq 3..9 /\ DistanceLengths \subseteq 1..9
    /\ CountLengths \subseteq {5, 6}
    /\ Clocks \subseteq {n \in Int16 : TimeFits(n)}
    /\ Spills \subseteq Nat

Data ==
    [speed : SpeedLengths, average : SpeedLengths, elapsed : Clocks,
     total : DistanceLengths, waypoint : DistanceLengths, done : BOOLEAN]

TypeOK ==
    /\ page \in {"home", "pending", "tracking", "bluetooth", "leaving", "result"}
    /\ data \in Data
    /\ \A i \in 1..Len(todo) : todo[i].do \in {"print", "float", "pos", "clear"}
    /\ step \in {"begin", "enable", "transfer", "end"}
    /\ order \in {"MSBFIRST", "LSBFIRST"}
    /\ \A a \in Cells :
          screen[a] \in (Name \X (1..LCD_LEN) \X (1..LCD_LEN)) \cup {Blank, Garbage}
    /\ cursor \in Cells
    /\ radio \in {"asleep", "awake", "last events"}
    /\ spill \in Spills

-----------------------------------------------------------------------------
(* The pages                                                               *)

WPs(length) == Text("WPs", length)
SP == Text("SP ", 3)
AV == Text("AV ", 3)
TE == Text("TE ", 3)
DI == Text("DI ", 3)
WP == Text("WP ", 3)
Done == Text("Done", 4)

print_home(length) ==
    <<lcd_clear_display, PrintStr(Text("CREAM", 5)), lcd_pos(1), PrintStr(WPs(length))>>

print_tracking_display(d) ==
    << lcd_pos(0), PrintStr(SP), PrintFloat(Text("speed", d.speed)),
       lcd_pos(1), PrintStr(AV), PrintFloat(Text("average", d.average)),
       lcd_pos(2), PrintStr(TE), PrintStr(Text("time", TimeLength(d.elapsed))),
       lcd_pos(3), PrintStr(DI), PrintFloat(Text("total", d.total)),
       lcd_pos(4), PrintStr(WP),
       IF d.done THEN PrintStr(Done) ELSE PrintFloat(Text("waypoint", d.waypoint)) >>

(* lcd_init has been called: what is in the display is not defined.        *)
Init ==
    /\ page = "home"
    /\ data \in {d \in Data : ~ d.done}
    /\ \E length \in CountLengths : todo = print_home(length)
    /\ step = "begin" /\ order = "LSBFIRST"
    /\ screen = [a \in Cells |-> Garbage] /\ cursor = 0
    /\ radio = "asleep"
    /\ spill \in Spills

-----------------------------------------------------------------------------
(* lcd_write_cmd                                                           *)

Begin ==
    /\ todo # <<>> /\ step = "begin"
    /\ order' = "MSBFIRST"
    /\ step' = "enable"
    /\ UNCHANGED <<page, data, todo, screen, cursor, radio, spill>>

Enable ==
    /\ todo # <<>> /\ step = "enable"
    /\ step' = "transfer"
    /\ UNCHANGED <<page, data, todo, order, screen, cursor, radio, spill>>

(* Cells written from the cursor on.                                       *)
Put(cells) ==
    LET n == Len(cells)
        place(a) == ((a - cursor + Rows * Columns) % (Rows * Columns)) + 1
    IN  /\ screen' = [a \in Cells |-> IF place(a) <= n THEN cells[place(a)] ELSE screen[a]]
        /\ cursor' = (cursor + n) % (Rows * Columns)

CellsOf(text) == [k \in 1..text[2] |-> Cell(text, k)]

(* lcd_print_float: spaces up to the end of the buffer, over the 0 that    *)
(* ends the number, and then whatever follows up to the next 0.            *)
CellsOfFloat(text) ==
    [k \in 1..LCD_LEN - 3 + spill |->
        CASE k <= text[2] -> Cell(text, k)
          [] text[2] < k /\ k <= LCD_LEN - 3 -> Blank
          [] OTHER -> Garbage]

(* What the display makes of a write. The rows beyond the display's that   *)
(* lcd_clear_display clears get blanks too, wherever they are taken to be. *)
Written(w) ==
    CASE w.do = "print" -> Put(CellsOf(w.text))
      [] w.do = "float" -> Put(CellsOfFloat(w.text))
      [] w.do = "pos"   -> cursor' = w.row * Columns /\ UNCHANGED screen
      [] w.do = "clear" -> cursor' = 0 /\ screen' = [a \in Cells |-> Blank]

(* Bits in the wrong order, or bytes meant for the radio: anything.        *)
Disturbed == screen' = [a \in Cells |-> Garbage] /\ UNCHANGED cursor

Transfer ==
    /\ todo # <<>> /\ step = "transfer"
    /\ IF order = "MSBFIRST" THEN Written(Head(todo)) ELSE Disturbed
    /\ step' = "end"
    /\ UNCHANGED <<page, data, todo, order, radio, spill>>

End ==
    /\ todo # <<>> /\ step = "end"
    /\ todo' = Tail(todo)
    /\ step' = "begin"
    /\ UNCHANGED <<page, data, order, screen, cursor, radio, spill>>

(* m_aci_isr, between any two of these steps: m_aci_spi_transfer begins a  *)
(* transaction of its own. The display takes part while it is enabled.     *)
Isr ==
    /\ radio # "asleep"
    /\ radio' \in IF radio = "awake" THEN {"awake"} ELSE {"last events", "asleep"}
    /\ order' = "LSBFIRST"
    /\ IF step \in {"transfer", "end"} THEN Disturbed ELSE UNCHANGED <<screen, cursor>>
    /\ UNCHANGED <<page, data, todo, step, spill>>

-----------------------------------------------------------------------------
(* The program                                                             *)

(* What has been written so far; then comes this page.                     *)
Shows(next, writes) ==
    /\ todo = <<>>
    /\ page' = next /\ todo' = writes

Home(next) == \E length \in CountLengths : Shows(next, print_home(length))

StartTracking ==
    /\ page = "home"
    /\ Shows("pending", <<lcd_clear_display, PrintStr(Text("Pending Fix", 11))>>)
    /\ data' \in {d \in Data : ~ d.done}
    /\ UNCHANGED <<step, order, screen, cursor, radio, spill>>

(* A valid line: "only clear lcd for the first gps packet after fix". The  *)
(* distance to the waypoint is kept once the path is done.                 *)
Fix ==
    /\ page \in {"pending", "tracking"}
    /\ data' \in {d \in Data : data.done => d.done}
    /\ Shows("tracking", (IF page = "pending" THEN <<lcd_clear_display>> ELSE <<>>)
                             \o print_tracking_display(data'))
    /\ UNCHANGED <<step, order, screen, cursor, radio, spill>>

(* Another line after a fix only advances the clock.                       *)
LineWithoutFix ==
    /\ page = "tracking"
    /\ \E n \in Clocks : data' = [data EXCEPT !.elapsed = n]
    /\ Shows("tracking", print_tracking_display(data'))
    /\ UNCHANGED <<step, order, screen, cursor, radio, spill>>

StopTracking ==
    /\ page \in {"pending", "tracking"}
    /\ Home("home")
    /\ UNCHANGED <<data, step, order, screen, cursor, radio, spill>>

(* run_bluetooth ...                                                       *)
StartBluetooth ==
    /\ page = "home"
    /\ Shows("bluetooth", <<lcd_clear_display, PrintStr(Text("Bluetooth", 9))>>)
    /\ UNCHANGED <<data, step, order, screen, cursor, radio, spill>>

(* ... bluetooth_advertise, and the session, in which nothing is drawn ... *)
Advertise ==
    /\ page = "bluetooth" /\ todo = <<>>
    /\ radio = "asleep"
    /\ radio' = "awake"
    /\ UNCHANGED <<page, data, bus, spill>>

(* ... bluetooth_sleep: the radio has yet to take the commands and to hand *)
(* over what it has to say ...                                             *)
Sleep ==
    /\ page = "bluetooth" /\ radio = "awake"
    /\ page' = "leaving" /\ radio' = "last events"
    /\ UNCHANGED <<data, bus, spill>>

Result(success) == Text(IF success THEN "Success" ELSE "Failure", 7)

(* MUTANT: no delay before the result is shown.                            *)
ShowResultAtOnce(success) ==
    /\ page = "leaving"
    /\ Shows("result", <<lcd_clear_display, PrintStr(Result(success))>>)
    /\ UNCHANGED <<data, step, order, screen, cursor, radio, spill>>

(* ... and the result, after a delay(5), which is taken to be long enough. *)
ShowResult(success) ==
    /\ page = "leaving" /\ radio = "asleep"
    /\ Shows("result", <<lcd_clear_display, PrintStr(Result(success))>>)
    /\ UNCHANGED <<data, step, order, screen, cursor, radio, spill>>

Dismiss ==
    /\ page = "result"
    /\ Home("home")
    /\ UNCHANGED <<data, step, order, screen, cursor, radio, spill>>

-----------------------------------------------------------------------------

Next ==
    \/ Begin \/ Enable \/ Transfer \/ End
    \/ Isr
    \/ StartTracking \/ Fix \/ LineWithoutFix \/ StopTracking
    \/ StartBluetooth \/ Advertise \/ Sleep \/ Dismiss
    \/ \E success \in BOOLEAN : ShowResult(success)

Spec == Init /\ [][Next]_vars

-----------------------------------------------------------------------------
(* Properties                                                              *)

(* The row shows these texts, one after the other, and then nothing.       *)
RowCells(r) == [k \in 1..Columns |-> screen[r * Columns + k - 1]]
Reads(r, cells) ==
    \A k \in 1..Columns : RowCells(r)[k] = IF k <= Len(cells) THEN cells[k] ELSE Blank
Begins(r, cells) == \A k \in 1..Len(cells) : RowCells(r)[k] = cells[k]

TrackingIsShown ==
    /\ Reads(0, CellsOf(SP) \o CellsOf(Text("speed", data.speed)))
    /\ Reads(1, CellsOf(AV) \o CellsOf(Text("average", data.average)))
    /\ Reads(2, CellsOf(TE) \o CellsOf(Text("time", TimeLength(data.elapsed))))
    /\ Reads(3, CellsOf(DI) \o CellsOf(Text("total", data.total)))
    /\ IF data.done THEN Begins(4, CellsOf(WP) \o CellsOf(Done))
                    ELSE Reads(4, CellsOf(WP) \o CellsOf(Text("waypoint", data.waypoint)))

ShowsOnly(text) ==
    /\ Reads(0, CellsOf(text))
    /\ \A r \in 1..Rows - 1 : Reads(r, <<>>)

(* When the program has written a page, the display shows this page: not   *)
(* what is left of an earlier one or of a longer number, nor of a row that *)
(* is longer than the display is wide, nor bytes meant for the radio.      *)
PageIsShown ==
    todo = <<>> =>
        CASE page = "home" ->
                /\ Reads(0, CellsOf(Text("CREAM", 5)))
                /\ \E length \in CountLengths : Reads(1, CellsOf(WPs(length)))
                /\ \A r \in 2..Rows - 1 : Reads(r, <<>>)
          [] page = "pending" -> ShowsOnly(Text("Pending Fix", 11))
          [] page = "tracking" -> TrackingIsShown
          [] page \in {"bluetooth", "leaving"} -> ShowsOnly(Text("Bluetooth", 9))
          [] page = "result" -> \E success \in BOOLEAN : ShowsOnly(Result(success))

=============================================================================
