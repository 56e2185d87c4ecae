--------------------------- MODULE DisplayProofs ----------------------------
(***************************************************************************)
(* What the display shows, for all lengths of the texts.                   *)
(***************************************************************************)
EXTENDS Display, SequenceTheorems, TLAPS

-----------------------------------------------------------------------------
(* The bus                                                                 *)

(* A text is not empty, and shorter than a row.                            *)
Texts == Name \X (1..11)
Write ==
    [do : {"print", "float"}, text : Texts, row : 0..4]
        \cup [do : {"pos", "clear"}, text : {Text("", 0)}, row : 0..4]
CellType == (Name \X (1..LCD_LEN) \X (1..LCD_LEN)) \cup {Blank, Garbage}

(* While the program writes, the radio asks for nothing, and so the order  *)
(* of the bits stays as the program has set it.                            *)
BusIsOurs ==
    /\ todo \in Seq(Write)
    /\ step # "begin" => todo # <<>> /\ order = "MSBFIRST"
    /\ radio # "asleep" => page \in {"bluetooth", "leaving"} /\ todo = <<>>

BusInv == TypeOK /\ BusIsOurs

LEMMA TimeLengths ==
    ASSUME NEW n \in Clocks
    PROVE  TimeLength(n) \in 8..9
<1>1. TimeFits(n)
  BY DisplayAssumption
<1>2. \A m : TwoDigits(m) \in {2, 3}
  BY DEF TwoDigits
<1>3. TimeLength(n) \in 8..11
  BY <1>2 DEF TimeLength
<1> QED BY <1>1, <1>3 DEF TimeFits, LCD_LEN

LEMMA FunctionIsSeq ==
    ASSUME NEW S, NEW n \in Nat, NEW f \in [1..n -> S]
    PROVE  f \in Seq(S) /\ Len(f) = n
<1>1. f \in Seq(S)
  BY SeqDef
<1>2. f \in [1..Len(f) -> S] /\ Len(f) \in Nat
  BY <1>1, LenProperties
<1>3. 1..Len(f) = 1..n
  BY <1>2
<1> QED BY <1>1, <1>2, <1>3

(* The cells of a text, and what a number leaves up to the end of its      *)
(* buffer and beyond.                                                      *)
LEMMA CellsOfText ==
    ASSUME NEW text \in Texts
    PROVE  /\ CellsOf(text) \in Seq(CellType) /\ Len(CellsOf(text)) = text[2]
           /\ \A k \in 1..text[2] : CellsOf(text)[k] = Cell(text, k)
<1>1. text[1] \in Name /\ text[2] \in 1..11
  BY DEF Texts
<1>2. \A k \in 1..text[2] : Cell(text, k) \in CellType
  BY <1>1 DEF Cell, CellType, LCD_LEN
<1>3. CellsOf(text) \in [1..text[2] -> CellType]
  BY <1>2 DEF CellsOf
<1>4. text[2] \in Nat
  BY <1>1
<1> QED BY <1>3, <1>4, FunctionIsSeq DEF CellsOf

LEMMA CellsOfNumber ==
    ASSUME NEW text \in Texts, spill \in Nat
    PROVE  /\ CellsOfFloat(text) \in Seq(CellType)
           /\ Len(CellsOfFloat(text)) = LCD_LEN - 3 + spill
           /\ \A k \in 1..9 :
                 CellsOfFloat(text)[k] = IF k <= text[2] THEN Cell(text, k) ELSE Blank
<1> DEFINE n == LCD_LEN - 3 + spill
<1>1. text[1] \in Name /\ text[2] \in 1..11 /\ n \in Nat /\ n >= 10
  BY DEF LCD_LEN, Texts
<1>2. \A k \in 1..n : CellsOfFloat(text)[k] \in CellType
  <2> SUFFICES ASSUME NEW k \in 1..n PROVE CellsOfFloat(text)[k] \in CellType
    OBVIOUS
  <2>1. Blank \in CellType /\ Garbage \in CellType
    BY DEF CellType
  <2>2. k <= text[2] => Cell(text, k) \in CellType
    BY <1>1 DEF Cell, CellType, LCD_LEN
  <2> QED BY <2>1, <2>2 DEF CellsOfFloat
<1>3. CellsOfFloat(text) \in [1..n -> CellType]
  BY <1>2 DEF CellsOfFloat
<1>4. \A k \in 1..9 : k \in 1..n /\ k <= LCD_LEN - 3
  BY <1>1 DEF LCD_LEN
<1>5. \A k \in 1..9 :
          CellsOfFloat(text)[k] = IF k <= text[2] THEN Cell(text, k) ELSE Blank
  BY <1>1, <1>4 DEF CellsOfFloat
<1>6. CellsOfFloat(text) \in Seq(CellType) /\ Len(CellsOfFloat(text)) = n
  <2> HIDE DEF n, CellType
  <2> QED BY <1>1, <1>3, FunctionIsSeq
<1> QED BY <1>5, <1>6

LEMMA PutEffect ==
    ASSUME NEW cells \in Seq(CellType), cursor \in Cells, Put(cells),
           cursor + Len(cells) <= Rows * Columns
    PROVE  /\ cursor' = (cursor + Len(cells)) % (Rows * Columns)
           /\ \A a \in Cells :
                 screen'[a] = IF a < cursor \/ a >= cursor + Len(cells)
                              THEN screen[a] ELSE cells[a - cursor + 1]
<1>1. Rows * Columns = 72 /\ Cells = 0..71 /\ Len(cells) \in Nat
  BY DEF Rows, Columns, Cells
<1>2. ASSUME NEW a \in Cells
      PROVE  screen'[a] = IF a < cursor \/ a >= cursor + Len(cells)
                          THEN screen[a] ELSE cells[a - cursor + 1]
  <2> DEFINE place == ((a - cursor + 72) % 72) + 1
  <2>1. screen'[a] = IF place <= Len(cells) THEN cells[place] ELSE screen[a]
    BY <1>1 DEF Put
  <2>2. CASE a < cursor
    <3>1. place = a - cursor + 73
      BY <1>1, <2>2
    <3>2. ~ (place <= Len(cells))
      BY <1>1, <3>1
    <3> HIDE DEF place
    <3> QED BY <2>1, <2>2, <3>2
  <2>3. CASE a >= cursor
    <3>1. place = a - cursor + 1
      BY <1>1, <2>3
    <3>2. place <= Len(cells) <=> ~ (a >= cursor + Len(cells))
      BY <1>1, <3>1
    <3>3. ~ (a < cursor)
      BY <1>1, <2>3
    <3> HIDE DEF place
    <3> QED BY <2>1, <3>1, <3>2, <3>3
  <2> QED BY <1>1, <2>2, <2>3
<1> QED BY <1>1, <1>2 DEF Put

LEMMA TextParts ==
    ASSUME NEW name \in Name, NEW length \in 1..11
    PROVE  /\ Text(name, length) \in Texts
           /\ Text(name, length)[1] = name /\ Text(name, length)[2] = length
BY DEF Text, Texts

LEMMA Writes ==
    /\ lcd_clear_display \in Write
    /\ \A r \in 0..4 : lcd_pos(r) \in Write
    /\ \A t \in Texts : PrintStr(t) \in Write /\ PrintFloat(t) \in Write
<1>1. \A d \in {"print", "float"}, t \in Texts, r \in 0..4 :
          [do |-> d, text |-> t, row |-> r] \in Write
  BY DEF Write
<1>2. \A d \in {"pos", "clear"}, r \in 0..4 :
          [do |-> d, text |-> Text("", 0), row |-> r] \in Write
  BY DEF Write
<1>3. 0 \in 0..4
  OBVIOUS
<1>4. lcd_clear_display \in Write
  BY <1>2, <1>3, Zenon DEF lcd_clear_display
<1>5. \A r \in 0..4 : lcd_pos(r) \in Write
  BY <1>2, Zenon DEF lcd_pos
<1>6. \A t \in Texts : PrintStr(t) \in Write
  BY <1>1, <1>3, Zenon DEF PrintStr
<1>7. \A t \in Texts : PrintFloat(t) \in Write
  BY <1>1, <1>3, Zenon DEF PrintFloat
<1> QED BY <1>4, <1>5, <1>6, <1>7

LEMMA WriteParts ==
    ASSUME NEW w \in Write
    PROVE  /\ w.do \in {"print", "float", "pos", "clear"} /\ w.row \in 0..4
           /\ w.do \in {"print", "float"} => w.text \in Texts
BY DEF Write

LEMMA HomeIsWrites ==
    ASSUME NEW length \in CountLengths
    PROVE  print_home(length) \in Seq(Write) /\ Len(print_home(length)) = 4
<1>1. "CREAM" \in Name /\ "WPs" \in Name
  BY DEF Name
<1>2. length \in 1..11
  BY DisplayAssumption
<1>3. Text("CREAM", 5) \in Texts /\ WPs(length) \in Texts
  BY <1>1, <1>2, TextParts DEF WPs
<1>4. lcd_pos(1) \in Write
  BY Writes
<1> QED BY <1>3, <1>4, Writes DEF print_home

LEMMA OneTextIsWrites ==
    ASSUME NEW text \in Texts
    PROVE  /\ <<lcd_clear_display, PrintStr(text)>> \in Seq(Write)
           /\ Len(<<lcd_clear_display, PrintStr(text)>>) = 2
BY Writes

LEMMA MessageTexts ==
    /\ Text("Pending Fix", 11) \in Texts /\ Text("Pending Fix", 11)[2] = 11
    /\ Text("Bluetooth", 9) \in Texts /\ Text("Bluetooth", 9)[2] = 9
    /\ \A success \in BOOLEAN : Result(success) \in Texts /\ Result(success)[2] = 7
<1>1. "Pending Fix" \in Name /\ "Bluetooth" \in Name /\ "Success" \in Name /\ "Failure" \in Name
  BY DEF Name
<1>2. 11 \in 1..11 /\ 9 \in 1..11 /\ 7 \in 1..11
  OBVIOUS
<1>3. \A n \in 1..11 :
          /\ Text("Pending Fix", n) \in Texts /\ Text("Pending Fix", n)[2] = n
          /\ Text("Bluetooth", n) \in Texts /\ Text("Bluetooth", n)[2] = n
          /\ Text("Success", n) \in Texts /\ Text("Success", n)[2] = n
          /\ Text("Failure", n) \in Texts /\ Text("Failure", n)[2] = n
  BY <1>1, TextParts, Zenon
<1>4. Text("Pending Fix", 11) \in Texts /\ Text("Pending Fix", 11)[2] = 11
  BY <1>2, <1>3, Zenon
<1>5. Text("Bluetooth", 9) \in Texts /\ Text("Bluetooth", 9)[2] = 9
  BY <1>2, <1>3, Zenon
<1>6. /\ Text("Success", 7) \in Texts /\ Text("Success", 7)[2] = 7
      /\ Text("Failure", 7) \in Texts /\ Text("Failure", 7)[2] = 7
  BY <1>2, <1>3, Zenon
<1>7. ASSUME NEW success \in BOOLEAN
      PROVE  Result(success) = Text("Success", 7) \/ Result(success) = Text("Failure", 7)
  BY Zenon DEF Result
<1> QED BY <1>4, <1>5, <1>6, <1>7

(* The rows of the page that is shown while tracking: a label of three     *)
(* characters, and what it is about.                                       *)
Label(r) == <<SP, AV, TE, DI, WP>>[r + 1]
Value(d, r) ==
    << Text("speed", d.speed), Text("average", d.average),
       Text("time", TimeLength(d.elapsed)), Text("total", d.total),
       IF d.done THEN Done ELSE Text("waypoint", d.waypoint) >>[r + 1]
Padded(d, r) == r # 2 /\ ~ (r = 4 /\ d.done)

LEMMA RowTexts ==
    ASSUME NEW d \in Data, NEW r \in 0..4
    PROVE  /\ Label(r) \in Texts /\ Label(r)[2] = 3
           /\ Value(d, r) \in Texts /\ Value(d, r)[2] \in 1..9
<1>1. SpeedLengths \subseteq 1..9 /\ DistanceLengths \subseteq 1..9
  BY DisplayAssumption
<1>2. /\ d.speed \in 1..9 /\ d.average \in 1..9 /\ d.total \in 1..9 /\ d.waypoint \in 1..9
      /\ d.elapsed \in Clocks
  BY <1>1 DEF Data
<1> DEFINE t == TimeLength(d.elapsed)
<1>3. t \in 1..9
  BY <1>2, TimeLengths
<1> HIDE DEF t
<1>4. \A name \in Name, n \in 1..11 :
          Text(name, n) \in Texts /\ Text(name, n)[2] = n
  BY TextParts
<1>5. /\ "SP " \in Name /\ "AV " \in Name /\ "TE " \in Name /\ "DI " \in Name
      /\ "WP " \in Name /\ "Done" \in Name
      /\ "speed" \in Name /\ "average" \in Name /\ "time" \in Name
      /\ "total" \in Name /\ "waypoint" \in Name
  BY DEF Name
<1>6. /\ SP \in Texts /\ SP[2] = 3 /\ AV \in Texts /\ AV[2] = 3 /\ TE \in Texts /\ TE[2] = 3
      /\ DI \in Texts /\ DI[2] = 3 /\ WP \in Texts /\ WP[2] = 3
      /\ Done \in Texts /\ Done[2] = 4
  <2>1. 3 \in 1..11 /\ 4 \in 1..11
    OBVIOUS
  <2>2. SP \in Texts /\ SP[2] = 3
    BY <1>4, <1>5, <2>1, Zenon DEF SP
  <2>3. AV \in Texts /\ AV[2] = 3
    BY <1>4, <1>5, <2>1, Zenon DEF AV
  <2>4. TE \in Texts /\ TE[2] = 3
    BY <1>4, <1>5, <2>1, Zenon DEF TE
  <2>5. DI \in Texts /\ DI[2] = 3
    BY <1>4, <1>5, <2>1, Zenon DEF DI
  <2>6. WP \in Texts /\ WP[2] = 3
    BY <1>4, <1>5, <2>1, Zenon DEF WP
  <2>7. Done \in Texts /\ Done[2] = 4
    BY <1>4, <1>5, <2>1, Zenon DEF Done
  <2> QED BY <2>2, <2>3, <2>4, <2>5, <2>6, <2>7
<1>7. \A n \in 1..9 :
          /\ Text("speed", n) \in Texts /\ Text("speed", n)[2] = n
          /\ Text("average", n) \in Texts /\ Text("average", n)[2] = n
          /\ Text("time", n) \in Texts /\ Text("time", n)[2] = n
          /\ Text("total", n) \in Texts /\ Text("total", n)[2] = n
          /\ Text("waypoint", n) \in Texts /\ Text("waypoint", n)[2] = n
  <2>1. \A n \in 1..9 : n \in 1..11
    OBVIOUS
  <2> QED BY <1>4, <1>5, <2>1, Zenon
<1>8. \/ Label(r) = SP \/ Label(r) = AV \/ Label(r) = TE \/ Label(r) = DI \/ Label(r) = WP
  BY DEF Label
<1>9. \/ Value(d, r) = Text("speed", d.speed) \/ Value(d, r) = Text("average", d.average)
      \/ Value(d, r) = Text("time", t) \/ Value(d, r) = Text("total", d.total)
      \/ Value(d, r) = Text("waypoint", d.waypoint) \/ Value(d, r) = Done
  BY DEF Value, t
<1>10. Label(r) \in Texts /\ Label(r)[2] = 3
  BY <1>6, <1>8
<1>11. Value(d, r) \in Texts /\ Value(d, r)[2] \in 1..9
  BY <1>2, <1>3, <1>6, <1>7, <1>9
<1> QED BY <1>10, <1>11

LEMMA RowWrites ==
    ASSUME NEW d \in Data, NEW r \in 0..4
    PROVE  /\ Len(print_tracking_display(d)) = 15
           /\ print_tracking_display(d)[3 * r + 1] = lcd_pos(r)
           /\ print_tracking_display(d)[3 * r + 2] = PrintStr(Label(r))
           /\ print_tracking_display(d)[3 * r + 3] =
                 IF Padded(d, r) THEN PrintFloat(Value(d, r)) ELSE PrintStr(Value(d, r))
<1>1. CASE r = 0
  BY <1>1 DEF print_tracking_display, Label, Value, Padded
<1>2. CASE r = 1
  BY <1>2 DEF print_tracking_display, Label, Value, Padded
<1>3. CASE r = 2
  BY <1>3 DEF print_tracking_display, Label, Value, Padded
<1>4. CASE r = 3
  BY <1>4 DEF print_tracking_display, Label, Value, Padded
<1>5. CASE r = 4
  BY <1>5 DEF print_tracking_display, Label, Value, Padded
<1> QED BY <1>1, <1>2, <1>3, <1>4, <1>5

LEMMA TrackingIsWrites ==
    ASSUME NEW d \in Data
    PROVE  print_tracking_display(d) \in Seq(Write)
<1> DEFINE w == print_tracking_display(d)
<1>1. \A k \in 1..15 : \E r \in 0..4 : k = 3 * r + 1 \/ k = 3 * r + 2 \/ k = 3 * r + 3
  OBVIOUS
<1>2. ASSUME NEW r \in 0..4
      PROVE  w[3 * r + 1] \in Write /\ w[3 * r + 2] \in Write /\ w[3 * r + 3] \in Write
  <2> HIDE DEF Write, Name
  <2> QED BY RowTexts, RowWrites, Writes
<1>3. \A k \in 1..15 : w[k] \in Write
  <2> HIDE DEF w, Write
  <2> QED BY <1>1, <1>2
<1>4. w \in [1..15 -> Write]
  <2>1. DOMAIN w = 1..15 /\ w = [k \in 1..15 |-> w[k]]
    BY DEF print_tracking_display
  <2> HIDE DEF w, Write
  <2> QED BY <1>3, <2>1
<1> HIDE DEF w, Write
<1>5. w \in Seq(Write)
  BY <1>4, FunctionIsSeq
<1> QED BY <1>5 DEF w

-----------------------------------------------------------------------------
LEMMA PutType ==
    ASSUME NEW cells \in Seq(CellType), TypeOK, Put(cells)
    PROVE  cursor' \in Cells /\ \A a \in Cells : screen'[a] \in CellType
<1>1. Rows * Columns = 72 /\ Cells = 0..71 /\ Len(cells) \in Nat
  BY DEF Rows, Columns, Cells
<1>2. cursor \in Cells /\ \A a \in Cells : screen[a] \in CellType
  BY DEF TypeOK, CellType
<1>3. ASSUME NEW a \in Cells
      PROVE  screen'[a] \in CellType
  <2> DEFINE place == ((a - cursor + 72) % 72) + 1
  <2>1. screen'[a] = IF place <= Len(cells) THEN cells[place] ELSE screen[a]
    BY <1>1 DEF Put
  <2>2. place \in Nat /\ place >= 1
    BY <1>1, <1>2
  <2> HIDE DEF place, CellType
  <2>3. place <= Len(cells) => cells[place] \in CellType
    BY <1>1, <2>2, ElementOfSeq
  <2> QED BY <1>2, <2>1, <2>3
<1>4. cursor' \in Cells
  <2>1. cursor' = (cursor + Len(cells)) % 72
    BY <1>1 DEF Put
  <2>2. cursor + Len(cells) \in Nat
    BY <1>1, <1>2
  <2>3. \A n \in Nat : n % 72 \in 0..71
    OBVIOUS
  <2> QED BY <1>1, <2>1, <2>2, <2>3
<1> QED BY <1>3, <1>4

LEMMA WrittenType ==
    ASSUME NEW w \in Write, TypeOK, Written(w)
    PROVE  cursor' \in Cells /\ \A a \in Cells : screen'[a] \in CellType
<1>1. spill \in Nat
  BY DisplayAssumption DEF TypeOK
<1>2. w.do \in {"print", "float", "pos", "clear"} /\ w.row \in 0..4
      /\ (w.do \in {"print", "float"} => w.text \in Texts)
  BY WriteParts
<1>3. CASE w.do = "print"
  <2>1. w.text \in Texts /\ Put(CellsOf(w.text))
    BY <1>2, <1>3 DEF Written
  <2>2. CellsOf(w.text) \in Seq(CellType)
    BY <2>1, CellsOfText
  <2> QED BY <2>1, <2>2, PutType
<1>4. CASE w.do = "float"
  <2>1. w.text \in Texts /\ Put(CellsOfFloat(w.text))
    BY <1>2, <1>4 DEF Written
  <2>2. CellsOfFloat(w.text) \in Seq(CellType)
    BY <1>1, <2>1, CellsOfNumber
  <2> QED BY <2>1, <2>2, PutType
<1>5. CASE w.do = "pos"
  <2>1. cursor' = w.row * Columns /\ screen' = screen
    BY <1>5 DEF Written
  <2>2. cursor' \in Cells
    BY <1>2, <2>1 DEF Cells, Rows, Columns
  <2> QED BY <2>1, <2>2 DEF TypeOK, CellType
<1>6. CASE w.do = "clear"
  <2>1. cursor' = 0 /\ screen' = [a \in Cells |-> Blank]
    BY <1>6 DEF Written
  <2>2. Blank \in CellType
    BY DEF CellType
  <2>3. 0 \in Cells
    BY DEF Cells, Rows, Columns
  <2> QED BY <2>1, <2>2, <2>3
<1> QED BY <1>2, <1>3, <1>4, <1>5, <1>6

LEMMA BusInit == Init => BusInv
<1> SUFFICES ASSUME Init PROVE BusInv
  OBVIOUS
<1>1. PICK length \in CountLengths : todo = print_home(length)
  BY DEF Init
<1>2. todo \in Seq(Write)
  BY <1>1, HomeIsWrites
<1>3. \A i \in 1..Len(todo) : todo[i].do \in {"print", "float", "pos", "clear"}
  <2> HIDE DEF Write
  <2> QED BY <1>2, WriteParts, ElementOfSeq
<1>4. \A a \in Cells : screen[a] \in CellType
  BY DEF Init, CellType
<1>5. cursor \in Cells
  BY DEF Init, Cells, Rows, Columns
<1>6. TypeOK
  <2>1. data \in Data
    BY DEF Init
  <2> QED BY <1>3, <1>4, <1>5, <2>1 DEF Init, TypeOK, CellType
<1>7. BusIsOurs
  BY <1>2 DEF Init, BusIsOurs
<1> QED BY <1>6, <1>7 DEF BusInv

(* A page of which nothing is written yet.                                 *)
LEMMA BusShows ==
    ASSUME BusInv, NEW next, NEW writes \in Seq(Write), Shows(next, writes),
           next \in {"home", "pending", "tracking", "bluetooth", "leaving", "result"},
           page \notin {"bluetooth", "leaving"} \/ radio = "asleep",
           data' \in Data,
           UNCHANGED <<step, order, screen, cursor, radio, spill>>
    PROVE  BusInv'
<1>1. todo = <<>> /\ page' = next /\ todo' = writes
  BY DEF Shows
<1>2. TypeOK /\ BusIsOurs
  BY DEF BusInv
<1>3. step = "begin" /\ radio = "asleep"
  BY <1>1, <1>2 DEF BusIsOurs
<1>4. \A i \in 1..Len(todo') : todo'[i].do \in {"print", "float", "pos", "clear"}
  <2> HIDE DEF Write
  <2> QED BY <1>1, WriteParts, ElementOfSeq
<1>5. TypeOK'
  BY <1>1, <1>2, <1>4 DEF TypeOK
<1>6. BusIsOurs'
  BY <1>1, <1>3 DEF BusIsOurs
<1> QED BY <1>5, <1>6 DEF BusInv

(* The steps of a write and those of m_aci_isr.                            *)
LEMMA BusWrite ==
    ASSUME BusInv, Begin \/ Enable \/ Transfer \/ End \/ Isr
    PROVE  BusInv'
<1>1. TypeOK /\ BusIsOurs
  BY DEF BusInv
<1>2. todo \in Seq(Write)
  BY <1>1 DEF BusIsOurs
<1>3. todo # <<>> => Head(todo) \in Write /\ Tail(todo) \in Seq(Write)
  <2> HIDE DEF Write
  <2> QED BY <1>2
<1>4. CASE Begin \/ Enable
  <2>1. /\ todo # <<>> /\ order' = "MSBFIRST" /\ step' \in {"enable", "transfer"}
        /\ UNCHANGED <<page, data, todo, screen, cursor, radio, spill>>
    BY <1>1, <1>4 DEF Begin, Enable, BusIsOurs
  <2>2. TypeOK'
    BY <1>1, <2>1 DEF TypeOK
  <2> QED BY <1>1, <2>1, <2>2 DEF BusIsOurs, BusInv
<1>5. CASE Transfer
  <2>1. todo # <<>> /\ order = "MSBFIRST" /\ Written(Head(todo))
    BY <1>1, <1>5 DEF Transfer, BusIsOurs
  <2>2. cursor' \in Cells /\ \A a \in Cells : screen'[a] \in CellType
    BY <1>1, <1>3, <2>1, WrittenType
  <2> QED BY <1>1, <1>5, <2>1, <2>2 DEF Transfer, TypeOK, BusIsOurs, BusInv, CellType
<1>6. CASE End
  <2>1. todo # <<>> /\ todo' = Tail(todo) /\ step' = "begin"
        /\ UNCHANGED <<page, data, order, screen, cursor, radio, spill>>
    BY <1>6 DEF End
  <2>2. todo' \in Seq(Write)
    BY <1>3, <2>1
  <2>3. \A i \in 1..Len(todo') : todo'[i].do \in {"print", "float", "pos", "clear"}
    <3> HIDE DEF Write
    <3> QED BY <2>2, WriteParts, ElementOfSeq
  <2>4. TypeOK'
    BY <1>1, <2>1, <2>3 DEF TypeOK
  <2>5. BusIsOurs'
    BY <1>1, <2>1, <2>2 DEF BusIsOurs
  <2> QED BY <2>4, <2>5 DEF BusInv
<1>7. CASE Isr
  <2>1. radio # "asleep" /\ todo = <<>> /\ step = "begin"
    BY <1>1, <1>7 DEF Isr, BusIsOurs
  <2>2. /\ radio' \in {"asleep", "awake", "last events"} /\ order' = "LSBFIRST"
        /\ UNCHANGED <<page, data, todo, step, screen, cursor, spill>>
    BY <1>7, <2>1 DEF Isr
  <2> QED BY <1>1, <2>1, <2>2 DEF TypeOK, BusIsOurs, BusInv
<1> QED BY <1>4, <1>5, <1>6, <1>7

LEMMA BusNext == BusInv /\ [Next]_vars => BusInv'
<1> SUFFICES ASSUME BusInv, [Next]_vars PROVE BusInv'
  OBVIOUS
<1>1. TypeOK /\ BusIsOurs
  BY DEF BusInv
<1>2. CASE UNCHANGED vars
  BY <1>1, <1>2 DEF TypeOK, BusIsOurs, BusInv, vars, bus
<1>3. CASE Begin \/ Enable \/ Transfer \/ End \/ Isr
  BY <1>3, BusWrite
<1>4. data \in Data
  BY <1>1 DEF TypeOK
<1>5. ASSUME NEW next \in {"home"}, Home(next), page \notin {"bluetooth", "leaving"},
             UNCHANGED <<data, step, order, screen, cursor, radio, spill>>
      PROVE  BusInv'
  <2>1. PICK length \in CountLengths : Shows("home", print_home(length))
    BY <1>5 DEF Home
  <2>2. data' \in Data
    BY <1>4, <1>5
  <2> QED BY <1>5, <2>1, <2>2, HomeIsWrites, BusShows
<1>6. CASE StartTracking
  <2>1. Text("Pending Fix", 11) \in Texts
    BY MessageTexts
  <2>2. Shows("pending", <<lcd_clear_display, PrintStr(Text("Pending Fix", 11))>>)
    BY <1>6 DEF StartTracking
  <2>3. /\ page = "home" /\ data' \in Data
        /\ UNCHANGED <<step, order, screen, cursor, radio, spill>>
    BY <1>6 DEF StartTracking
  <2> QED BY <2>1, <2>2, <2>3, OneTextIsWrites, BusShows
<1>7. CASE Fix
  <2>1. /\ page \in {"pending", "tracking"} /\ data' \in Data
        /\ UNCHANGED <<step, order, screen, cursor, radio, spill>>
    BY <1>7 DEF Fix
  <2> DEFINE clear == IF page = "pending" THEN <<lcd_clear_display>> ELSE <<>>
  <2>2. Shows("tracking", clear \o print_tracking_display(data'))
    BY <1>7 DEF Fix
  <2>3. print_tracking_display(data') \in Seq(Write)
    BY <2>1, TrackingIsWrites
  <2>4. clear \in Seq(Write)
    <3> HIDE DEF Write
    <3> QED BY Writes
  <2> HIDE DEF clear
  <2>5. clear \o print_tracking_display(data') \in Seq(Write)
    <3> HIDE DEF Write
    <3> QED BY <2>3, <2>4, ConcatProperties
  <2> QED BY <2>1, <2>2, <2>5, BusShows
<1>8. CASE LineWithoutFix
  <2>1. PICK n \in Clocks : data' = [data EXCEPT !.elapsed = n]
    BY <1>8 DEF LineWithoutFix
  <2>2. data' \in Data
    BY <1>4, <2>1 DEF Data
  <2>3. print_tracking_display(data') \in Seq(Write)
    BY <2>2, TrackingIsWrites
  <2> QED BY <1>8, <2>2, <2>3, BusShows DEF LineWithoutFix
<1>9. CASE StopTracking
  BY <1>5, <1>9 DEF StopTracking
<1>10. CASE StartBluetooth
  <2>1. Text("Bluetooth", 9) \in Texts
    BY MessageTexts
  <2>2. Shows("bluetooth", <<lcd_clear_display, PrintStr(Text("Bluetooth", 9))>>)
    BY <1>10 DEF StartBluetooth
  <2>3. /\ page = "home" /\ data' \in Data
        /\ UNCHANGED <<step, order, screen, cursor, radio, spill>>
    BY <1>4, <1>10 DEF StartBluetooth
  <2> QED BY <2>1, <2>2, <2>3, OneTextIsWrites, BusShows
<1>11. CASE Advertise
  BY <1>1, <1>11 DEF Advertise, TypeOK, BusIsOurs, BusInv, bus
<1>12. CASE Sleep
  BY <1>1, <1>12 DEF Sleep, TypeOK, BusIsOurs, BusInv, bus
<1>13. CASE Dismiss
  BY <1>5, <1>13 DEF Dismiss
<1>14. ASSUME NEW success \in BOOLEAN, ShowResult(success)
       PROVE  BusInv'
  <2>1. Result(success) \in Texts
    BY MessageTexts
  <2>2. Shows("result", <<lcd_clear_display, PrintStr(Result(success))>>)
    BY <1>14 DEF ShowResult
  <2>3. /\ radio = "asleep" /\ data' \in Data
        /\ UNCHANGED <<step, order, screen, cursor, radio, spill>>
    BY <1>4, <1>14 DEF ShowResult
  <2> QED BY <2>1, <2>2, <2>3, OneTextIsWrites, BusShows
<1> QED BY <1>2, <1>3, <1>6, <1>7, <1>8, <1>9, <1>10, <1>11, <1>12, <1>13, <1>14 DEF Next

(* In each of its cells the display has a part of a text, a blank or       *)
(* garbage, whatever is written and whatever m_aci_isr does meanwhile.     *)
THEOREM DisplayTypeCorrect == Spec => []TypeOK
<1>1. BusInv => TypeOK
  BY DEF BusInv
<1> QED BY <1>1, BusInit, BusNext, PTL DEF Spec

-----------------------------------------------------------------------------
(* How far the program is with the writes of a page                        *)

(* Todo is what is left of them, and Made counts those that the display    *)
(* has had.                                                                *)
Left(w) ==
    /\ Len(todo) <= Len(w)
    /\ \A k \in 1..Len(todo) : todo[k] = w[Len(w) - Len(todo) + k]
Made(w) == Len(w) - Len(todo) + (IF step = "end" THEN 1 ELSE 0)

LEMMA NothingMade ==
    ASSUME BusInv, NEW next, NEW w \in Seq(Write), Shows(next, w), UNCHANGED step
    PROVE  Left(w)' /\ Made(w)' = 0
<1>1. todo = <<>> /\ todo' = w /\ step' = "begin"
  BY DEF Shows, BusInv, BusIsOurs
<1>2. Len(w) \in Nat
  BY LenProperties
<1> QED BY <1>1, <1>2 DEF Left, Made

LEMMA AllMade ==
    ASSUME BusInv, NEW w \in Seq(Write), todo = <<>>
    PROVE  Made(w) = Len(w)
<1>1. step # "end" /\ Len(todo) = 0
  BY DEF BusInv, BusIsOurs
<1>2. Len(w) \in Nat
  BY LenProperties
<1> QED BY <1>1, <1>2 DEF Made

LEMMA SameMade ==
    ASSUME BusInv, NEW w \in Seq(Write), Left(w), Begin \/ Enable \/ End
    PROVE  Left(w)' /\ Made(w)' = Made(w)
<1>1. todo \in Seq(Write) /\ Len(todo) \in Nat /\ Len(w) \in Nat
  BY LenProperties DEF BusInv, BusIsOurs
<1>2. CASE Begin \/ Enable
  <2>1. todo' = todo /\ step # "end" /\ step' # "end"
    BY <1>2 DEF Begin, Enable
  <2> QED BY <2>1 DEF Left, Made
<1>3. CASE End
  <2>1. todo # <<>> /\ todo' = Tail(todo) /\ step = "end" /\ step' = "begin"
    BY <1>3 DEF End
  <2>2. Len(todo') = Len(todo) - 1 /\ \A k \in 1..Len(todo') : todo'[k] = todo[k + 1]
    <3> HIDE DEF Write
    <3> QED BY <1>1, <2>1, HeadTailProperties
  <2>3. \A k \in 1..Len(todo') : todo'[k] = w[Len(w) - Len(todo') + k]
    <3> SUFFICES ASSUME NEW k \in 1..Len(todo')
                 PROVE  todo'[k] = w[Len(w) - Len(todo') + k]
      OBVIOUS
    <3>1. k + 1 \in 1..Len(todo)
      BY <1>1, <2>2
    <3>2. todo[k + 1] = w[Len(w) - Len(todo) + (k + 1)]
      BY <3>1 DEF Left
    <3>3. Len(w) - Len(todo) + (k + 1) = Len(w) - Len(todo') + k
      BY <1>1, <2>2
    <3> QED BY <2>2, <3>2, <3>3
  <2>4. Left(w)'
    BY <1>1, <2>2, <2>3 DEF Left
  <2>5. Made(w)' = Made(w)
    BY <1>1, <2>1, <2>2 DEF Made
  <2> QED BY <2>4, <2>5
<1> QED BY <1>2, <1>3

LEMMA OneMoreMade ==
    ASSUME BusInv, NEW w \in Seq(Write), Left(w), Transfer
    PROVE  /\ Left(w)' /\ Made(w) \in Nat /\ Made(w) + 1 \in 1..Len(w)
           /\ Made(w)' = Made(w) + 1
           /\ Written(w[Made(w) + 1])
           /\ UNCHANGED <<page, data, spill>>
<1>1. todo \in Seq(Write) /\ Len(todo) \in Nat /\ Len(w) \in Nat
  BY LenProperties DEF BusInv, BusIsOurs
<1>2. /\ todo # <<>> /\ step = "transfer" /\ order = "MSBFIRST"
      /\ Written(Head(todo)) /\ step' = "end" /\ todo' = todo
      /\ UNCHANGED <<page, data, spill>>
  BY DEF Transfer, BusInv, BusIsOurs
<1>3. Len(todo) >= 1 /\ Head(todo) = todo[1]
  <2> HIDE DEF Write
  <2> QED BY <1>1, <1>2
<1>4. Made(w) = Len(w) - Len(todo) /\ Made(w)' = Len(w) - Len(todo) + 1
  BY <1>1, <1>2 DEF Made
<1>5. Len(todo) <= Len(w) /\ todo[1] = w[Len(w) - Len(todo) + 1]
  BY <1>1, <1>3 DEF Left
<1>6. Left(w)'
  BY <1>2 DEF Left
<1> HIDE DEF Made
<1>7. Made(w) \in Nat /\ Made(w) + 1 \in 1..Len(w) /\ Made(w)' = Made(w) + 1
  BY <1>1, <1>3, <1>4, <1>5
<1>8. Head(todo) = w[Made(w) + 1]
  BY <1>3, <1>4, <1>5
<1> QED BY <1>2, <1>6, <1>7, <1>8

-----------------------------------------------------------------------------
(* The pages, after so many of their writes: what is in the cells, and     *)
(* where the cursor is                                                     *)

(* The effect of each of the writes.                                       *)
LEMMA ClearEffect ==
    ASSUME Written(lcd_clear_display)
    PROVE  cursor' = 0 /\ \A a \in Cells : screen'[a] = Blank
BY DEF Written, lcd_clear_display

LEMMA PosEffect ==
    ASSUME NEW r \in 0..4, Written(lcd_pos(r))
    PROVE  cursor' = 12 * r /\ screen' = screen
<1>1. lcd_pos(r).do = "pos" /\ lcd_pos(r).row = r
  BY DEF lcd_pos
<1>2. cursor' = lcd_pos(r).row * Columns /\ screen' = screen
  BY <1>1 DEF Written
<1> QED BY <1>1, <1>2 DEF Columns

LEMMA StrEffect ==
    ASSUME NEW text \in Texts, cursor \in Nat, cursor + text[2] <= 71,
           Written(PrintStr(text))
    PROVE  /\ cursor' = cursor + text[2]
           /\ \A a \in Cells :
                 screen'[a] = IF a < cursor \/ a >= cursor + text[2]
                              THEN screen[a] ELSE Cell(text, a - cursor + 1)
<1>1. PrintStr(text).do = "print" /\ PrintStr(text).text = text
  BY DEF PrintStr
<1>2. Put(CellsOf(text))
  BY <1>1 DEF Written
<1>3. /\ CellsOf(text) \in Seq(CellType) /\ Len(CellsOf(text)) = text[2]
      /\ \A k \in 1..text[2] : CellsOf(text)[k] = Cell(text, k)
  BY CellsOfText
<1>4. text[2] \in 1..11
  BY DEF Texts
<1>5. cursor \in Cells /\ Rows * Columns = 72 /\ Cells = 0..71
  BY <1>4 DEF Cells, Rows, Columns
<1> HIDE DEF CellType
<1>6. /\ cursor' = (cursor + text[2]) % 72
      /\ \A a \in Cells :
            screen'[a] = IF a < cursor \/ a >= cursor + text[2]
                         THEN screen[a] ELSE CellsOf(text)[a - cursor + 1]
  <2> DEFINE cells == CellsOf(text)
  <2>1. cells \in Seq(CellType) /\ Put(cells) /\ cursor + Len(cells) <= Rows * Columns
    BY <1>2, <1>3, <1>4, <1>5
  <2>2. /\ cursor' = (cursor + Len(cells)) % (Rows * Columns)
        /\ \A a \in Cells :
              screen'[a] = IF a < cursor \/ a >= cursor + Len(cells)
                           THEN screen[a] ELSE cells[a - cursor + 1]
    <3> HIDE DEF cells
    <3> QED BY <1>5, <2>1, PutEffect
  <2> QED BY <1>3, <1>5, <2>2
<1>7. cursor' = cursor + text[2]
  <2>1. cursor + text[2] \in 0..71
    BY <1>4
  <2>2. \A n \in 0..71 : n % 72 = n
    OBVIOUS
  <2> QED BY <1>6, <2>1, <2>2
<1>8. ASSUME NEW a \in Cells, ~ (a < cursor), ~ (a >= cursor + text[2])
      PROVE  CellsOf(text)[a - cursor + 1] = Cell(text, a - cursor + 1)
  <2>1. a - cursor + 1 \in 1..text[2]
    BY <1>4, <1>5, <1>8
  <2> QED BY <1>3, <2>1
<1> QED BY <1>6, <1>7, <1>8

(* A number in its buffer: it has nine cells, and then come those of the   *)
(* bytes that spill, of which not more than so many are looked at.         *)
LEMMA FloatEffect ==
    ASSUME NEW text \in Texts, text[2] \in 1..9, spill \in 0..10,
           cursor \in Nat, cursor <= 51,
           Written(PrintFloat(text))
    PROVE  \A a \in Cells :
              /\ a < cursor \/ a >= cursor + 20 => screen'[a] = screen[a]
              /\ cursor <= a /\ a < cursor + 9 =>
                    screen'[a] = IF a < cursor + text[2]
                                 THEN Cell(text, a - cursor + 1) ELSE Blank
<1>1. PrintFloat(text).do = "float" /\ PrintFloat(text).text = text
  BY DEF PrintFloat
<1>2. Put(CellsOfFloat(text))
  BY <1>1 DEF Written
<1>3. /\ CellsOfFloat(text) \in Seq(CellType)
      /\ Len(CellsOfFloat(text)) = 10 + spill
      /\ \A k \in 1..9 :
            CellsOfFloat(text)[k] = IF k <= text[2] THEN Cell(text, k) ELSE Blank
  <2>1. spill \in Nat /\ LCD_LEN - 3 + spill = 10 + spill
    BY DEF LCD_LEN
  <2> HIDE DEF CellType
  <2> QED BY <2>1, CellsOfNumber
<1>4. cursor \in Cells /\ Rows * Columns = 72 /\ Cells = 0..71
  BY DEF Cells, Rows, Columns
<1> HIDE DEF CellType
<1>6. \A a \in Cells :
          screen'[a] = IF a < cursor \/ a >= cursor + (10 + spill)
                       THEN screen[a] ELSE CellsOfFloat(text)[a - cursor + 1]
  <2> DEFINE cells == CellsOfFloat(text)
  <2>1. cells \in Seq(CellType) /\ Put(cells) /\ cursor + Len(cells) <= Rows * Columns
    BY <1>2, <1>3, <1>4
  <2>2. /\ cursor' = (cursor + Len(cells)) % (Rows * Columns)
        /\ \A a \in Cells :
              screen'[a] = IF a < cursor \/ a >= cursor + Len(cells)
                           THEN screen[a] ELSE cells[a - cursor + 1]
    <3> HIDE DEF cells
    <3> QED BY <1>4, <2>1, PutEffect
  <2> QED BY <1>3, <1>4, <2>2
<1>7. ASSUME NEW a \in Cells, a < cursor \/ a >= cursor + 20
      PROVE  screen'[a] = screen[a]
  BY <1>4, <1>6, <1>7
<1>8. ASSUME NEW a \in Cells, cursor <= a, a < cursor + 9
      PROVE  screen'[a] = IF a < cursor + text[2]
                          THEN Cell(text, a - cursor + 1) ELSE Blank
  <2> DEFINE k == a - cursor + 1
  <2>1. k \in 1..9 /\ (k <= text[2] <=> a < cursor + text[2])
    BY <1>4, <1>8
  <2>2. screen'[a] = CellsOfFloat(text)[k]
    BY <1>4, <1>6, <1>8
  <2> HIDE DEF k
  <2>3. screen'[a] = IF k <= text[2] THEN Cell(text, k) ELSE Blank
    BY <1>3, <2>1, <2>2
  <2> QED BY <2>1, <2>3 DEF k
<1> QED BY <1>7, <1>8

(* The page of one text.                                                   *)
OneText(text) == <<lcd_clear_display, PrintStr(text)>>
OneTextDrawn(text, m, s, c) ==
    /\ m = 1 => c = 0
    /\ m >= 1 => \A a \in Cells :
                    s[a] = IF m >= 2 /\ a < text[2] THEN Cell(text, a + 1) ELSE Blank

LEMMA OneTextGoesOn ==
    ASSUME NEW text \in Texts, NEW m \in Nat, m + 1 \in 1..2,
           OneTextDrawn(text, m, screen, cursor), Written(OneText(text)[m + 1])
    PROVE  OneTextDrawn(text, m + 1, screen', cursor')
<1>1. CASE m = 0
  BY <1>1, ClearEffect DEF OneText, OneTextDrawn
<1>2. CASE m = 1
  <2>1. Written(PrintStr(text)) /\ cursor = 0
    BY <1>2 DEF OneText, OneTextDrawn
  <2>2. text[2] \in 1..11
    BY DEF Texts
  <2>3. \A a \in Cells :
            screen'[a] = IF a < cursor \/ a >= cursor + text[2]
                         THEN screen[a] ELSE Cell(text, a - cursor + 1)
    BY <2>1, <2>2, StrEffect
  <2>4. ASSUME NEW a \in Cells
        PROVE  screen'[a] = IF a < text[2] THEN Cell(text, a + 1) ELSE Blank
    <3>1. a \in 0..71
      BY DEF Cells, Rows, Columns
    <3>2. screen[a] = Blank
      BY <1>2 DEF OneTextDrawn
    <3>3. a - 0 + 1 = a + 1 /\ ~ (a < 0)
      BY <3>1
    <3> QED BY <2>1, <2>2, <2>3, <3>1, <3>2, <3>3
  <2> QED BY <1>2, <2>4 DEF OneTextDrawn
<1> QED BY <1>1, <1>2

(* The home page.                                                          *)
Cream == Text("CREAM", 5)
HomeDrawn(length, m, s, c) ==
    /\ m = 1 => c = 0
    /\ m = 3 => c = 12
    /\ m >= 1 => \A a \in Cells :
          s[a] = IF m >= 2 /\ a < 5 THEN Cell(Cream, a + 1)
                 ELSE IF m >= 4 /\ a >= 12 /\ a < 12 + length THEN Cell(WPs(length), a - 12 + 1)
                 ELSE Blank

LEMMA HomeTexts ==
    ASSUME NEW length \in CountLengths
    PROVE  /\ Cream \in Texts /\ Cream[2] = 5
           /\ length \in 5..6 /\ WPs(length) \in Texts /\ WPs(length)[2] = length
<1>1. "CREAM" \in Name /\ "WPs" \in Name
  BY DEF Name
<1>2. length \in 5..6 /\ length \in 1..11 /\ 5 \in 1..11
  BY DisplayAssumption
<1>3. Cream \in Texts /\ Cream[2] = 5
  BY <1>1, <1>2, TextParts, Zenon DEF Cream
<1>4. WPs(length) \in Texts /\ WPs(length)[2] = length
  BY <1>1, <1>2, TextParts, Zenon DEF WPs
<1> QED BY <1>2, <1>3, <1>4

LEMMA HomeGoesOn ==
    ASSUME NEW length \in CountLengths, NEW m \in Nat, m + 1 \in 1..4,
           HomeDrawn(length, m, screen, cursor), Written(print_home(length)[m + 1])
    PROVE  HomeDrawn(length, m + 1, screen', cursor')
<1>1. /\ Cream \in Texts /\ Cream[2] = 5
      /\ length \in 5..6 /\ WPs(length) \in Texts /\ WPs(length)[2] = length
  BY HomeTexts
<1>2. \A a \in Cells : a \in 0..71
  BY DEF Cells, Rows, Columns
<1>3. CASE m = 0
  <2>1. Written(lcd_clear_display)
    BY <1>3 DEF print_home
  <2>2. cursor' = 0 /\ \A a \in Cells : screen'[a] = Blank
    BY <2>1, ClearEffect
  <2> QED BY <1>3, <2>2 DEF HomeDrawn
<1>4. CASE m = 1
  <2>1. Written(PrintStr(Cream))
    BY <1>4 DEF print_home, Cream
  <2>2. cursor = 0 /\ \A a \in Cells : screen[a] = Blank
    BY <1>2, <1>4 DEF HomeDrawn
  <2>3. \A a \in Cells :
            screen'[a] = IF a < cursor \/ a >= cursor + Cream[2]
                         THEN screen[a] ELSE Cell(Cream, a - cursor + 1)
    BY <1>1, <2>1, <2>2, StrEffect
  <2>4. ASSUME NEW a \in Cells
        PROVE  screen'[a] = IF a < 5 THEN Cell(Cream, a + 1) ELSE Blank
    <3>1. a - 0 + 1 = a + 1 /\ ~ (a < 0)
      BY <1>2
    <3> QED BY <1>1, <1>2, <2>2, <2>3, <3>1
  <2> QED BY <1>4, <2>4 DEF HomeDrawn
<1>5. CASE m = 2
  <2>1. Written(lcd_pos(1))
    BY <1>5 DEF print_home
  <2>2. cursor' = 12 /\ screen' = screen
    BY <2>1, PosEffect
  <2> QED BY <1>5, <2>2 DEF HomeDrawn
<1>6. CASE m = 3
  <2>1. Written(PrintStr(WPs(length)))
    BY <1>6 DEF print_home
  <2>2. /\ cursor = 12
        /\ \A a \in Cells : screen[a] = IF a < 5 THEN Cell(Cream, a + 1) ELSE Blank
    BY <1>2, <1>6 DEF HomeDrawn
  <2>3. \A a \in Cells :
            screen'[a] = IF a < cursor \/ a >= cursor + WPs(length)[2]
                         THEN screen[a] ELSE Cell(WPs(length), a - cursor + 1)
    BY <1>1, <2>1, <2>2, StrEffect
  <2>4. ASSUME NEW a \in Cells
        PROVE  screen'[a] = IF a < 5 THEN Cell(Cream, a + 1)
                            ELSE IF a >= 12 /\ a < 12 + length
                                 THEN Cell(WPs(length), a - 12 + 1)
                            ELSE Blank
    BY <1>1, <1>2, <2>2, <2>3
  <2> QED BY <1>6, <2>4 DEF HomeDrawn
<1> QED BY <1>3, <1>4, <1>5, <1>6

(* The page that is shown while tracking. A row is drawn once its value is,*)
(* and what follows it in memory does no harm: it falls in the next row,   *)
(* which is yet to be drawn, and short of the end of the clock's.          *)
RowDrawn(d, r, s) ==
    /\ \A k \in 1..3 : s[12 * r + k - 1] = Cell(Label(r), k)
    /\ \A k \in 1..9 :
          /\ k <= Value(d, r)[2] => s[12 * r + 2 + k] = Cell(Value(d, r), k)
          /\ Padded(d, r) /\ k > Value(d, r)[2] => s[12 * r + 2 + k] = Blank

TrackingDrawn(d, m, s, c) ==
    /\ m >= 0 => s[35] = Blank
    /\ \A r \in 0..4 :
          /\ m = 3 * r + 1 => c = 12 * r
          /\ m = 3 * r + 2 => /\ c = 12 * r + 3
                              /\ \A k \in 1..3 : s[12 * r + k - 1] = Cell(Label(r), k)
          /\ m >= 3 * r + 3 => RowDrawn(d, r, s)

LEMMA RowStays ==
    ASSUME NEW d \in Data, NEW r \in 0..4, NEW q \in 0..4, q < r,
           NEW s, NEW t, RowDrawn(d, q, s),
           \A a \in Cells : a < 12 * r => t[a] = s[a]
    PROVE  RowDrawn(d, q, t)
<1>1. \A k \in 1..9 : 12 * q + 2 + k \in Cells /\ 12 * q + 2 + k < 12 * r
  BY DEF Cells, Rows, Columns
<1>2. \A k \in 1..3 : 12 * q + k - 1 \in Cells /\ 12 * q + k - 1 < 12 * r
  BY DEF Cells, Rows, Columns
<1>3. \A k \in 1..9 : t[12 * q + 2 + k] = s[12 * q + 2 + k]
  BY <1>1
<1>4. \A k \in 1..3 : t[12 * q + k - 1] = s[12 * q + k - 1]
  BY <1>2
<1> QED BY <1>3, <1>4 DEF RowDrawn

LEMMA ClockLength ==
    ASSUME NEW d \in Data, TimeLength(d.elapsed) = 8
    PROVE  Value(d, 2)[2] = 8
<1>1. Value(d, 2) = Text("time", 8)
  BY DEF Value
<1>2. "time" \in Name /\ 8 \in 1..11
  BY DEF Name
<1>3. Text("time", 8)[2] = 8
  BY <1>2, TextParts, Zenon
<1> QED BY <1>1, <1>3

LEMMA TrackingGoesOn ==
    ASSUME NEW d \in Data, NEW m \in 0..14, spill \in 0..10, TimeLength(d.elapsed) = 8,
           TrackingDrawn(d, m, screen, cursor), Written(print_tracking_display(d)[m + 1])
    PROVE  TrackingDrawn(d, m + 1, screen', cursor')
<1>1. PICK r \in 0..4 : m = 3 * r \/ m = 3 * r + 1 \/ m = 3 * r + 2
  OBVIOUS
<1>2. /\ Label(r) \in Texts /\ Label(r)[2] = 3
      /\ Value(d, r) \in Texts /\ Value(d, r)[2] \in 1..9
  BY RowTexts
<1>3. Cells = 0..71
  BY DEF Cells, Rows, Columns
<1>4. screen[35] = Blank /\ \A q \in 0..4 : m >= 3 * q + 3 => RowDrawn(d, q, screen)
  BY DEF TrackingDrawn
<1>5. ASSUME \A a \in Cells : a < 12 * r => screen'[a] = screen[a]
      PROVE  \A q \in 0..4 : q < r => RowDrawn(d, q, screen')
  <2> SUFFICES ASSUME NEW q \in 0..4, q < r PROVE RowDrawn(d, q, screen')
    OBVIOUS
  <2>1. RowDrawn(d, q, screen)
    BY <1>1, <1>4
  <2> QED BY <1>5, <2>1, RowStays
<1>6. CASE m = 3 * r
  <2>1. cursor' = 12 * r /\ screen' = screen
    <3>1. Written(lcd_pos(r))
      BY <1>6, RowWrites
    <3> QED BY <3>1, PosEffect
  <2>2. \A q \in 0..4 :
            /\ m + 1 = 3 * q + 1 => q = r
            /\ m + 1 # 3 * q + 2
            /\ m + 1 >= 3 * q + 3 => m >= 3 * q + 3
    BY <1>6
  <2> QED BY <1>4, <2>1, <2>2 DEF TrackingDrawn
<1>7. CASE m = 3 * r + 1
  <2>1. cursor = 12 * r
    BY <1>7 DEF TrackingDrawn
  <2>2. Written(PrintStr(Label(r)))
    BY <1>7, RowWrites
  <2>3. cursor \in Nat /\ cursor + Label(r)[2] <= 71
    BY <1>2, <2>1
  <2>4. /\ cursor' = 12 * r + 3
        /\ \A a \in Cells :
              screen'[a] = IF a < 12 * r \/ a >= 12 * r + 3
                           THEN screen[a] ELSE Cell(Label(r), a - 12 * r + 1)
    BY <1>2, <2>1, <2>2, <2>3, StrEffect
  <2>5. \A a \in Cells : a < 12 * r => screen'[a] = screen[a]
    BY <2>4
  <2>6. screen'[35] = Blank
    <3>1. 35 \in Cells /\ (35 < 12 * r \/ 35 >= 12 * r + 3)
      BY <1>3
    <3> QED BY <1>4, <2>4, <3>1
  <2>7. ASSUME NEW k \in 1..3
        PROVE  screen'[12 * r + k - 1] = Cell(Label(r), k)
    <3> DEFINE a == 12 * r + k - 1
    <3>1. a \in Cells /\ ~ (a < 12 * r \/ a >= 12 * r + 3) /\ a - 12 * r + 1 = k
      BY <1>3
    <3> HIDE DEF a
    <3>2. screen'[a] = Cell(Label(r), k)
      BY <2>4, <3>1
    <3> QED BY <3>2 DEF a
  <2>8. \A q \in 0..4 :
            /\ m + 1 # 3 * q + 1
            /\ m + 1 = 3 * q + 2 => q = r
            /\ m + 1 >= 3 * q + 3 => q < r
    BY <1>7
  <2>9. \A q \in 0..4 : q < r => RowDrawn(d, q, screen')
    BY <1>5, <2>5
  <2> QED BY <2>4, <2>6, <2>7, <2>8, <2>9 DEF TrackingDrawn
<1>8. CASE m = 3 * r + 2
  <2> DEFINE v == Value(d, r)
  <2>1. cursor = 12 * r + 3 /\ \A k \in 1..3 : screen[12 * r + k - 1] = Cell(Label(r), k)
    BY <1>8 DEF TrackingDrawn
  <2>2. Written(IF Padded(d, r) THEN PrintFloat(v) ELSE PrintStr(v))
    BY <1>8, RowWrites
  <2> DEFINE Drawn ==
        /\ \A a \in Cells : a < 12 * r + 3 => screen'[a] = screen[a]
        /\ screen'[35] = Blank
        /\ \A a \in Cells :
              /\ a >= 12 * r + 3 /\ a < 12 * r + 3 + v[2] =>
                    screen'[a] = Cell(v, a - (12 * r + 3) + 1)
              /\ Padded(d, r) /\ a >= 12 * r + 3 + v[2] /\ a < 12 * r + 12 =>
                    screen'[a] = Blank
  <2>3. ASSUME Padded(d, r) PROVE Drawn
    <3>1. cursor \in Nat /\ cursor <= 51
      BY <2>1
    <3>2. \A a \in Cells :
              /\ a < cursor \/ a >= cursor + 20 => screen'[a] = screen[a]
              /\ cursor <= a /\ a < cursor + 9 =>
                    screen'[a] = IF a < cursor + v[2]
                                 THEN Cell(v, a - cursor + 1) ELSE Blank
      <4>1. Written(PrintFloat(v))
        BY <2>2, <2>3
      <4> HIDE DEF v
      <4> QED BY <1>2, <3>1, <4>1, FloatEffect DEF v
    <3>3. 35 \in Cells /\ (35 < cursor \/ 35 >= cursor + 20)
      <4>1. r # 2
        BY <2>3 DEF Padded
      <4> QED BY <1>3, <2>1, <4>1
    <3>4. screen'[35] = Blank
      BY <1>4, <3>2, <3>3
    <3>5. \A a \in Cells : a < 12 * r + 3 => screen'[a] = screen[a]
      BY <2>1, <3>2
    <3>6. v[2] \in 1..9
      BY <1>2
    <3> HIDE DEF v
    <3>7. \A a \in Cells :
              /\ a >= 12 * r + 3 /\ a < 12 * r + 3 + v[2] =>
                    screen'[a] = Cell(v, a - (12 * r + 3) + 1)
              /\ a >= 12 * r + 3 + v[2] /\ a < 12 * r + 12 => screen'[a] = Blank
      BY <1>3, <2>1, <3>2, <3>6
    <3> QED BY <3>4, <3>5, <3>7
  <2>4. ASSUME ~ Padded(d, r) PROVE Drawn
    <3>1. v[2] \in 1..9 /\ (r # 2 \/ v[2] = 8)
      BY <1>2, ClockLength
    <3>2. Written(PrintStr(v))
      BY <2>2, <2>4
    <3>3. r = 2 \/ r = 4
      BY <2>4 DEF Padded
    <3>4. v \in Texts
      BY <1>2
    <3> HIDE DEF v
    <3>5. cursor \in Nat /\ cursor + v[2] <= 71
      BY <2>1, <3>1
    <3>6. \A a \in Cells :
              screen'[a] = IF a < cursor \/ a >= cursor + v[2]
                           THEN screen[a] ELSE Cell(v, a - cursor + 1)
      BY <3>2, <3>4, <3>5, StrEffect
    <3>7. 35 \in Cells /\ (35 < cursor \/ 35 >= cursor + v[2])
      BY <1>3, <2>1, <3>1, <3>3
    <3>8. screen'[35] = Blank
      BY <1>4, <3>6, <3>7
    <3>9. \A a \in Cells : a < 12 * r + 3 => screen'[a] = screen[a]
      BY <2>1, <3>6
    <3>10. \A a \in Cells :
              a >= 12 * r + 3 /\ a < 12 * r + 3 + v[2] =>
                    screen'[a] = Cell(v, a - (12 * r + 3) + 1)
      BY <1>3, <2>1, <3>1, <3>6
    <3> QED BY <2>4, <3>8, <3>9, <3>10
  <2>5. Drawn
    BY <2>3, <2>4
  <2>6. ASSUME NEW k \in 1..3
        PROVE  screen'[12 * r + k - 1] = Cell(Label(r), k)
    <3> DEFINE a == 12 * r + k - 1
    <3>1. a \in Cells /\ a < 12 * r + 3
      BY <1>3
    <3> HIDE DEF a
    <3>2. screen'[a] = screen[a]
      BY <2>5, <3>1
    <3> QED BY <2>1, <3>2 DEF a
  <2>7. v[2] \in 1..9
    BY <1>2
  <2>8. ASSUME NEW k \in 1..9
        PROVE  /\ k <= v[2] => screen'[12 * r + 2 + k] = Cell(v, k)
               /\ Padded(d, r) /\ k > v[2] => screen'[12 * r + 2 + k] = Blank
    <3> DEFINE a == 12 * r + 2 + k
    <3>1. /\ a \in Cells /\ a >= 12 * r + 3 /\ a < 12 * r + 12
          /\ a - (12 * r + 3) + 1 = k
          /\ (a < 12 * r + 3 + v[2]) <=> (k <= v[2])
          /\ (a >= 12 * r + 3 + v[2]) <=> (k > v[2])
      BY <1>3, <2>7
    <3> HIDE DEF a, v
    <3>2. /\ k <= v[2] => screen'[a] = Cell(v, k)
          /\ Padded(d, r) /\ k > v[2] => screen'[a] = Blank
      BY <2>5, <3>1
    <3> QED BY <3>2 DEF a
  <2>9. RowDrawn(d, r, screen')
    BY <2>6, <2>8 DEF RowDrawn
  <2>10. \A q \in 0..4 : q < r => RowDrawn(d, q, screen')
    <3>1. \A a \in Cells : a < 12 * r => screen'[a] = screen[a]
      BY <1>3, <2>5
    <3> QED BY <1>5, <3>1
  <2>11. \A q \in 0..4 :
            /\ m + 1 # 3 * q + 1 /\ m + 1 # 3 * q + 2
            /\ m + 1 >= 3 * q + 3 => q < r \/ q = r
    BY <1>8
  <2>12. screen'[35] = Blank
    BY <2>5
  <2> QED BY <2>9, <2>10, <2>11, <2>12 DEF TrackingDrawn
<1> QED BY <1>1, <1>6, <1>7, <1>8

-----------------------------------------------------------------------------
(* What the display reads once a page is drawn                             *)

LEMMA RowOfCells ==
    ASSUME NEW r \in 0..5, NEW k \in 1..Columns
    PROVE  RowCells(r)[k] = screen[12 * r + k - 1] /\ 12 * r + k - 1 \in Cells
BY DEF RowCells, Columns, Rows, Cells

LEMMA HomeReads ==
    ASSUME NEW length \in CountLengths, HomeDrawn(length, 4, screen, cursor)
    PROVE  /\ Reads(0, CellsOf(Cream)) /\ Reads(1, CellsOf(WPs(length)))
           /\ \A r \in 2..Rows - 1 : Reads(r, <<>>)
<1>1. /\ Cream \in Texts /\ Cream[2] = 5
      /\ length \in 5..6 /\ WPs(length) \in Texts /\ WPs(length)[2] = length
  BY HomeTexts
<1>2. /\ Len(CellsOf(Cream)) = 5 /\ \A k \in 1..5 : CellsOf(Cream)[k] = Cell(Cream, k)
      /\ Len(CellsOf(WPs(length))) = length
      /\ \A k \in 1..length : CellsOf(WPs(length))[k] = Cell(WPs(length), k)
  BY <1>1, CellsOfText
<1>3. \A a \in Cells :
          screen[a] = IF a < 5 THEN Cell(Cream, a + 1)
                      ELSE IF a >= 12 /\ a < 12 + length THEN Cell(WPs(length), a - 12 + 1)
                      ELSE Blank
  BY DEF HomeDrawn
<1>4. Columns = 12 /\ Rows = 6
  BY DEF Columns, Rows
<1>5. Reads(0, CellsOf(Cream))
  <2> SUFFICES ASSUME NEW k \in 1..12
               PROVE  RowCells(0)[k] = IF k <= 5 THEN CellsOf(Cream)[k] ELSE Blank
    BY <1>2, <1>4 DEF Reads
  <2> DEFINE a == 12 * 0 + k - 1
  <2>1. RowCells(0)[k] = screen[a] /\ a \in Cells
    BY <1>4, RowOfCells
  <2>2. (a < 5 <=> k <= 5) /\ a + 1 = k /\ ~ (a >= 12)
    OBVIOUS
  <2> HIDE DEF a
  <2> QED BY <1>2, <1>3, <2>1, <2>2
<1>6. Reads(1, CellsOf(WPs(length)))
  <2> SUFFICES ASSUME NEW k \in 1..12
               PROVE  RowCells(1)[k] = IF k <= length THEN CellsOf(WPs(length))[k] ELSE Blank
    BY <1>2, <1>4 DEF Reads
  <2> DEFINE a == 12 * 1 + k - 1
  <2>1. RowCells(1)[k] = screen[a] /\ a \in Cells
    BY <1>4, RowOfCells
  <2>2. ~ (a < 5) /\ a >= 12 /\ (a < 12 + length <=> k <= length) /\ a - 12 + 1 = k
    BY <1>1
  <2>3. screen[a] = IF k <= length THEN Cell(WPs(length), k) ELSE Blank
    <3> HIDE DEF a
    <3> QED BY <1>3, <2>1, <2>2
  <2> HIDE DEF a
  <2> QED BY <1>2, <2>1, <2>3
<1>7. ASSUME NEW r \in 2..Rows - 1
      PROVE  Reads(r, <<>>)
  <2>1. r \in 2..5
    BY <1>4
  <2> SUFFICES ASSUME NEW k \in 1..12 PROVE RowCells(r)[k] = Blank
    BY <1>4 DEF Reads
  <2> DEFINE a == 12 * r + k - 1
  <2>2. RowCells(r)[k] = screen[a] /\ a \in Cells
    BY <1>4, <2>1, RowOfCells
  <2>3. ~ (a < 5) /\ ~ (a < 12 + length)
    BY <1>1, <2>1
  <2> HIDE DEF a
  <2> QED BY <1>3, <2>2, <2>3
<1> QED BY <1>5, <1>6, <1>7

LEMMA OneTextReads ==
    ASSUME NEW text \in Texts, OneTextDrawn(text, 2, screen, cursor)
    PROVE  ShowsOnly(text)
<1>1. text[2] \in 1..11
  BY DEF Texts
<1>2. Len(CellsOf(text)) = text[2] /\ \A k \in 1..text[2] : CellsOf(text)[k] = Cell(text, k)
  BY CellsOfText
<1>3. \A a \in Cells : screen[a] = IF a < text[2] THEN Cell(text, a + 1) ELSE Blank
  BY DEF OneTextDrawn
<1>4. Columns = 12 /\ Rows = 6
  BY DEF Columns, Rows
<1>5. Reads(0, CellsOf(text))
  <2> SUFFICES ASSUME NEW k \in 1..12
               PROVE  RowCells(0)[k] = IF k <= text[2] THEN CellsOf(text)[k] ELSE Blank
    BY <1>2, <1>4 DEF Reads
  <2> DEFINE a == 12 * 0 + k - 1
  <2>1. RowCells(0)[k] = screen[a] /\ a \in Cells
    BY <1>4, RowOfCells
  <2>2. (a < text[2] <=> k <= text[2]) /\ a + 1 = k
    BY <1>1
  <2> HIDE DEF a
  <2> QED BY <1>2, <1>3, <2>1, <2>2
<1>6. ASSUME NEW r \in 1..Rows - 1
      PROVE  Reads(r, <<>>)
  <2>1. r \in 1..5
    BY <1>4
  <2> SUFFICES ASSUME NEW k \in 1..12 PROVE RowCells(r)[k] = Blank
    BY <1>4 DEF Reads
  <2> DEFINE a == 12 * r + k - 1
  <2>2. RowCells(r)[k] = screen[a] /\ a \in Cells
    BY <1>4, <2>1, RowOfCells
  <2>3. ~ (a < text[2])
    BY <1>1, <2>1
  <2> HIDE DEF a
  <2> QED BY <1>3, <2>2, <2>3
<1> QED BY <1>5, <1>6 DEF ShowsOnly

LEMMA RowReads ==
    ASSUME NEW d \in Data, NEW r \in 0..4, RowDrawn(d, r, screen)
    PROVE  LET cells == CellsOf(Label(r)) \o CellsOf(Value(d, r))
           IN  /\ Begins(r, cells)
               /\ Padded(d, r) \/ (r = 2 /\ screen[35] = Blank /\ TimeLength(d.elapsed) = 8)
                     => Reads(r, cells)
<1> DEFINE label == CellsOf(Label(r))
           value == CellsOf(Value(d, r))
           cells == label \o value
           n == Value(d, r)[2]
<1>1. /\ Label(r) \in Texts /\ Label(r)[2] = 3
      /\ Value(d, r) \in Texts /\ n \in 1..9
  BY RowTexts
<1>2. /\ label \in Seq(CellType) /\ Len(label) = 3
      /\ \A k \in 1..3 : label[k] = Cell(Label(r), k)
  <2> HIDE DEF CellType
  <2> QED BY <1>1, CellsOfText
<1>3. /\ value \in Seq(CellType) /\ Len(value) = n
      /\ \A k \in 1..n : value[k] = Cell(Value(d, r), k)
  <2> HIDE DEF CellType
  <2> QED BY <1>1, CellsOfText
<1> HIDE DEF label, value, n, CellType
<1>4. /\ Len(cells) = 3 + n
      /\ \A k \in 1..3 + n : cells[k] = IF k <= 3 THEN label[k] ELSE value[k - 3]
  <2>1. /\ Len(cells) = Len(label) + Len(value)
        /\ \A k \in 1..Len(label) + Len(value) :
              cells[k] = IF k <= Len(label) THEN label[k] ELSE value[k - Len(label)]
    BY <1>2, <1>3, ConcatProperties
  <2> HIDE DEF cells
  <2> QED BY <1>2, <1>3, <2>1
<1> HIDE DEF cells
<1>5. Columns = 12 /\ \A k \in 1..12 : RowCells(r)[k] = screen[12 * r + k - 1]
  BY RowOfCells DEF Columns
<1>6. \A k \in 1..3 : screen[12 * r + k - 1] = Cell(Label(r), k)
  BY DEF RowDrawn
<1>7. \A k \in 1..9 :
          /\ k <= n => screen[12 * r + 2 + k] = Cell(Value(d, r), k)
          /\ Padded(d, r) /\ k > n => screen[12 * r + 2 + k] = Blank
  BY DEF RowDrawn, n
<1>8. ASSUME NEW k \in 1..3 + n
      PROVE  k \in 1..12 /\ RowCells(r)[k] = cells[k]
  <2>1. k \in 1..12
    BY <1>1
  <2>2. CASE k <= 3
    <3>1. k \in 1..3
      BY <2>1, <2>2
    <3>2. cells[k] = label[k] /\ label[k] = Cell(Label(r), k)
      BY <1>2, <1>4, <2>2, <3>1
    <3>3. RowCells(r)[k] = Cell(Label(r), k)
      BY <1>5, <1>6, <2>1, <3>1
    <3> QED BY <2>1, <3>2, <3>3
  <2>3. CASE ~ (k <= 3)
    <3> DEFINE i == k - 3
    <3>1. i \in 1..n /\ i \in 1..9 /\ i <= n /\ 12 * r + k - 1 = 12 * r + 2 + i
      BY <1>1, <2>1, <2>3
    <3>2. cells[k] = value[i]
      BY <1>4, <2>3
    <3> HIDE DEF i
    <3>3. screen[12 * r + 2 + i] = Cell(Value(d, r), i) /\ value[i] = Cell(Value(d, r), i)
      BY <1>3, <1>7, <3>1
    <3>4. RowCells(r)[k] = screen[12 * r + 2 + i]
      BY <1>5, <2>1, <3>1
    <3> QED BY <2>1, <3>2, <3>3, <3>4
  <2> QED BY <2>2, <2>3
<1>9. Begins(r, cells)
  BY <1>4, <1>8 DEF Begins
<1>10. ASSUME Padded(d, r) \/ (r = 2 /\ screen[35] = Blank /\ TimeLength(d.elapsed) = 8)
       PROVE  Reads(r, cells)
  <2>1. ASSUME NEW k \in 1..12, k > 3 + n
        PROVE  RowCells(r)[k] = Blank
    <3> DEFINE i == k - 3
    <3>1. i \in 1..9 /\ i > n /\ 12 * r + k - 1 = 12 * r + 2 + i
      BY <1>1, <2>1
    <3> HIDE DEF i
    <3>2. RowCells(r)[k] = screen[12 * r + 2 + i]
      BY <1>5, <3>1
    <3>3. CASE Padded(d, r)
      BY <1>7, <3>1, <3>2, <3>3
    <3>4. CASE r = 2 /\ screen[35] = Blank /\ TimeLength(d.elapsed) = 8
      <4>1. n = 8
        BY <3>4, ClockLength DEF n
      <4>2. 12 * r + 2 + i = 35
        BY <3>1, <3>4, <4>1
      <4> QED BY <3>2, <3>4, <4>2
    <3> QED BY <1>10, <3>3, <3>4
  <2>2. ASSUME NEW k \in 1..12
        PROVE  RowCells(r)[k] = IF k <= 3 + n THEN cells[k] ELSE Blank
    <3>1. k <= 3 + n => k \in 1..3 + n
      BY <1>1
    <3>2. ~ (k <= 3 + n) => k > 3 + n
      BY <1>1
    <3> QED BY <1>8, <2>1, <3>1, <3>2
  <2> QED BY <1>4, <1>5, <2>2 DEF Reads
<1> QED BY <1>9, <1>10 DEF cells, label, value

-----------------------------------------------------------------------------
(* The page on the display, drawn as far as it is written                  *)

HomeOnScreen(length) ==
    /\ Left(print_home(length))
    /\ HomeDrawn(length, Made(print_home(length)), screen, cursor)

TextOnScreen(text) ==
    /\ Left(OneText(text))
    /\ OneTextDrawn(text, Made(OneText(text)), screen, cursor)

(* The display is cleared for the first fix only.                          *)
Clears == {<<>>, <<lcd_clear_display>>}
Tracking(d, clear) == clear \o print_tracking_display(d)
TrackingOnScreen(d, clear) ==
    /\ Left(Tracking(d, clear))
    /\ TrackingDrawn(d, Made(Tracking(d, clear)) - Len(clear), screen, cursor)

PageOnScreen ==
    /\ page = "home" => \E length \in CountLengths : HomeOnScreen(length)
    /\ page = "pending" => TextOnScreen(Text("Pending Fix", 11))
    /\ page \in {"bluetooth", "leaving"} => TextOnScreen(Text("Bluetooth", 9))
    /\ page = "result" => \E success \in BOOLEAN : TextOnScreen(Result(success))
    /\ page = "tracking" => \E d \in Data, clear \in Clears :
                              d = data /\ TrackingOnScreen(d, clear)

(* The lines are looked at with two digits in each field of the clock, and *)
(* few bytes spill: the clock is so in the whole range of its int but for  *)
(* the negative times, and with more bytes the end of the row of the clock *)
(* would be written over.                                                  *)
Shown == (\A n \in Clocks : TimeLength(n) = 8) /\ Spills \subseteq 0..10

LEMMA TrackingParts ==
    ASSUME NEW d \in Data, NEW clear \in Clears
    PROVE  /\ Tracking(d, clear) \in Seq(Write) /\ Len(clear) \in 0..1
           /\ Len(Tracking(d, clear)) = Len(clear) + 15
           /\ Len(clear) = 1 => Tracking(d, clear)[1] = lcd_clear_display
           /\ \A k \in 1..15 :
                 Tracking(d, clear)[Len(clear) + k] = print_tracking_display(d)[k]
<1>1. print_tracking_display(d) \in Seq(Write)
  BY TrackingIsWrites
<1>2. Len(print_tracking_display(d)) = 15
  BY RowWrites
<1> DEFINE p == print_tracking_display(d)
<1> HIDE DEF p, Write
<1>3. clear \in Seq(Write) /\ Len(clear) \in 0..1 /\ (Len(clear) = 1 => clear[1] = lcd_clear_display)
  <2>1. lcd_clear_display \in Write
    BY Writes
  <2>2. CASE clear = <<>>
    BY <2>2
  <2>3. CASE clear = <<lcd_clear_display>>
    BY <2>1, <2>3
  <2> QED BY <2>2, <2>3 DEF Clears
<1>4. /\ clear \o p \in Seq(Write) /\ Len(clear \o p) = Len(clear) + Len(p)
      /\ \A i \in 1..Len(clear) + Len(p) :
            (clear \o p)[i] = IF i <= Len(clear) THEN clear[i] ELSE p[i - Len(clear)]
  BY <1>1, <1>3, ConcatProperties DEF p
<1>5. Len(p) = 15
  BY <1>2 DEF p
<1>6. Len(clear) = 1 => (clear \o p)[1] = lcd_clear_display
  BY <1>3, <1>4, <1>5
<1>7. ASSUME NEW k \in 1..15
      PROVE  (clear \o p)[Len(clear) + k] = p[k]
  <2>1. /\ Len(clear) + k \in 1..Len(clear) + Len(p)
        /\ ~ (Len(clear) + k <= Len(clear)) /\ Len(clear) + k - Len(clear) = k
    BY <1>3, <1>5
  <2> QED BY <1>4, <2>1
<1> QED BY <1>3, <1>4, <1>5, <1>6, <1>7 DEF Tracking, p

(* Each step of a write draws a little more of the page, or nothing.       *)
LEMMA HomeDraws ==
    ASSUME BusInv, NEW length \in CountLengths, HomeOnScreen(length),
           Begin \/ Enable \/ Transfer \/ End
    PROVE  HomeOnScreen(length)'
<1> DEFINE w == print_home(length)
<1>1. w \in Seq(Write) /\ Len(w) = 4
  BY HomeIsWrites
<1>2. Left(w) /\ HomeDrawn(length, Made(w), screen, cursor)
  BY DEF HomeOnScreen
<1> HIDE DEF w
<1>3. CASE Begin \/ Enable \/ End
  <2>1. Left(w)' /\ Made(w)' = Made(w)
    BY <1>1, <1>2, <1>3, SameMade
  <2>2. UNCHANGED <<screen, cursor>>
    BY <1>3 DEF Begin, Enable, End
  <2> QED BY <1>2, <2>1, <2>2 DEF HomeOnScreen, w
<1>4. CASE Transfer
  <2>1. /\ Left(w)' /\ Made(w) \in Nat /\ Made(w) + 1 \in 1..Len(w)
        /\ Made(w)' = Made(w) + 1 /\ Written(w[Made(w) + 1])
    BY <1>1, <1>2, <1>4, OneMoreMade
  <2>2. PICK m \in Nat : m = Made(w)
    BY <2>1
  <2>3. HomeDrawn(length, m + 1, screen', cursor')
    BY <1>1, <1>2, <2>1, <2>2, HomeGoesOn DEF w
  <2> QED BY <2>1, <2>2, <2>3 DEF HomeOnScreen, w
<1> QED BY <1>3, <1>4

LEMMA TextDraws ==
    ASSUME BusInv, NEW text \in Texts, TextOnScreen(text),
           Begin \/ Enable \/ Transfer \/ End
    PROVE  TextOnScreen(text)'
<1> DEFINE w == OneText(text)
<1>1. w \in Seq(Write) /\ Len(w) = 2
  BY OneTextIsWrites DEF OneText
<1>2. Left(w) /\ OneTextDrawn(text, Made(w), screen, cursor)
  BY DEF TextOnScreen
<1> HIDE DEF w
<1>3. CASE Begin \/ Enable \/ End
  <2>1. Left(w)' /\ Made(w)' = Made(w)
    BY <1>1, <1>2, <1>3, SameMade
  <2>2. UNCHANGED <<screen, cursor>>
    BY <1>3 DEF Begin, Enable, End
  <2> QED BY <1>2, <2>1, <2>2 DEF TextOnScreen, w
<1>4. CASE Transfer
  <2>1. /\ Left(w)' /\ Made(w) \in Nat /\ Made(w) + 1 \in 1..Len(w)
        /\ Made(w)' = Made(w) + 1 /\ Written(w[Made(w) + 1])
    BY <1>1, <1>2, <1>4, OneMoreMade
  <2>2. PICK m \in Nat : m = Made(w)
    BY <2>1
  <2>3. OneTextDrawn(text, m + 1, screen', cursor')
    BY <1>1, <1>2, <2>1, <2>2, OneTextGoesOn DEF w
  <2> QED BY <2>1, <2>2, <2>3 DEF TextOnScreen, w
<1> QED BY <1>3, <1>4

LEMMA TrackingDraws ==
    ASSUME Shown, BusInv, NEW d \in Data, NEW clear \in Clears, TrackingOnScreen(d, clear),
           Begin \/ Enable \/ Transfer \/ End
    PROVE  TrackingOnScreen(d, clear)'
<1> DEFINE w == Tracking(d, clear)
           n == Len(clear)
<1>1. /\ w \in Seq(Write) /\ n \in 0..1 /\ Len(w) = n + 15
      /\ n = 1 => w[1] = lcd_clear_display
      /\ \A k \in 1..15 : w[n + k] = print_tracking_display(d)[k]
  BY TrackingParts
<1>2. Left(w) /\ TrackingDrawn(d, Made(w) - n, screen, cursor)
  BY DEF TrackingOnScreen
<1> HIDE DEF w, n
<1>3. CASE Begin \/ Enable \/ End
  <2>1. Left(w)' /\ Made(w)' = Made(w)
    BY <1>1, <1>2, <1>3, SameMade
  <2>2. UNCHANGED <<screen, cursor>>
    BY <1>3 DEF Begin, Enable, End
  <2> QED BY <1>2, <2>1, <2>2 DEF TrackingOnScreen, w, n
<1>4. CASE Transfer
  <2>1. /\ Left(w)' /\ Made(w) \in Nat /\ Made(w) + 1 \in 1..Len(w)
        /\ Made(w)' = Made(w) + 1 /\ Written(w[Made(w) + 1])
    BY <1>1, <1>2, <1>4, OneMoreMade
  <2>2. PICK m \in -1..14 : m = Made(w) - n
    <3>1. n \in 0..1 /\ Made(w) \in Nat /\ Made(w) + 1 \in 1..n + 15
      BY <1>1, <2>1
    <3>2. Made(w) - n \in -1..14
      BY <3>1
    <3> QED BY <3>2
  <2>3. TrackingDrawn(d, m + 1, screen', cursor')
    <3>1. CASE m = -1
      <4>0. n \in 0..1 /\ Made(w) \in Nat /\ Made(w) - n = -1
        BY <1>1, <2>1, <2>2, <3>1
      <4>1. n = 1 /\ Made(w) + 1 = 1
        BY <4>0
      <4>5. Written(lcd_clear_display)
        BY <1>1, <2>1, <4>1
      <4>2. 35 \in Cells
        BY DEF Cells, Rows, Columns
      <4>3. screen'[35] = Blank
        BY <4>2, <4>5, ClearEffect
      <4>4. \A r \in 0..4 : 0 # 3 * r + 1 /\ 0 # 3 * r + 2 /\ ~ (0 >= 3 * r + 3)
        OBVIOUS
      <4> QED BY <3>1, <4>3, <4>4 DEF TrackingDrawn
    <3>2. CASE m # -1
      <4>1. m \in 0..14 /\ m + 1 \in 1..15 /\ Made(w) + 1 = n + (m + 1)
        <5>1. n \in 0..1 /\ Made(w) \in Nat /\ m = Made(w) - n
          BY <1>1, <2>1, <2>2
        <5> QED BY <3>2, <5>1
      <4>2. w[n + (m + 1)] = print_tracking_display(d)[m + 1]
        BY <1>1, <4>1
      <4>3. Written(print_tracking_display(d)[m + 1])
        BY <2>1, <4>1, <4>2
      <4>4. d.elapsed \in Clocks
        BY DEF Data
      <4>5. TimeLength(d.elapsed) = 8 /\ spill \in 0..10
        BY <4>4 DEF Shown, BusInv, TypeOK
      <4> QED BY <1>2, <2>2, <4>1, <4>3, <4>5, TrackingGoesOn
    <3> QED BY <3>1, <3>2
  <2>4. Made(w)' - n = m + 1
    <3>1. n \in 0..1 /\ Made(w) \in Nat /\ Made(w)' = Made(w) + 1
      BY <1>1, <2>1
    <3> QED BY <2>2, <3>1
  <2> QED BY <2>1, <2>3, <2>4 DEF TrackingOnScreen, w, n
<1> QED BY <1>3, <1>4

PageInv == BusInv /\ PageOnScreen

(* A page of which nothing is written is on the screen as far as it goes.  *)
LEMMA HomeBegins ==
    ASSUME BusInv, NEW next, Home(next), UNCHANGED step
    PROVE  \E length \in CountLengths : HomeOnScreen(length)'
<1>1. PICK length \in CountLengths : Shows(next, print_home(length))
  BY DEF Home
<1>2. Left(print_home(length))' /\ Made(print_home(length))' = 0
  BY <1>1, HomeIsWrites, NothingMade
<1>3. HomeDrawn(length, 0, screen', cursor')
  BY DEF HomeDrawn
<1>4. HomeOnScreen(length)'
  BY <1>2, <1>3 DEF HomeOnScreen
<1> QED BY <1>4

LEMMA TextBegins ==
    ASSUME BusInv, NEW next, NEW text \in Texts,
           Shows(next, <<lcd_clear_display, PrintStr(text)>>), UNCHANGED step
    PROVE  TextOnScreen(text)'
<1>1. Left(OneText(text))' /\ Made(OneText(text))' = 0
  BY OneTextIsWrites, NothingMade DEF OneText
<1>2. OneTextDrawn(text, 0, screen', cursor')
  BY DEF OneTextDrawn
<1> QED BY <1>1, <1>2 DEF TextOnScreen

(* Once the page has been cleared, the cell after the clock stays blank,   *)
(* and so the next line may be written without clearing it again.          *)
LEMMA TrackingBegins ==
    ASSUME PageInv, NEW next, NEW d \in Data, NEW clear \in Clears,
           clear = <<>> => page = "tracking",
           Shows(next, Tracking(d, clear)), UNCHANGED <<step, screen, cursor>>
    PROVE  TrackingOnScreen(d, clear)'
<1>1. Tracking(d, clear) \in Seq(Write) /\ Len(clear) \in 0..1
  BY TrackingParts
<1>2. Left(Tracking(d, clear))' /\ Made(Tracking(d, clear))' = 0
  BY <1>1, NothingMade DEF PageInv
<1>3. TrackingDrawn(d, 0 - Len(clear), screen', cursor')
  <2>1. \A n \in 0..1, r \in 0..4 :
            0 - n # 3 * r + 1 /\ 0 - n # 3 * r + 2 /\ ~ (0 - n >= 3 * r + 3)
    OBVIOUS
  <2>2. Len(clear) = 1 => ~ (0 - Len(clear) >= 0)
    OBVIOUS
  <2>3. Len(clear) = 0 => screen'[35] = Blank
    <3> SUFFICES ASSUME Len(clear) = 0 PROVE screen[35] = Blank
      OBVIOUS
    <3>1. clear = <<>>
      BY DEF Clears
    <3>2. PICK e \in Data, before \in Clears : TrackingOnScreen(e, before)
      BY <3>1 DEF PageInv, PageOnScreen
    <3>3. /\ Tracking(e, before) \in Seq(Write) /\ Len(before) \in 0..1
          /\ Len(Tracking(e, before)) = Len(before) + 15
      BY TrackingParts
    <3>4. Made(Tracking(e, before)) = Len(Tracking(e, before))
      BY <3>3, AllMade DEF PageInv, Shows
    <3>5. Made(Tracking(e, before)) - Len(before) = 15
      BY <3>3, <3>4
    <3>6. TrackingDrawn(e, 15, screen, cursor)
      BY <3>2, <3>5 DEF TrackingOnScreen
    <3> QED BY <3>6 DEF TrackingDrawn
  <2> QED BY <1>1, <2>1, <2>2, <2>3 DEF TrackingDrawn
<1> QED BY <1>2, <1>3 DEF TrackingOnScreen

LEMMA PageInit == Init => PageInv
<1> SUFFICES ASSUME Init PROVE PageInv
  OBVIOUS
<1>1. BusInv
  BY BusInit
<1>2. PICK length \in CountLengths : todo = print_home(length)
  BY DEF Init
<1>3. Left(print_home(length)) /\ Made(print_home(length)) = 0
  BY <1>2, HomeIsWrites DEF Init, Left, Made
<1>4. HomeOnScreen(length)
  BY <1>3 DEF HomeOnScreen, HomeDrawn
<1>5. page = "home"
  BY DEF Init
<1> QED BY <1>1, <1>4, <1>5 DEF PageInv, PageOnScreen

(* Nothing but the program's own writes touches the display while it has   *)
(* something to write.                                                     *)
LEMMA ScreenStays ==
    ASSUME PageInv, UNCHANGED <<data, todo, step, screen, cursor>>,
           page' = page \/ (page = "bluetooth" /\ page' = "leaving")
    PROVE  PageOnScreen'
<1>1. \A w : Left(w)' = Left(w) /\ Made(w)' = Made(w)
  BY DEF Left, Made
<1>2. \A length : HomeOnScreen(length)' <=> HomeOnScreen(length)
  BY <1>1 DEF HomeOnScreen
<1>3. \A text : TextOnScreen(text)' <=> TextOnScreen(text)
  BY <1>1 DEF TextOnScreen
<1>4. \A d, clear : TrackingOnScreen(d, clear)' <=> TrackingOnScreen(d, clear)
  BY <1>1 DEF TrackingOnScreen
<1> QED BY <1>2, <1>3, <1>4 DEF PageInv, PageOnScreen

LEMMA PageWrite ==
    ASSUME Shown, PageInv, Begin \/ Enable \/ Transfer \/ End
    PROVE  PageOnScreen'
<1>1. BusInv /\ PageOnScreen
  BY DEF PageInv
<1>2. UNCHANGED <<page, data>>
  BY DEF Begin, Enable, Transfer, End
<1>3. ASSUME page = "home"
      PROVE  \E length \in CountLengths : HomeOnScreen(length)'
  BY <1>1, <1>3, HomeDraws DEF PageOnScreen
<1>4. ASSUME page = "pending"
      PROVE  TextOnScreen(Text("Pending Fix", 11))'
  BY <1>1, <1>4, TextDraws, MessageTexts DEF PageOnScreen
<1>5. ASSUME page \in {"bluetooth", "leaving"}
      PROVE  TextOnScreen(Text("Bluetooth", 9))'
  BY <1>1, <1>5, TextDraws, MessageTexts DEF PageOnScreen
<1>6. ASSUME page = "result"
      PROVE  \E success \in BOOLEAN : TextOnScreen(Result(success))'
  <2>1. PICK success \in BOOLEAN : TextOnScreen(Result(success))
    BY <1>1, <1>6 DEF PageOnScreen
  <2>2. TextOnScreen(Result(success))'
    BY <1>1, <2>1, TextDraws, MessageTexts
  <2> QED BY <2>2
<1>7. ASSUME page = "tracking"
      PROVE  \E d \in Data, clear \in Clears : d = data /\ TrackingOnScreen(d, clear)'
  <2>1. PICK d \in Data, clear \in Clears : d = data /\ TrackingOnScreen(d, clear)
    BY <1>1, <1>7 DEF PageOnScreen
  <2>2. TrackingOnScreen(d, clear)'
    BY <1>1, <2>1, TrackingDraws
  <2> QED BY <2>1, <2>2
<1> QED BY <1>2, <1>3, <1>4, <1>5, <1>6, <1>7 DEF PageOnScreen

LEMMA PageNext == Shown /\ PageInv /\ [Next]_vars => PageInv'
<1> SUFFICES ASSUME Shown, PageInv, [Next]_vars PROVE PageInv'
  OBVIOUS
<1>1. TypeOK /\ BusInv /\ BusIsOurs
  BY DEF PageInv, BusInv
<1>2. BusInv'
  BY <1>1, BusNext
<1> SUFFICES PageOnScreen'
  BY <1>2 DEF PageInv
<1>3. CASE UNCHANGED vars
  BY <1>3, ScreenStays DEF vars, bus
<1>4. CASE Begin \/ Enable \/ Transfer \/ End
  BY <1>4, PageWrite
<1>5. CASE Isr
  <2>1. step = "begin" /\ UNCHANGED <<page, data, todo, step, screen, cursor>>
    BY <1>1, <1>5 DEF Isr, BusIsOurs
  <2> QED BY <2>1, ScreenStays
<1>6. CASE StartTracking
  <2>1. TextOnScreen(Text("Pending Fix", 11))' /\ page' = "pending"
    BY <1>1, <1>6, TextBegins, MessageTexts DEF StartTracking, Shows
  <2> QED BY <2>1 DEF PageOnScreen
<1>7. CASE Fix
  <2>1. PICK d \in Data : d = data'
    BY <1>7 DEF Fix
  <2>2. PICK clear \in Clears :
            clear = IF page = "pending" THEN <<lcd_clear_display>> ELSE <<>>
    BY DEF Clears
  <2>3. Shows("tracking", Tracking(d, clear)) /\ page \in {"pending", "tracking"}
    BY <1>7, <2>1, <2>2 DEF Fix, Tracking
  <2>4. clear = <<>> => page = "tracking"
    BY <2>2, <2>3
  <2>5. TrackingOnScreen(d, clear)'
    BY <1>7, <2>3, <2>4, TrackingBegins DEF Fix
  <2>6. page' = "tracking"
    BY <2>3 DEF Shows
  <2> QED BY <2>1, <2>5, <2>6 DEF PageOnScreen
<1>8. CASE LineWithoutFix
  <2>1. data' \in Data
    BY <1>2 DEF BusInv, TypeOK
  <2>2. PICK d \in Data : d = data'
    BY <2>1
  <2>3. Shows("tracking", print_tracking_display(d)) /\ page = "tracking"
    BY <1>8, <2>2 DEF LineWithoutFix
  <2>4. <<>> \in Clears /\ Tracking(d, <<>>) = print_tracking_display(d)
    <3>1. print_tracking_display(d) \in Seq(Write)
      BY TrackingIsWrites
    <3> HIDE DEF Write
    <3> QED BY <3>1, ConcatEmptySeq DEF Tracking, Clears
  <2>5. TrackingOnScreen(d, <<>>)'
    BY <1>8, <2>3, <2>4, TrackingBegins DEF LineWithoutFix
  <2>6. page' = "tracking"
    BY <2>3 DEF Shows
  <2> QED BY <2>2, <2>4, <2>5, <2>6 DEF PageOnScreen
<1>9. ASSUME Home("home"), UNCHANGED step
      PROVE  PageOnScreen'
  <2>1. page' = "home"
    BY <1>9 DEF Home, Shows
  <2>2. \E length \in CountLengths : HomeOnScreen(length)'
    BY <1>1, <1>9, HomeBegins
  <2> QED BY <2>1, <2>2 DEF PageOnScreen
<1>10. CASE StopTracking
  BY <1>9, <1>10 DEF StopTracking
<1>11. CASE StartBluetooth
  <2>1. TextOnScreen(Text("Bluetooth", 9))' /\ page' = "bluetooth"
    BY <1>1, <1>11, TextBegins, MessageTexts DEF StartBluetooth, Shows
  <2> QED BY <2>1 DEF PageOnScreen
<1>12. CASE Advertise
  BY <1>12, ScreenStays DEF Advertise, bus
<1>13. CASE Sleep
  BY <1>13, ScreenStays DEF Sleep, bus
<1>14. CASE Dismiss
  BY <1>9, <1>14 DEF Dismiss
<1>15. ASSUME NEW success \in BOOLEAN, ShowResult(success)
       PROVE  PageOnScreen'
  <2>1. TextOnScreen(Result(success))' /\ page' = "result"
    BY <1>1, <1>15, TextBegins, MessageTexts DEF ShowResult, Shows
  <2> QED BY <2>1 DEF PageOnScreen
<1> QED
  BY <1>3, <1>4, <1>5, <1>6, <1>7, <1>8, <1>10, <1>11, <1>12, <1>13, <1>14, <1>15 DEF Next

LEMMA TrackingReads ==
    ASSUME Shown, NEW d \in Data, d = data, TrackingDrawn(d, 15, screen, cursor)
    PROVE  TrackingIsShown
<1>1. screen[35] = Blank /\ \A r \in 0..4 : RowDrawn(d, r, screen)
  BY DEF TrackingDrawn
<1>2. TimeLength(d.elapsed) = 8
  BY DEF Shown, Data
<1>3. ASSUME NEW r \in {0, 1, 3}
      PROVE  Reads(r, CellsOf(Label(r)) \o CellsOf(Value(d, r)))
  <2>1. r \in 0..4 /\ Padded(d, r)
    BY DEF Padded
  <2> QED BY <1>1, <2>1, RowReads
<1>4. Reads(2, CellsOf(Label(2)) \o CellsOf(Value(d, 2)))
  BY <1>1, <1>2, RowReads
<1>5. /\ Begins(4, CellsOf(Label(4)) \o CellsOf(Value(d, 4)))
      /\ ~ d.done => Reads(4, CellsOf(Label(4)) \o CellsOf(Value(d, 4)))
  BY <1>1, RowReads DEF Padded
<1>6. Label(0) = SP /\ Label(1) = AV /\ Label(2) = TE /\ Label(3) = DI /\ Label(4) = WP
  BY DEF Label
<1>7. /\ Value(d, 0) = Text("speed", d.speed) /\ Value(d, 1) = Text("average", d.average)
      /\ Value(d, 2) = Text("time", TimeLength(d.elapsed)) /\ Value(d, 3) = Text("total", d.total)
      /\ Value(d, 4) = IF d.done THEN Done ELSE Text("waypoint", d.waypoint)
  BY DEF Value
<1>8. /\ Reads(0, CellsOf(SP) \o CellsOf(Text("speed", d.speed)))
      /\ Reads(1, CellsOf(AV) \o CellsOf(Text("average", d.average)))
      /\ Reads(3, CellsOf(DI) \o CellsOf(Text("total", d.total)))
  BY <1>3, <1>6, <1>7
<1>9. Reads(2, CellsOf(TE) \o CellsOf(Text("time", TimeLength(d.elapsed))))
  BY <1>4, <1>6, <1>7
<1>10. IF d.done THEN Begins(4, CellsOf(WP) \o CellsOf(Done))
                 ELSE Reads(4, CellsOf(WP) \o CellsOf(Text("waypoint", d.waypoint)))
  BY <1>5, <1>6, <1>7
<1> QED BY <1>8, <1>9, <1>10 DEF TrackingIsShown

LEMMA PageReads == Shown /\ PageInv => PageIsShown
<1> SUFFICES ASSUME Shown, PageInv, todo = <<>> PROVE PageIsShown
  BY DEF PageIsShown
<1>1. BusInv /\ PageOnScreen /\ page \in {"home", "pending", "tracking", "bluetooth", "leaving", "result"}
  BY DEF PageInv, BusInv, TypeOK
<1>2. ASSUME NEW text \in Texts, TextOnScreen(text)
      PROVE  ShowsOnly(text)
  <2>1. OneText(text) \in Seq(Write) /\ Len(OneText(text)) = 2
    BY OneTextIsWrites DEF OneText
  <2>2. OneTextDrawn(text, 2, screen, cursor)
    BY <1>1, <1>2, <2>1, AllMade DEF TextOnScreen
  <2> QED BY <2>2, OneTextReads
<1>3. CASE page = "home"
  <2>1. PICK length \in CountLengths : HomeOnScreen(length)
    BY <1>1, <1>3 DEF PageOnScreen
  <2>2. HomeDrawn(length, 4, screen, cursor)
    BY <1>1, <2>1, HomeIsWrites, AllMade DEF HomeOnScreen
  <2>3. /\ Reads(0, CellsOf(Cream)) /\ Reads(1, CellsOf(WPs(length)))
        /\ \A r \in 2..Rows - 1 : Reads(r, <<>>)
    BY <2>2, HomeReads
  <2> QED BY <1>3, <2>3 DEF PageIsShown, Cream
<1>4. CASE page = "pending"
  BY <1>1, <1>2, <1>4, MessageTexts DEF PageOnScreen, PageIsShown
<1>5. CASE page \in {"bluetooth", "leaving"}
  BY <1>1, <1>2, <1>5, MessageTexts DEF PageOnScreen, PageIsShown
<1>6. CASE page = "result"
  BY <1>1, <1>2, <1>6, MessageTexts DEF PageOnScreen, PageIsShown
<1>7. CASE page = "tracking"
  <2>1. PICK d \in Data, clear \in Clears : d = data /\ TrackingOnScreen(d, clear)
    BY <1>1, <1>7 DEF PageOnScreen
  <2>2. /\ Tracking(d, clear) \in Seq(Write) /\ Len(clear) \in 0..1
        /\ Len(Tracking(d, clear)) = Len(clear) + 15
    BY TrackingParts
  <2>3. Made(Tracking(d, clear)) = Len(Tracking(d, clear))
    BY <1>1, <2>2, AllMade
  <2>4. Made(Tracking(d, clear)) - Len(clear) = 15
    BY <2>2, <2>3
  <2>5. TrackingDrawn(d, 15, screen, cursor)
    BY <2>1, <2>4 DEF TrackingOnScreen
  <2>6. TrackingIsShown
    BY <2>1, <2>5, TrackingReads
  <2> QED BY <1>7, <2>6 DEF PageIsShown
<1> QED BY <1>1, <1>3, <1>4, <1>5, <1>6, <1>7

(* Once a page is written the display shows this page and nothing else,    *)
(* for all lengths of the numbers on it: print_tracking_display writes over*)
(* the page before it without clearing it, lcd_print_float writes past the *)
(* end of its buffer, and the radio's interrupt shares the bus.            *)
THEOREM PagesAreShown ==
    ASSUME \A n \in Clocks : TimeLength(n) = 8,
           Spills \subseteq 0..10
    PROVE  Spec => []PageIsShown
<1>1. Shown
  BY DEF Shown
<1>2. Init => PageInv
  BY PageInit
<1>3. PageInv /\ [Next]_vars => PageInv'
  BY <1>1, PageNext
<1>4. PageInv => PageIsShown
  BY <1>1, PageReads
<1> QED BY <1>2, <1>3, <1>4, PTL DEF Spec

=============================================================================
