-------------------------- MODULE GpsReceiverProofs --------------------------
(***************************************************************************)
(* That no line from the GPS is used twice, proved for every size of the   *)
(* serial buffer and of the line buffer, and any number of lines, however  *)
(* long the program is busy and whatever is dropped meanwhile.             *)
(*                                                                         *)
(* The line buffer is never cleared, and gps_valid looks beyond the end of *)
(* the string: the line last used may still be in it, all but its start.   *)
(* Inv says why that is not enough to use it again. Characters come in the *)
(* order in which they were sent, so that what is read after a line has    *)
(* been used is of a later one; and either the string is too short to have *)
(* its flag looked at, or the field that the checksum begins with is new.  *)
(*                                                                         *)
(* And that the position of every line is read as it was sent. The lemmas  *)
(* go from digits to numbers, from numbers to the parts of a sentence that *)
(* they are written in, and from these to the fixed places where gps_parse *)
(* takes its characters. Numbers are read by a recursive function; for the *)
(* few characters that the code ever takes, its solution is constructed.   *)
(***************************************************************************)
EXTENDS GpsReceiver, SequenceTheorems, TLAPS

(* When a character is sent.                                               *)
At(c) == 6 * (c.line - 1) + c.part - 1

(* The serial buffer is in order, and after what the line buffer holds.    *)
InOrder ==
    /\ \A i \in 1..Len(serial) : At(serial[i]) < sent
    /\ \A i, j \in 1..Len(serial) : i < j => At(serial[i]) < At(serial[j])
    /\ \A k \in 0..NmeaSize : nmea[k] # Nul =>
          /\ At(nmea[k]) < sent
          /\ \A i \in 1..Len(serial) : At(nmea[k]) < At(serial[i])

(* A line is used when it has ended, and no character of the next is read. *)
AtEnd == pc \in {"newline", "line"} => index = 0

(* When the checksum of the line last used was sent.                       *)
Used == 6 * (reported[Len(reported)] - 1) + Star - 1

(* No character of the line last used is read any more, and what is in the *)
(* buffer at the end of a line is not that line.                           *)
UsedUp ==
    reported # <<>> =>
        /\ sent > Used
        /\ \A i \in 1..Len(serial) : At(serial[i]) > Used
        /\ index >= 2 => nmea[1] # Nul /\ At(nmea[1]) > Used
        /\ pc \in {"newline", "line"} =>
              nmea[0] = Nul \/ nmea[1] = Nul \/ At(nmea[1]) > Used

Inv == TypeOK /\ InOrder /\ AtEnd /\ UsedUp /\ OncePerLine

LEMMA CharAt == ASSUME NEW c \in Char PROVE At(c) \in Nat
BY ReceiverAssumption DEF At, Char, Line, Part

LEMMA UsedAt == TypeOK /\ reported # <<>> => Used \in Int
<1> SUFFICES ASSUME TypeOK, reported # <<>> PROVE Used \in Int
  OBVIOUS
<1>1. reported[Len(reported)] \in Line
  BY DEF TypeOK
<1> QED
  BY <1>1, ReceiverAssumption DEF Used, Line, Star

LEMMA NextCharAt ==
    ASSUME TypeOK, sent < 6 * MaxLines
    PROVE  NextChar \in Char /\ At(NextChar) = sent
BY ReceiverAssumption DEF TypeOK, NextChar, At, Char, Line, Part

LEMMA InitInv == Init => Inv
<1> SUFFICES ASSUME Init PROVE Inv
  OBVIOUS
<1>1. TypeOK
  BY ReceiverAssumption DEF Init, TypeOK
<1> QED
  BY <1>1, ReceiverAssumption DEF Init, Inv, InOrder, AtEnd, UsedUp, OncePerLine

(* A character that is not dropped is behind all the others.               *)
LEMMA SendInv == Inv /\ Send => Inv'
<1> SUFFICES ASSUME Inv, Send PROVE Inv'
  OBVIOUS
<1> USE ReceiverAssumption
<1>1. NextChar \in Char /\ At(NextChar) = sent /\ sent \in Nat /\ sent' = sent + 1
  BY NextCharAt DEF Inv, TypeOK, Send
<1>2. UNCHANGED <<nmea, index, pc, reported>>
  BY DEF Send
<1>3. serial \in Seq(Char) /\ \A i \in 1..Len(serial) : At(serial[i]) \in Nat
  BY CharAt DEF Inv, TypeOK
<1>4. \A k \in 0..NmeaSize : nmea[k] # Nul => At(nmea[k]) \in Nat
  BY CharAt DEF Inv, TypeOK
<1>5. CASE Len(serial) < SerialSize
  <2>1. serial' = Append(serial, NextChar) /\ dropped' = dropped
    BY <1>5 DEF Send
  <2>2. /\ serial' \in Seq(Char) /\ Len(serial') = Len(serial) + 1
        /\ serial'[Len(serial) + 1] = NextChar
        /\ \A i \in 1..Len(serial) : serial'[i] = serial[i]
    BY <1>1, <1>3, <2>1
  <2> HIDE DEF NextChar
  <2>3. TypeOK'
    <3>1. sent' \in 0..6 * MaxLines /\ Len(serial') <= SerialSize
      BY <1>1, <1>3, <1>5, <2>2 DEF Inv, TypeOK, Send
    <3> QED
      BY <1>2, <2>1, <2>2, <3>1, Zenon DEF Inv, TypeOK
  <2>4. InOrder'
    <3>1. \A i \in 1..Len(serial) : At(serial[i]) < sent
      BY DEF Inv, InOrder
    <3>2. \A i \in 1..Len(serial') : i \in 1..Len(serial) \/ serial'[i] = NextChar
      BY <1>3, <2>2
    <3>3. \A i \in 1..Len(serial') : At(serial'[i]) < sent'
      BY <1>1, <1>3, <2>2, <3>1, <3>2
    <3>4. ASSUME NEW i \in 1..Len(serial'), NEW j \in 1..Len(serial'), i < j
          PROVE  At(serial'[i]) < At(serial'[j])
      <4>1. i \in 1..Len(serial)
        BY <1>3, <2>2, <3>4
      <4>2. CASE j \in 1..Len(serial)
        BY <2>2, <3>4, <4>1, <4>2 DEF Inv, InOrder
      <4>3. CASE serial'[j] = NextChar
        BY <1>1, <2>2, <3>1, <4>1, <4>3
      <4> QED
        BY <3>2, <4>2, <4>3
    <3>5. ASSUME NEW k \in 0..NmeaSize, nmea[k] # Nul
          PROVE  /\ At(nmea[k]) < sent'
                 /\ \A i \in 1..Len(serial') : At(nmea[k]) < At(serial'[i])
      BY <1>1, <1>4, <2>2, <3>2, <3>5 DEF Inv, InOrder
    <3> QED
      BY <1>2, <3>3, <3>4, <3>5 DEF InOrder
  <2>5. UsedUp'
    <3>1. SUFFICES ASSUME reported # <<>>
                   PROVE  /\ sent' > Used
                          /\ \A i \in 1..Len(serial') : At(serial'[i]) > Used
                          /\ index >= 2 => nmea[1] # Nul /\ At(nmea[1]) > Used
                          /\ pc \in {"newline", "line"} =>
                                nmea[0] = Nul \/ nmea[1] = Nul \/ At(nmea[1]) > Used
      BY <1>2, Zenon DEF UsedUp, Used
    <3>2. Used \in Int
      BY <3>1, UsedAt DEF Inv
    <3>3. \A i \in 1..Len(serial') : i \in 1..Len(serial) \/ serial'[i] = NextChar
      BY <1>3, <2>2
    <3> QED
      BY <1>1, <2>2, <3>1, <3>2, <3>3 DEF Inv, UsedUp
  <2> QED
    BY <1>2, <2>3, <2>4, <2>5 DEF Inv, AtEnd, OncePerLine
<1>6. CASE ~ (Len(serial) < SerialSize)
  <2>1. serial' = serial /\ dropped' = dropped \cup {NextChar.line}
    BY <1>6 DEF Send
  <2>2. TypeOK'
    <3>1. sent' \in 0..6 * MaxLines
      BY <1>1 DEF Inv, TypeOK, Send
    <3>2. NextChar.line \in Line
      BY <1>1 DEF Char
    <3> QED
      BY <1>2, <2>1, <3>1, <3>2, Zenon DEF Inv, TypeOK
  <2>3. InOrder'
    BY <1>1, <1>2, <1>3, <1>4, <2>1 DEF Inv, InOrder
  <2>4. UsedUp'
    <3>1. SUFFICES ASSUME reported # <<>> PROVE sent' > Used
      BY <1>2, <2>1, Zenon DEF Inv, UsedUp, Used
    <3> QED
      BY <1>1, <3>1, UsedAt DEF Inv, UsedUp
  <2> QED
    BY <1>2, <2>2, <2>3, <2>4 DEF Inv, AtEnd, OncePerLine
<1> QED
  BY <1>5, <1>6

(* What is read is the oldest character, which is before all the others.   *)
LEMMA ReadOne ==
    ASSUME Inv, serial # <<>>, serial' = Tail(serial)
    PROVE  /\ Head(serial) = serial[1] /\ Head(serial) \in Char
           /\ serial' \in Seq(Char) /\ Len(serial') = Len(serial) - 1
           /\ \A i \in 1..Len(serial') :
                 serial'[i] = serial[i + 1] /\ i + 1 \in 1..Len(serial)
           /\ At(Head(serial)) < sent
           /\ \A i \in 1..Len(serial') : At(Head(serial)) < At(serial'[i])
<1>1. serial \in Seq(Char)
  BY DEF Inv, TypeOK
<1>2. /\ Head(serial) = serial[1] /\ Head(serial) \in Char /\ 1 \in 1..Len(serial)
      /\ serial' \in Seq(Char) /\ Len(serial') = Len(serial) - 1
      /\ \A i \in 1..Len(serial') :
            serial'[i] = serial[i + 1] /\ i + 1 \in 1..Len(serial) /\ 1 < i + 1
  BY <1>1
<1> QED
  BY <1>2 DEF Inv, InOrder

LEMMA ReadInOrder ==
    ASSUME Inv, serial # <<>>, serial' = Tail(serial), sent' = sent,
           \A k \in 0..NmeaSize : nmea'[k] \in {nmea[k], Nul, Head(serial)}
    PROVE  InOrder'
<1>1. \A i \in 1..Len(serial') : At(serial'[i]) < sent'
  BY ReadOne DEF Inv, InOrder
<1>2. \A i, j \in 1..Len(serial') : i < j => At(serial'[i]) < At(serial'[j])
  BY ReadOne DEF Inv, InOrder
<1>3. ASSUME NEW k \in 0..NmeaSize, nmea'[k] # Nul
      PROVE  /\ At(nmea'[k]) < sent'
             /\ \A i \in 1..Len(serial') : At(nmea'[k]) < At(serial'[i])
  BY <1>3, ReadOne DEF Inv, InOrder
<1> QED
  BY <1>1, <1>2, <1>3 DEF InOrder

(* A string that is short ends within the first field.                     *)
LEMMA ReadNewLineInv == Inv /\ ReadNewLine => Inv'
<1> SUFFICES ASSUME Inv, ReadNewLine PROVE Inv'
  OBVIOUS
<1> USE ReceiverAssumption
<1>1. /\ serial # <<>> /\ serial' = Tail(serial) /\ UNCHANGED <<sent, dropped, reported>>
      /\ nmea' = [nmea EXCEPT ![index] = Nul] /\ index' = 0 /\ pc' = "newline"
  BY DEF ReadNewLine
<1>2. nmea \in [0..NmeaSize -> Char \cup {Nul}] /\ index \in 0..NmeaSize /\ Star = 4
  BY DEF Inv, TypeOK, Star
<1>3. TypeOK'
  <2>1. nmea' \in [0..NmeaSize -> Char \cup {Nul}] /\ index' \in 0..NmeaSize
    BY <1>1, <1>2
  <2>2. serial' \in Seq(Char) /\ Len(serial') <= SerialSize
    BY <1>1, ReadOne DEF Inv, TypeOK
  <2> QED
    BY <1>1, <2>1, <2>2, Zenon DEF Inv, TypeOK
<1>4. InOrder'
  BY <1>1, <1>2, ReadInOrder
<1>5. UsedUp'
  <2>1. SUFFICES ASSUME reported # <<>>
                 PROVE  /\ \A i \in 1..Len(serial') : At(serial'[i]) > Used
                        /\ nmea'[0] = Nul \/ nmea'[1] = Nul \/ At(nmea'[1]) > Used
    BY <1>1 DEF Inv, UsedUp, Used
  <2>2. \A i \in 1..Len(serial') : At(serial'[i]) > Used
    BY <1>1, <2>1, ReadOne DEF Inv, UsedUp
  <2>3. nmea'[0] = Nul \/ nmea'[1] = Nul \/ At(nmea'[1]) > Used
    <3>1. index = 0 \/ index = 1 \/ (index >= 2 /\ nmea'[1] = nmea[1])
      BY <1>1, <1>2
    <3> QED
      BY <1>1, <1>2, <2>1, <3>1 DEF Inv, UsedUp
  <2> QED
    BY <2>2, <2>3
<1> QED
  BY <1>1, <1>3, <1>4, <1>5 DEF Inv, AtEnd, OncePerLine

LEMMA ReadCharacterInv == Inv /\ ReadCharacter => Inv'
<1> SUFFICES ASSUME Inv, ReadCharacter PROVE Inv'
  OBVIOUS
<1> USE ReceiverAssumption
<1>1. /\ serial # <<>> /\ serial' = Tail(serial)
      /\ UNCHANGED <<sent, dropped, pc, reported>> /\ pc = "read"
  BY DEF ReadCharacter
<1>2. nmea \in [0..NmeaSize -> Char \cup {Nul}] /\ index \in 0..NmeaSize /\ Star = 4
  BY DEF Inv, TypeOK, Star
<1>3. /\ nmea' \in [0..NmeaSize -> Char \cup {Nul}] /\ index' \in 0..NmeaSize
      /\ \A k \in 0..NmeaSize : nmea'[k] \in {nmea[k], Head(serial)}
      /\ index' >= 2 => (index >= 2 /\ nmea'[1] = nmea[1]) \/ nmea'[1] = Head(serial)
  BY <1>1, <1>2, ReadOne DEF ReadCharacter, Keeps
<1>4. TypeOK'
  <2>1. serial' \in Seq(Char) /\ Len(serial') <= SerialSize
    BY <1>1, ReadOne DEF Inv, TypeOK
  <2> QED
    BY <1>1, <1>3, <2>1, Zenon DEF Inv, TypeOK
<1>5. InOrder'
  BY <1>1, <1>3, ReadInOrder
<1>6. UsedUp'
  <2>1. SUFFICES ASSUME reported # <<>>
                 PROVE  /\ \A i \in 1..Len(serial') : At(serial'[i]) > Used
                        /\ index' >= 2 => nmea'[1] # Nul /\ At(nmea'[1]) > Used
    BY <1>1 DEF Inv, UsedUp, Used
  <2>2. \A i \in 1..Len(serial') : At(serial'[i]) > Used
    BY <1>1, <2>1, ReadOne DEF Inv, UsedUp
  <2>3. Head(serial) # Nul /\ At(Head(serial)) > Used
    <3>1. Head(serial) \in Char /\ Head(serial) = serial[1] /\ 1 \in 1..Len(serial)
      BY <1>1, ReadOne DEF Inv, TypeOK
    <3> QED
      BY <2>1, <3>1 DEF Inv, UsedUp
  <2>4. index >= 2 => nmea[1] # Nul /\ At(nmea[1]) > Used
    BY <2>1 DEF Inv, UsedUp
  <2> QED
    BY <1>3, <2>2, <2>3, <2>4
<1> QED
  BY <1>1, <1>4, <1>5, <1>6 DEF Inv, AtEnd, OncePerLine

(* The line is a later one than the line used before, for its first field  *)
(* was sent after that line's checksum.                                    *)
LEMMA ValidIsLater ==
    ASSUME Inv, pc = "line", NEW l \in Line, Valid(l)
    PROVE  /\ nmea[Star - 1] # Nul /\ At(nmea[Star - 1]) = 6 * (l - 1) + Star - 1
           /\ reported # <<>> => reported[Len(reported)] < l
<1> USE ReceiverAssumption DEF Star
<1>1. /\ nmea[1] = [line |-> l, part |-> 2] /\ nmea[3] = [line |-> l, part |-> 4]
      /\ nmea[0] # Nul /\ nmea[1] # Nul
  BY DEF Valid, ChecksumGood, DataValid, Flag
<1>2. nmea[3] # Nul
  BY <1>1 DEF Char, Part
<1>3. At(nmea[1]) = 6 * (l - 1) + 1 /\ At(nmea[3]) = 6 * (l - 1) + 3
  BY <1>1 DEF At, Line
<1>4. ASSUME reported # <<>> PROVE reported[Len(reported)] < l
  <2>1. reported[Len(reported)] \in Line
    BY <1>4 DEF Inv, TypeOK
  <2>2. At(nmea[1]) > Used
    BY <1>1, <1>4 DEF Inv, UsedUp
  <2> QED
    BY <1>3, <2>1, <2>2 DEF Used, Line
<1> QED
  BY <1>2, <1>3, <1>4

LEMMA UseLineInv == Inv /\ UseLine => Inv'
<1> SUFFICES ASSUME Inv, UseLine PROVE Inv'
  OBVIOUS
<1>1. /\ pc = "line" /\ pc' = "busy" /\ index = 0
      /\ UNCHANGED <<sent, serial, dropped, nmea, index>>
  BY DEF Inv, AtEnd, UseLine
<1>2. CASE ~ \E l \in Line : Valid(l)
  <2>1. reported' = reported
    BY <1>2 DEF Inv, TypeOK, UseLine
  <2> QED
    BY <1>1, <2>1 DEF Inv, TypeOK, InOrder, AtEnd, UsedUp, Used, OncePerLine
<1>3. CASE \E l \in Line : Valid(l)
  <2> DEFINE l == CHOOSE x \in Line : Valid(x)
  <2>1. l \in Line /\ Valid(l)
    BY <1>3
  <2>2. reported' = reported \o <<l>> /\ reported \in Seq(Line)
    BY <1>3 DEF Inv, TypeOK, UseLine
  <2> HIDE DEF l
  <2>3. /\ reported' \in Seq(Line) /\ Len(reported') = Len(reported) + 1
        /\ reported'[Len(reported')] = l
        /\ \A i \in 1..Len(reported) : reported'[i] = reported[i]
    BY <2>1, <2>2
  <2>4. /\ nmea[Star - 1] # Nul /\ At(nmea[Star - 1]) = 6 * (l - 1) + Star - 1
        /\ reported # <<>> => reported[Len(reported)] < l
    BY <1>1, <2>1, ValidIsLater
  <2>5. TypeOK'
    BY <1>1, <2>3, Zenon DEF Inv, TypeOK
  <2>6. InOrder' /\ AtEnd'
    BY <1>1 DEF Inv, InOrder, AtEnd
  <2>7. UsedUp'
    <3>1. Used' = 6 * (l - 1) + Star - 1 /\ Star - 1 \in 0..NmeaSize
      BY <2>3, ReceiverAssumption DEF Used, Star
    <3>2. sent > Used' /\ \A i \in 1..Len(serial) : At(serial[i]) > Used'
      <4>1. At(nmea[Star - 1]) = Used'
        BY <2>4, <3>1
      <4>2. Used' \in Int /\ sent \in Nat /\ \A i \in 1..Len(serial) : At(serial[i]) \in Nat
        BY <2>1, <3>1, CharAt, ReceiverAssumption DEF Inv, TypeOK, Line, Star
      <4> QED
        BY <2>4, <3>1, <4>1, <4>2 DEF Inv, InOrder
    <3> QED
      BY <1>1, <3>2 DEF UsedUp
  <2>8. OncePerLine'
    <3>1. SUFFICES ASSUME NEW i \in 1..Len(reported') - 1
                   PROVE  reported'[i] < reported'[i + 1]
      BY DEF OncePerLine
    <3>2. CASE i = Len(reported)
      BY <2>2, <2>3, <2>4, <3>2
    <3>3. CASE i # Len(reported)
      BY <2>2, <2>3, <3>3 DEF Inv, OncePerLine
    <3> QED
      BY <3>2, <3>3
  <2> QED
    BY <2>5, <2>6, <2>7, <2>8 DEF Inv
<1> QED
  BY <1>2, <1>3

LEMMA NextInv == Inv /\ [Next]_vars => Inv'
<1> SUFFICES ASSUME Inv, [Next]_vars PROVE Inv'
  OBVIOUS
<1>1. CASE Call \/ NothingAvailable \/ AfterNewLine \/ SearchBeyond \/ Lost \/ UNCHANGED vars
  <2>1. UNCHANGED <<sent, serial, dropped, nmea, index, reported>>
    BY <1>1 DEF Call, NothingAvailable, AfterNewLine, SearchBeyond, Lost, vars
  <2>2. pc' = "line" => pc \in {"newline", "line"}
    BY <1>1 DEF Call, NothingAvailable, AfterNewLine, SearchBeyond, Lost, vars
  <2>3. pc' = "newline" => pc = "newline"
    BY <1>1 DEF Call, NothingAvailable, AfterNewLine, SearchBeyond, Lost, vars
  <2>4. pc' \in {"busy", "read", "newline", "line", "lost"}
    BY <1>1 DEF Inv, TypeOK, Call, NothingAvailable, AfterNewLine, SearchBeyond, Lost, vars
  <2>5. TypeOK'
    BY <2>1, <2>4, Zenon DEF Inv, TypeOK
  <2> QED
    BY <2>1, <2>2, <2>3, <2>5 DEF Inv, InOrder, AtEnd, UsedUp, Used, OncePerLine
<1> QED
  BY <1>1, SendInv, ReadNewLineInv, ReadCharacterInv, UseLineInv DEF Next, Program

LEMMA Invariance == Spec => []Inv
BY InitInv, NextInv, PTL DEF Spec

(* Neither buffer ever holds more than it has room for, whatever the       *)
(* length of the lines.                                                    *)
THEOREM ReceiverTypeCorrect == Spec => []TypeOK
<1>1. Inv => TypeOK
  BY DEF Inv
<1> QED
  BY <1>1, Invariance, PTL

(* gps.cpp:232: no line is reported twice, nor one after a later one.      *)
THEOREM LinesUsedOnce == Spec => []OncePerLine
<1>1. Inv => OncePerLine
  BY DEF Inv
<1> QED
  BY <1>1, Invariance, PTL

-----------------------------------------------------------------------------
(* What gps_parse reads.                                                   *)

(* The recursion of Value has a solution for what the code gives to atoi   *)
(* and atol, which is six characters at most.                              *)
ValueStep(s, h, k) ==
    IF k = 0 THEN 0
    ELSE IF \A i \in 1..k : IsDigit(s[i]) THEN 10 * h[k - 1] + s[k] - Zero
    ELSE h[k - 1]

Solves(s, n, h) == h = [k \in 0..n |-> ValueStep(s, h, k)]

LEMMA ValueExtends ==
    ASSUME NEW s, NEW n \in Nat, NEW h, Solves(s, n, h)
    PROVE  \E g : Solves(s, n + 1, g)
<1>0. \A k \in 0..n : h[k] = ValueStep(s, h, k)
  BY DEF Solves
<1> DEFINE g == [k \in 0..n + 1 |-> IF k = n + 1 THEN ValueStep(s, h, k) ELSE h[k]]
<1>1. ASSUME NEW k \in 0..n + 1 PROVE g[k] = ValueStep(s, g, k)
  <2>1. CASE k = 0
    BY <1>0, <2>1 DEF ValueStep
  <2>2. CASE k # 0
    <3>1. k - 1 \in 0..n /\ k - 1 \in 0..n + 1 /\ k - 1 # n + 1
      BY <2>2
    <3>2. g[k - 1] = h[k - 1]
      BY <3>1
    <3>3. ValueStep(s, g, k) = ValueStep(s, h, k)
      BY <2>2, <3>2 DEF ValueStep
    <3>4. g[k] = ValueStep(s, h, k)
      BY <1>0
    <3> QED
      BY <3>3, <3>4
  <2> QED
    BY <2>1, <2>2
<1> HIDE DEF g
<1>2. g = [k \in 0..n + 1 |-> ValueStep(s, g, k)]
  <2>1. DOMAIN g = 0..n + 1 /\ g = [k \in DOMAIN g |-> g[k]]
    BY DEF g
  <2> QED
    BY <1>1, <2>1
<1> QED
  BY <1>2 DEF Solves

LEMMA ValueSolved ==
    ASSUME NEW s, NEW n \in 0..6
    PROVE  \E h : Solves(s, n, h)
<1> DEFINE Solved(m) == \E h : Solves(s, m, h)
<1>1. Solved(0)
  <2> DEFINE h == [k \in 0..0 |-> 0]
  <2>1. h = [k \in 0..0 |-> ValueStep(s, h, k)]
    BY DEF ValueStep
  <2> QED
    BY <2>1 DEF Solves
<1>2. ASSUME NEW m \in Nat, Solved(m) PROVE Solved(m + 1)
  <2>1. PICK h : Solves(s, m, h)
    BY <1>2
  <2> QED
    BY <2>1, ValueExtends
<1> HIDE DEF Solved
<1>3. /\ 0 + 1 = 1 /\ 1 + 1 = 2 /\ 2 + 1 = 3 /\ 3 + 1 = 4 /\ 4 + 1 = 5 /\ 5 + 1 = 6
      /\ n \in {0, 1, 2, 3, 4, 5, 6}
  OBVIOUS
<1>4. Solved(1) /\ Solved(2)
  BY <1>1, <1>2, <1>3
<1>5. Solved(3) /\ Solved(4)
  BY <1>2, <1>3, <1>4
<1>6. Solved(5) /\ Solved(6)
  BY <1>2, <1>3, <1>5
<1>7. Solved(n)
  BY <1>1, <1>3, <1>4, <1>5, <1>6
<1> QED
  BY <1>7 DEF Solved

ReadBy(s, n, v) ==
    /\ v[0] = 0 /\ Value(s) = v[n]
    /\ \A k \in 1..n : v[k] = IF \A i \in 1..k : IsDigit(s[i]) THEN 10 * v[k - 1] + s[k] - Zero
                                                                ELSE v[k - 1]

LEMMA ValueSteps ==
    ASSUME NEW s, NEW n \in 0..6, Len(s) = n
    PROVE  \E v : ReadBy(s, n, v)
<1> DEFINE v == CHOOSE h : h = [k \in 0..n |-> ValueStep(s, h, k)]
<1>1. v = [k \in 0..n |-> ValueStep(s, v, k)]
  BY ValueSolved, Zenon DEF Solves
<1>2. Value(s) = v[n]
  BY Zenon DEF Value, ValueStep
<1> HIDE DEF v
<1>3. \A k \in 0..n : v[k] = ValueStep(s, v, k)
  BY <1>1
<1>4. v[0] = 0
  BY <1>3 DEF ValueStep
<1>5. ASSUME NEW k \in 1..n
      PROVE  v[k] = IF \A i \in 1..k : IsDigit(s[i]) THEN 10 * v[k - 1] + s[k] - Zero
                                                     ELSE v[k - 1]
  BY <1>3 DEF ValueStep
<1>6. ReadBy(s, n, v)
  BY <1>2, <1>4, <1>5 DEF ReadBy
<1> QED
  BY <1>6

(* Digits up to the n-th character, and after them none or another one.    *)
LEMMA ValueOfDigits ==
    ASSUME NEW s, NEW m \in 0..6, Len(s) = m, NEW n \in 0..m,
           \A i \in 1..n : IsDigit(s[i]),
           n < m => ~ IsDigit(s[n + 1])
    PROVE  \E v : /\ v[0] = 0 /\ Value(s) = v[n]
                  /\ \A k \in 1..n : v[k] = 10 * v[k - 1] + s[k] - Zero
<1>0. PICK v : ReadBy(s, m, v)
  BY ValueSteps
<1>1. /\ v[0] = 0 /\ Value(s) = v[m]
      /\ \A k \in 1..m : v[k] = IF \A i \in 1..k : IsDigit(s[i]) THEN 10 * v[k - 1] + s[k] - Zero
                                                                  ELSE v[k - 1]
  BY <1>0 DEF ReadBy
<1>2. ASSUME NEW k \in 1..n PROVE v[k] = 10 * v[k - 1] + s[k] - Zero
  <2>1. k \in 1..m /\ \A i \in 1..k : i \in 1..n
    OBVIOUS
  <2> QED
    BY <1>1, <2>1
<1>3. ASSUME NEW k \in n + 1..m PROVE v[k] = v[k - 1]
  <2>1. k \in 1..m /\ n + 1 \in 1..k /\ n < m
    OBVIOUS
  <2> QED
    BY <1>1, <2>1
<1>4. v[m] = v[n]
  <2> DEFINE same(k) == n <= k /\ k <= m => v[k] = v[n]
  <2>1. \A k \in 1..6 : same(k - 1) => same(k)
    BY <1>3
  <2>2. same(0)
    OBVIOUS
  <2> HIDE DEF same
  <2>3. /\ 1 - 1 = 0 /\ 2 - 1 = 1 /\ 3 - 1 = 2 /\ 4 - 1 = 3 /\ 5 - 1 = 4 /\ 6 - 1 = 5
        /\ m \in {0, 1, 2, 3, 4, 5, 6}
    OBVIOUS
  <2>4. same(1) /\ same(2) /\ same(3)
    BY <2>1, <2>2, <2>3
  <2>5. same(4) /\ same(5) /\ same(6)
    BY <2>1, <2>3, <2>4
  <2>6. same(m)
    BY <2>2, <2>3, <2>4, <2>5
  <2> QED
    BY <2>6 DEF same
<1> QED
  BY <1>1, <1>2, <1>4

(* A character that is a digit, of a number below ten.                     *)
LEMMA DigitCode ==
    /\ \A d \in 0..9 : IsDigit(Zero + d) /\ Zero + d # Code.point /\ Zero + d \in Int
    /\ ~ IsDigit(Code.point) /\ ~ IsDigit(Code.comma)
  BY DEF IsDigit, Zero, Code

(* Numbers of no digit, of one, two and three, before the end or a point.  *)
LEMMA ValueOfNone ==
    ASSUME NEW s, Len(s) = 0
    PROVE  Value(s) = 0
<1>1. PICK v : ReadBy(s, 0, v)
  BY ValueSteps
<1> QED
  BY <1>1 DEF ReadBy

LEMMA ValueOfOne ==
    ASSUME NEW s, Len(s) \in 1..6, IsDigit(s[1]), Len(s) > 1 => ~ IsDigit(s[2])
    PROVE  Value(s) = s[1] - Zero
<1>1. \A i \in 1..1 : IsDigit(s[i])
  OBVIOUS
<1>2. PICK v : /\ v[0] = 0 /\ Value(s) = v[1]
               /\ \A k \in 1..1 : v[k] = 10 * v[k - 1] + s[k] - Zero
  BY <1>1, ValueOfDigits
<1>3. v[1] = 10 * v[0] + s[1] - Zero
  BY <1>2
<1> QED
  BY <1>2, <1>3 DEF Zero, IsDigit

LEMMA ValueOfTwo ==
    ASSUME NEW s, Len(s) \in 2..6, IsDigit(s[1]), IsDigit(s[2]), Len(s) > 2 => ~ IsDigit(s[3])
    PROVE  Value(s) = 10 * (s[1] - Zero) + (s[2] - Zero)
<1>1. \A i \in 1..2 : IsDigit(s[i])
  <2>1. \A i \in 1..2 : i \in {1, 2}
    OBVIOUS
  <2> QED
    BY <2>1
<1>2. PICK v : /\ v[0] = 0 /\ Value(s) = v[2]
               /\ \A k \in 1..2 : v[k] = 10 * v[k - 1] + s[k] - Zero
  BY <1>1, ValueOfDigits
<1>3. v[1] = 10 * v[0] + s[1] - Zero /\ v[2] = 10 * v[1] + s[2] - Zero
  BY <1>2
<1> QED
  BY <1>2, <1>3 DEF Zero, IsDigit

LEMMA ValueOfThree ==
    ASSUME NEW s, Len(s) \in 3..6, IsDigit(s[1]), IsDigit(s[2]), IsDigit(s[3]),
           Len(s) > 3 => ~ IsDigit(s[4])
    PROVE  Value(s) = 100 * (s[1] - Zero) + 10 * (s[2] - Zero) + (s[3] - Zero)
<1>1. \A i \in 1..3 : IsDigit(s[i])
  <2>1. \A i \in 1..3 : i \in {1, 2, 3}
    OBVIOUS
  <2> QED
    BY <2>1
<1>2. PICK v : /\ v[0] = 0 /\ Value(s) = v[3]
               /\ \A k \in 1..3 : v[k] = 10 * v[k - 1] + s[k] - Zero
  BY <1>1, ValueOfDigits
<1>3. /\ v[1] = 10 * v[0] + s[1] - Zero /\ v[2] = 10 * v[1] + s[2] - Zero
      /\ v[3] = 10 * v[2] + s[3] - Zero
  BY <1>2
<1>4. s[1] \in Int /\ s[2] \in Int /\ s[3] \in Int
  BY DEF IsDigit, Zero
<1>5. v[1] = s[1] - Zero /\ v[2] = 10 * (s[1] - Zero) + (s[2] - Zero)
  BY <1>2, <1>3, <1>4 DEF Zero
<1>6. v[3] = 10 * v[2] + (s[3] - Zero)
  BY <1>3, <1>4, <1>5 DEF Zero
<1> QED
  BY <1>2, <1>4, <1>5, <1>6 DEF Zero

LEMMA ValueOfSix ==
    ASSUME NEW s, Len(s) = 6, \A i \in 1..6 : IsDigit(s[i])
    PROVE  Value(s) = 100000 * (s[1] - Zero) + 10000 * (s[2] - Zero)
                        + (1000 * (s[3] - Zero) + 100 * (s[4] - Zero)
                        + 10 * (s[5] - Zero) + (s[6] - Zero))
<1>1. PICK v : /\ v[0] = 0 /\ Value(s) = v[6]
               /\ \A k \in 1..6 : v[k] = 10 * v[k - 1] + s[k] - Zero
  BY ValueOfDigits
<1>2. /\ v[1] = 10 * v[0] + s[1] - Zero /\ v[2] = 10 * v[1] + s[2] - Zero
      /\ v[3] = 10 * v[2] + s[3] - Zero
  BY <1>1
<1>3. /\ v[4] = 10 * v[3] + s[4] - Zero /\ v[5] = 10 * v[4] + s[5] - Zero
      /\ v[6] = 10 * v[5] + s[6] - Zero
  BY <1>1
<1>4. /\ s[1] \in Int /\ s[2] \in Int /\ s[3] \in Int
      /\ s[4] \in Int /\ s[5] \in Int /\ s[6] \in Int
  BY DEF IsDigit, Zero
<1> QED
  BY <1>1, <1>2, <1>3, <1>4 DEF Zero

(* The digits of a number.                                                 *)
LEMMA DigitsOf ==
    ASSUME NEW n \in Nat, n < 10000
    PROVE  /\ Digit(n, 3) \in 0..9 /\ Digit(n, 2) \in 0..9
           /\ Digit(n, 1) \in 0..9 /\ Digit(n, 0) \in 0..9
           /\ n = 1000 * Digit(n, 3) + 100 * Digit(n, 2) + 10 * Digit(n, 1) + Digit(n, 0)
<1> DEFINE p == n \div 10
           q == n \div 100
           r == n \div 1000
           d3 == r % 10
           d2 == q % 10
           d1 == p % 10
           d0 == n % 10
<1>1. p \in Nat /\ q \in Nat /\ r \in Nat
  OBVIOUS
<1>2. q = p \div 10 /\ r = q \div 10
  OBVIOUS
<1>3. r < 10
  OBVIOUS
<1>4. Digit(n, 3) = d3 /\ Digit(n, 2) = d2 /\ Digit(n, 1) = d1 /\ Digit(n, 0) = d0
  BY DEF Digit
<1>5. n = 10 * p + d0
  OBVIOUS
<1> HIDE DEF p, q, r
<1>6. p = 10 * q + d1 /\ q = 10 * r + d2 /\ d3 = r
  BY <1>1, <1>2, <1>3
<1>7. d3 \in 0..9 /\ d2 \in 0..9 /\ d1 \in 0..9 /\ d0 \in 0..9
  BY <1>1
<1> HIDE DEF d3, d2, d1, d0
<1>8. n = 1000 * d3 + 100 * d2 + 10 * d1 + d0
  BY <1>1, <1>5, <1>6, <1>7
<1>9. n = 1000 * Digit(n, 3) + 100 * Digit(n, 2) + 10 * Digit(n, 1) + Digit(n, 0)
  BY <1>4, <1>8
<1>10. Digit(n, 3) \in 0..9
  BY <1>4, <1>7
<1>11. Digit(n, 2) \in 0..9
  BY <1>4, <1>7
<1>12. Digit(n, 1) \in 0..9 /\ Digit(n, 0) \in 0..9
  BY <1>4, <1>7
<1> QED
  BY <1>9, <1>10, <1>11, <1>12

(* A sequence has another one at a place; a longer one has it there too.   *)
Has(s, at, q) == \A i \in 1..Len(q) : s[at + i] = q[i]

Joined(s, p, q) ==
    /\ s \in Seq(Int) /\ Len(s) = Len(p) + Len(q)
    /\ Has(s, 0, p) /\ Has(s, Len(p), q)
    /\ \A x \in Seq(Int), at \in Nat : Has(p, at, x) /\ at + Len(x) <= Len(p) => Has(s, at, x)

LEMMA Joins ==
    ASSUME NEW p \in Seq(Int), NEW q \in Seq(Int)
    PROVE  Joined(p \o q, p, q)
<1> DEFINE s == p \o q
<1>1. /\ s \in Seq(Int) /\ Len(s) = Len(p) + Len(q) /\ Len(p) \in Nat /\ Len(q) \in Nat
      /\ \A i \in 1..Len(s) : s[i] = IF i <= Len(p) THEN p[i] ELSE q[i - Len(p)]
  BY ConcatProperties, LenProperties
<1> HIDE DEF s
<1>2. \A i \in 1..Len(p) : s[i] = p[i]
  BY <1>1
<1>3. ASSUME NEW i \in 1..Len(q) PROVE s[Len(p) + i] = q[i]
  <2>1. Len(p) + i \in 1..Len(s) /\ ~ (Len(p) + i <= Len(p)) /\ (Len(p) + i) - Len(p) = i
    BY <1>1
  <2> QED
    BY <1>1, <2>1
<1>4. ASSUME NEW x \in Seq(Int), NEW at \in Nat, Has(p, at, x), at + Len(x) <= Len(p)
      PROVE  Has(s, at, x)
  <2>1. Len(x) \in Nat
    BY LenProperties
  <2>2. \A i \in 1..Len(x) : at + i \in 1..Len(p)
    BY <1>1, <1>4, <2>1
  <2> QED
    BY <1>2, <1>4, <2>2 DEF Has
<1>5. Has(s, 0, p)
  BY <1>1, <1>2 DEF Has
<1> QED
  <2>1. Has(s, Len(p), q)
    BY <1>3 DEF Has
  <2>2. Joined(s, p, q)
    BY <1>1, <1>4, <1>5, <2>1 DEF Joined
  <2> QED
    BY <2>2 DEF s

LEMMA JoinedKeeps ==
    ASSUME NEW s, NEW p, NEW q, Joined(s, p, q), NEW x \in Seq(Int), NEW at \in Nat,
           Has(p, at, x), at + Len(x) <= Len(p)
    PROVE  Has(s, at, x)
  BY DEF Joined

LEMMA HasAt ==
    ASSUME NEW s, NEW at, NEW q, Has(s, at, q), NEW i \in 1..Len(q)
    PROVE  s[at + i] = q[i]
  BY DEF Has

(* Where a part of a part is.                                              *)
LEMMA HasPart ==
    ASSUME NEW s, NEW p, NEW q, NEW at \in Nat, NEW inner \in Nat,
           Has(s, at, p), Has(p, inner, q), q \in Seq(Int), p \in Seq(Int),
           inner + Len(q) <= Len(p)
    PROVE  Has(s, at + inner, q)
<1>1. Len(q) \in Nat /\ Len(p) \in Nat
  BY LenProperties
<1>2. ASSUME NEW i \in 1..Len(q) PROVE s[at + inner + i] = q[i]
  <2>1. inner + i \in 1..Len(p) /\ at + inner + i = at + (inner + i)
    BY <1>1
  <2> QED
    BY <2>1 DEF Has
<1> QED
  BY <1>2 DEF Has

Spells(s, n, w) ==
    s \in Seq(Int) /\ Len(s) = w /\ \A k \in 1..w : s[k] = Zero + Digit(n, w - k)

LEMMA DigitsSeq ==
    ASSUME NEW n \in Nat, n < 10000, NEW w \in 1..4
    PROVE  Spells(Digits(n, w), n, w)
<1>1. \A k \in {0, 1, 2, 3} : Digit(n, k) \in 0..9
  <2>1. Digit(n, 3) \in 0..9 /\ Digit(n, 2) \in 0..9
    BY DigitsOf
  <2>2. Digit(n, 1) \in 0..9 /\ Digit(n, 0) \in 0..9
    BY DigitsOf
  <2> QED
    BY <2>1, <2>2
<1>2. ASSUME NEW k \in 1..w PROVE Zero + Digit(n, w - k) \in Int
  <2>1. w - k \in {0, 1, 2, 3}
    OBVIOUS
  <2> QED
    BY <1>1, <2>1 DEF Zero
<1> DEFINE s == Digits(n, w)
<1>3. s = [k \in 1..w |-> Zero + Digit(n, w - k)]
  BY DEF Digits
<1>4. s \in [1..w -> Int] /\ \A k \in 1..w : s[k] = Zero + Digit(n, w - k)
  BY <1>2, <1>3
<1> HIDE DEF s
<1>5. s \in Seq(Int) /\ Len(s) = w
  BY <1>4
<1>6. Spells(s, n, w)
  BY <1>4, <1>5 DEF Spells
<1> QED
  BY <1>6 DEF s

LEMMA SkippedSeq ==
    ASSUME NEW w \in Nat
    PROVE  Skipped(w) \in Seq(Int) /\ Len(Skipped(w)) = w
<1> DEFINE s == Skipped(w)
<1>1. s \in [1..w -> Int]
  BY DEF Skipped, Zero
<1> HIDE DEF s
<1>2. s \in Seq(Int) /\ Len(s) = w
  BY <1>1
<1> QED
  BY <1>2 DEF s

(* One of the two angles of a line.                                        *)
HoldsAngle(s, degrees, width, minutes, fraction, hemisphere) ==
    /\ s \in Seq(Int) /\ Len(s) = width + 10
    /\ Has(s, 0, Digits(degrees, width))
    /\ Has(s, width, Digits(minutes, 2))
    /\ Has(s, width + 3, Digits(fraction, 4))
    /\ s[width + 9] = Code[hemisphere]

LEMMA AngledParts ==
    ASSUME NEW degrees \in Nat, degrees < 1000, NEW width \in {2, 3},
           NEW minutes \in Nat, minutes < 100, NEW fraction \in Nat, fraction < 10000,
           NEW hemisphere \in {"N", "S", "E", "W"}
    PROVE  HoldsAngle(Angled(degrees, width, minutes, fraction, hemisphere),
                      degrees, width, minutes, fraction, hemisphere)
<1> DEFINE s == Angled(degrees, width, minutes, fraction, hemisphere)
           d == Digits(degrees, width)
           m == Digits(minutes, 2)
           point == <<Code.point>>
           f == Digits(fraction, 4)
           letter == <<Code.comma, Code[hemisphere], Code.comma>>
           dm == d \o m
           dmp == dm \o point
           dmpf == dmp \o f
<1>1. d \in Seq(Int) /\ Len(d) = width
  <2>1. width \in 1..4 /\ degrees < 10000
    OBVIOUS
  <2>2. Spells(d, degrees, width)
    BY <2>1, DigitsSeq
  <2> QED
    BY <2>2 DEF Spells
<1>2. m \in Seq(Int) /\ Len(m) = 2 /\ f \in Seq(Int) /\ Len(f) = 4
  <2>1. minutes < 10000 /\ 2 \in 1..4 /\ 4 \in 1..4
    OBVIOUS
  <2>2. Spells(m, minutes, 2)
    BY <2>1, DigitsSeq
  <2>3. Spells(f, fraction, 4)
    BY <2>1, DigitsSeq
  <2> QED
    BY <2>2, <2>3 DEF Spells
<1>3. point \in Seq(Int) /\ Len(point) = 1
  BY DEF Code
<1>4. letter \in Seq(Int) /\ Len(letter) = 3 /\ letter[2] = Code[hemisphere]
  <2>1. Code.comma \in Int /\ Code[hemisphere] \in Int
    BY DEF Code
  <2> QED
    BY <2>1
<1>5. s = dmpf \o letter
  BY DEF Angled
<1> HIDE DEF d, m, point, f, letter, dm, dmp, dmpf, s
<1>0. width \in Nat /\ width + 2 \in Nat /\ width + 3 \in Nat
  OBVIOUS
<1>6. dm \in Seq(Int) /\ Len(dm) = width + 2 /\ Has(dm, 0, d) /\ Has(dm, width, m)
  <2>1. Joined(dm, d, m)
    BY <1>1, <1>2, Joins DEF dm
  <2> QED
    BY <1>1, <1>2, <2>1 DEF Joined
<1>7. dmp \in Seq(Int) /\ Len(dmp) = width + 3 /\ Has(dmp, 0, d) /\ Has(dmp, width, m)
  <2>1. Joined(dmp, dm, point)
    BY <1>3, <1>6, Joins DEF dmp
  <2>2. Has(dmp, 0, d)
    <3>1. d \in Seq(Int) /\ 0 \in Nat /\ Has(dm, 0, d)
      BY <1>0, <1>1, <1>6, <2>1
    <3>2. 0 + Len(d) <= Len(dm)
      BY <1>0, <1>1, <1>6, <2>1
    <3> QED
      BY <2>1, <3>1, <3>2, JoinedKeeps
  <2>3. Has(dmp, width, m)
    <3>1. m \in Seq(Int) /\ width \in Nat /\ Has(dm, width, m)
      BY <1>0, <1>2, <1>6, <2>1
    <3>2. width + Len(m) <= Len(dm)
      BY <1>0, <1>2, <1>6, <2>1
    <3> QED
      BY <2>1, <3>1, <3>2, JoinedKeeps
  <2>4. dmp \in Seq(Int) /\ Len(dmp) = width + 3
    BY <1>0, <1>3, <1>6, <2>1 DEF Joined
  <2> QED
    BY <2>2, <2>3, <2>4
<1>8. /\ dmpf \in Seq(Int) /\ Len(dmpf) = width + 7
      /\ Has(dmpf, 0, d) /\ Has(dmpf, width, m) /\ Has(dmpf, width + 3, f)
  <2>1. Joined(dmpf, dmp, f)
    BY <1>2, <1>7, Joins DEF dmpf
  <2>2. Has(dmpf, 0, d)
    <3>1. d \in Seq(Int) /\ 0 \in Nat /\ Has(dmp, 0, d)
      BY <1>0, <1>1, <1>7, <2>1
    <3>2. 0 + Len(d) <= Len(dmp)
      BY <1>0, <1>1, <1>7, <2>1
    <3> QED
      BY <2>1, <3>1, <3>2, JoinedKeeps
  <2>3. Has(dmpf, width, m)
    <3>1. m \in Seq(Int) /\ width \in Nat /\ Has(dmp, width, m)
      BY <1>0, <1>2, <1>7, <2>1
    <3>2. width + Len(m) <= Len(dmp)
      BY <1>0, <1>2, <1>7, <2>1
    <3> QED
      BY <2>1, <3>1, <3>2, JoinedKeeps
  <2>4. dmpf \in Seq(Int) /\ Len(dmpf) = width + 7 /\ Has(dmpf, width + 3, f)
    BY <1>0, <1>2, <1>7, <2>1 DEF Joined
  <2> QED
    BY <2>2, <2>3, <2>4
<1>9. /\ s \in Seq(Int) /\ Len(s) = width + 10
      /\ Has(s, 0, d) /\ Has(s, width, m) /\ Has(s, width + 3, f) /\ Has(s, width + 7, letter)
  <2>1. Joined(s, dmpf, letter)
    BY <1>4, <1>5, <1>8, Joins
  <2>2. Has(s, 0, d)
    <3>1. d \in Seq(Int) /\ 0 \in Nat /\ Has(dmpf, 0, d)
      BY <1>0, <1>1, <1>8, <2>1
    <3>2. 0 + Len(d) <= Len(dmpf)
      BY <1>0, <1>1, <1>8, <2>1
    <3> QED
      BY <2>1, <3>1, <3>2, JoinedKeeps
  <2>3. Has(s, width, m)
    <3>1. m \in Seq(Int) /\ width \in Nat /\ Has(dmpf, width, m)
      BY <1>0, <1>2, <1>8, <2>1
    <3>2. width + Len(m) <= Len(dmpf)
      BY <1>0, <1>2, <1>8, <2>1
    <3> QED
      BY <2>1, <3>1, <3>2, JoinedKeeps
  <2>4. Has(s, width + 3, f)
    <3>1. f \in Seq(Int) /\ width + 3 \in Nat /\ Has(dmpf, width + 3, f)
      BY <1>0, <1>2, <1>8, <2>1
    <3>2. width + 3 + Len(f) <= Len(dmpf)
      BY <1>0, <1>2, <1>8, <2>1
    <3> QED
      BY <2>1, <3>1, <3>2, JoinedKeeps
  <2>5. s \in Seq(Int) /\ Len(s) = width + 10 /\ Has(s, width + 7, letter)
    BY <1>0, <1>4, <1>8, <2>1 DEF Joined
  <2> QED
    BY <2>2, <2>3, <2>4, <2>5
<1>10. s[width + 9] = letter[2]
  <2>1. 2 \in 1..Len(letter) /\ (width + 7) + 2 = width + 9
    BY <1>4
  <2>2. s[(width + 7) + 2] = letter[2]
    BY <1>9, <2>1 DEF Has
  <2> QED
    BY <2>1, <2>2
<1>11. HoldsAngle(s, degrees, width, minutes, fraction, hemisphere)
  BY <1>4, <1>9, <1>10 DEF d, m, f, HoldsAngle
<1> QED
  BY <1>11 DEF s

(* What strncpy takes of a sequence.                                       *)
Taken(c, s, at, n) ==
    c \in Seq(Int) /\ Len(c) = n /\ \A i \in 1..n : c[i] = s[at + i]

LEMMA CharsTaken ==
    ASSUME NEW s \in Seq(Int), NEW at \in Nat, NEW n \in Nat, at + n <= Len(s)
    PROVE  Taken(Chars(s, at, n), s, at, n)
<1> DEFINE c == Chars(s, at, n)
<1>1. Len(s) \in Nat
  BY LenProperties
<1>2. at + 1 \in 1..Len(s) + 1 /\ at + n \in at..Len(s)
  BY <1>1
<1>3. c \in Seq(Int) /\ Len(c) = n
  BY <1>1, <1>2 DEF Chars
<1>4. ASSUME NEW i \in 1..n PROVE c[i] = s[at + i]
  BY <1>1, <1>2 DEF Chars
<1> HIDE DEF c
<1>5. Taken(c, s, at, n)
  BY <1>3, <1>4 DEF Taken
<1> QED
  BY <1>5 DEF c

LEMMA SmallNumber ==
    ASSUME NEW n \in Nat, n < 1000
    PROVE  /\ n = 100 * Digit(n, 2) + 10 * Digit(n, 1) + Digit(n, 0)
           /\ Digit(n, 2) \in 0..9 /\ Digit(n, 1) \in 0..9 /\ Digit(n, 0) \in 0..9
           /\ n < 100 => n = 10 * Digit(n, 1) + Digit(n, 0)
           /\ n < 10 => n = Digit(n, 0)
<1>1. /\ n = 1000 * Digit(n, 3) + 100 * Digit(n, 2) + 10 * Digit(n, 1) + Digit(n, 0)
      /\ Digit(n, 3) \in 0..9
  BY DigitsOf
<1>2. Digit(n, 2) \in 0..9
  BY DigitsOf
<1>3. Digit(n, 1) \in 0..9 /\ Digit(n, 0) \in 0..9
  BY DigitsOf
<1> DEFINE a == Digit(n, 3)
           b == Digit(n, 2)
           c == Digit(n, 1)
           d == Digit(n, 0)
<1>4. n = 1000 * a + 100 * b + 10 * c + d /\ a \in 0..9 /\ b \in 0..9 /\ c \in 0..9 /\ d \in 0..9
  BY <1>1, <1>2, <1>3
<1> HIDE DEF a, b, c, d
<1>5. /\ n = 100 * b + 10 * c + d
      /\ n < 100 => n = 10 * c + d
      /\ n < 10 => n = d
  BY <1>4
<1> QED
  BY <1>2, <1>3, <1>5 DEF b, c, d

(* atol of the degrees.                                                    *)
LEMMA ValueOfDegrees ==
    ASSUME NEW n \in Nat, NEW w \in {2, 3}, w = 2 => n < 100, n < 1000, NEW s, Spells(s, n, w)
    PROVE  Value(s) = n
<1> DEFINE x == Digit(n, 2)
           y == Digit(n, 1)
           z == Digit(n, 0)
<1>1. /\ n = 100 * x + 10 * y + z
      /\ n < 100 => n = 10 * y + z
  BY SmallNumber
<1>2. x \in 0..9 /\ y \in 0..9 /\ z \in 0..9
  BY SmallNumber
<1>3. CASE w = 2
  <2>1. Len(s) = 2 /\ s[1] = Zero + y /\ s[2] = Zero + z
    BY <1>3 DEF Spells
  <2> HIDE DEF x, y, z
  <2>2. IsDigit(s[1]) /\ IsDigit(s[2]) /\ s[1] - Zero = y /\ s[2] - Zero = z
    BY <1>2, <2>1 DEF IsDigit, Zero
  <2>3. Value(s) = 10 * (s[1] - Zero) + (s[2] - Zero)
    BY <2>1, <2>2, ValueOfTwo
  <2> QED
    BY <1>1, <1>3, <2>2, <2>3
<1>4. CASE w = 3
  <2>1. Len(s) = 3 /\ s[1] = Zero + x /\ s[2] = Zero + y /\ s[3] = Zero + z
    BY <1>4 DEF Spells
  <2> HIDE DEF x, y, z
  <2>2. /\ IsDigit(s[1]) /\ IsDigit(s[2]) /\ IsDigit(s[3])
        /\ s[1] - Zero = x /\ s[2] - Zero = y /\ s[3] - Zero = z
    BY <1>2, <2>1 DEF IsDigit, Zero
  <2>3. Value(s) = 100 * (s[1] - Zero) + 10 * (s[2] - Zero) + (s[3] - Zero)
    BY <2>1, <2>2, ValueOfThree
  <2> QED
    BY <1>1, <2>2, <2>3
<1> QED
  BY <1>3, <1>4

(* Two parts read one after the other.                                     *)
LEMMA ValueOfMinutes ==
    ASSUME NEW minutes \in Nat, minutes < 100, NEW fraction \in Nat, fraction < 10000,
           NEW m, Spells(m, minutes, 2), NEW f, Spells(f, fraction, 4)
    PROVE  Value(m \o f) = 10000 * minutes + fraction
<1> DEFINE s == m \o f
           a == Digit(minutes, 1)
           b == Digit(minutes, 0)
           p == Digit(fraction, 3)
           q == Digit(fraction, 2)
           x == Digit(fraction, 1)
           y == Digit(fraction, 0)
<1>1. minutes = 10 * a + b /\ a \in 0..9 /\ b \in 0..9
  BY SmallNumber
<1>2. /\ fraction = 1000 * p + 100 * q + 10 * x + y
      /\ p \in 0..9
  BY DigitsOf
<1>3. q \in 0..9
  BY DigitsOf
<1>4. x \in 0..9 /\ y \in 0..9
  BY DigitsOf
<1>5. /\ m \in Seq(Int) /\ Len(m) = 2 /\ f \in Seq(Int) /\ Len(f) = 4
      /\ m[1] = Zero + a /\ m[2] = Zero + b
      /\ f[1] = Zero + p /\ f[2] = Zero + q /\ f[3] = Zero + x /\ f[4] = Zero + y
  BY DEF Spells
<1> HIDE DEF s, a, b, p, q, x, y
<1>6. Joined(s, m, f)
  BY <1>5, Joins DEF s
<1>7. Len(s) = 6 /\ s[1] = m[1] /\ s[2] = m[2]
  <2>1. Len(s) = 6
    BY <1>5, <1>6 DEF Joined
  <2>2. \A i \in 1..2 : s[0 + i] = m[i]
    BY <1>5, <1>6 DEF Joined, Has
  <2> QED
    BY <2>1, <2>2
<1>8. s[3] = f[1] /\ s[4] = f[2] /\ s[5] = f[3] /\ s[6] = f[4]
  <2>1. \A i \in 1..4 : s[2 + i] = f[i]
    BY <1>5, <1>6 DEF Joined, Has
  <2> QED
    BY <2>1
<1>9. /\ s[1] = Zero + a /\ s[2] = Zero + b /\ s[3] = Zero + p
      /\ s[4] = Zero + q /\ s[5] = Zero + x /\ s[6] = Zero + y
  BY <1>5, <1>7, <1>8
<1>10. \A i \in 1..6 : IsDigit(s[i])
  <2>1. \A i \in 1..6 : i \in {1, 2, 3, 4, 5, 6}
    OBVIOUS
  <2> QED
    BY <1>1, <1>2, <1>3, <1>4, <1>9, <2>1, DigitCode
<1>11. /\ s[1] - Zero = a /\ s[2] - Zero = b /\ s[3] - Zero = p
       /\ s[4] - Zero = q /\ s[5] - Zero = x /\ s[6] - Zero = y
  BY <1>1, <1>2, <1>3, <1>4, <1>9 DEF Zero
<1>12. Value(s) = 100000 * (s[1] - Zero) + 10000 * (s[2] - Zero)
                    + (1000 * (s[3] - Zero) + 100 * (s[4] - Zero)
                    + 10 * (s[5] - Zero) + (s[6] - Zero))
  BY <1>7, <1>10, ValueOfSix
<1>13. Value(s) = 100000 * a + 10000 * b + (1000 * p + 100 * q + 10 * x + y)
  BY <1>11, <1>12
<1>14. Value(s) = 10000 * minutes + fraction
  BY <1>1, <1>2, <1>3, <1>4, <1>13
<1> QED
  BY <1>14 DEF s

(* What is taken of a place where a number stands is that number.          *)
LEMMA TakenSpells ==
    ASSUME NEW s, NEW at \in Nat, NEW n, NEW w \in Nat, NEW q, Spells(q, n, w),
           Has(s, at, q), NEW t, Taken(t, s, at, w)
    PROVE  Spells(t, n, w)
  BY DEF Spells, Has, Taken

(* An angle is read as it stands in the line.                              *)
AngleIs(s, at, width, degrees, minutes, fraction, hemisphere) ==
    /\ Angle(s, at, width) = 600000 * degrees + (10000 * minutes + fraction)
    /\ s[at + width + 9] = Code[hemisphere]

LEMMA AngleRead ==
    ASSUME NEW degrees \in Nat, degrees < 1000, NEW width \in {2, 3}, width = 2 => degrees < 100,
           NEW minutes \in Nat, minutes < 100, NEW fraction \in Nat, fraction < 10000,
           NEW hemisphere \in {"N", "S", "E", "W"},
           NEW s \in Seq(Int), NEW at \in Nat, at + 13 <= Len(s),
           Has(s, at, Angled(degrees, width, minutes, fraction, hemisphere))
    PROVE  AngleIs(s, at, width, degrees, minutes, fraction, hemisphere)
<1> DEFINE part == Angled(degrees, width, minutes, fraction, hemisphere)
<1>0. HoldsAngle(part, degrees, width, minutes, fraction, hemisphere) /\ Has(s, at, part)
  BY AngledParts
<1> HIDE DEF part
<1> DEFINE d == Digits(degrees, width)
           m == Digits(minutes, 2)
           f == Digits(fraction, 4)
           cd == Chars(s, at, width)
           cm == Chars(s, at + width, 2)
           cf == Chars(s, at + width + 3, 4)
<1>1. /\ part \in Seq(Int) /\ Len(part) = width + 10
      /\ Has(part, 0, d) /\ Has(part, width, m) /\ Has(part, width + 3, f)
      /\ part[width + 9] = Code[hemisphere]
  BY <1>0 DEF HoldsAngle
<1>2. Spells(d, degrees, width)
  <2>1. degrees < 10000 /\ width \in 1..4
    OBVIOUS
  <2> QED
    BY <2>1, DigitsSeq
<1>3. Spells(m, minutes, 2)
  <2>1. minutes < 10000 /\ 2 \in 1..4
    OBVIOUS
  <2> QED
    BY <2>1, DigitsSeq
<1>4. Spells(f, fraction, 4)
  <2>1. 4 \in 1..4
    OBVIOUS
  <2> QED
    BY <2>1, DigitsSeq
<1>5. /\ width \in Nat /\ width + 3 \in Nat /\ at + width \in Nat /\ at + width + 3 \in Nat
      /\ at + width <= Len(s) /\ at + width + 2 <= Len(s) /\ at + width + 3 + 4 <= Len(s)
  BY LenProperties
<1>6. Taken(cd, s, at, width)
  BY <1>5, CharsTaken
<1>7. Taken(cm, s, at + width, 2)
  BY <1>5, CharsTaken
<1>8. Taken(cf, s, at + width + 3, 4)
  BY <1>5, CharsTaken
<1>9. Angle(s, at, width) = 600000 * Value(cd) + Value(cm \o cf)
  BY DEF Angle
<1> HIDE DEF d, m, f, cd, cm, cf
<1>10. Has(s, at, d)
  <2>1. Len(d) \in Nat /\ Len(d) <= Len(part)
    BY <1>1, <1>2 DEF Spells
  <2>3. Has(part, 0, d)
    BY <1>1
  <2>2. ASSUME NEW i \in 1..Len(d) PROVE s[at + i] = d[i]
    <3>1. i \in 1..Len(part)
      BY <1>1, <1>5, <2>1
    <3>2. part[i] = d[i]
      <4>1. part[0 + i] = d[i] /\ 0 + i = i
        BY <2>3 DEF Has
      <4> QED
        BY <4>1
    <3> QED
      BY <1>0, <3>1, <3>2 DEF Has
  <2> QED
    BY <2>2 DEF Has
<1>11. Has(s, at + width, m)
  <2>0. Len(part) = width + 10
    BY <1>1
  <2>1. m \in Seq(Int) /\ width + Len(m) <= Len(part)
    BY <1>3, <1>5, <2>0 DEF Spells
  <2>2. Has(part, width, m) /\ part \in Seq(Int)
    BY <1>1
  <2> QED
    BY <1>0, <1>5, <2>1, <2>2, HasPart
<1>12. Has(s, at + width + 3, f)
  <2>1. /\ f \in Seq(Int) /\ (width + 3) + Len(f) <= Len(part)
        /\ at + (width + 3) = at + width + 3
    <3>1. Len(part) = width + 10
      BY <1>1
    <3> QED
      BY <1>4, <1>5, <3>1 DEF Spells
  <2>2. Has(part, width + 3, f) /\ part \in Seq(Int)
    BY <1>1
  <2>3. Has(s, at + (width + 3), f)
    BY <1>0, <1>5, <2>1, <2>2, HasPart
  <2> QED
    BY <2>1, <2>3
<1>13. Value(cd) = degrees
  <2>1. Spells(cd, degrees, width)
    BY <1>2, <1>5, <1>6, <1>10, TakenSpells
  <2> QED
    BY <2>1, ValueOfDegrees
<1>14. Value(cm \o cf) = 10000 * minutes + fraction
  <2>1. Spells(cm, minutes, 2)
    BY <1>3, <1>5, <1>7, <1>11, TakenSpells
  <2>2. Spells(cf, fraction, 4)
    BY <1>4, <1>5, <1>8, <1>12, TakenSpells
  <2> QED
    BY <2>1, <2>2, ValueOfMinutes
<1>15. s[at + width + 9] = Code[hemisphere]
  <2>1. width + 9 \in 1..Len(part) /\ at + (width + 9) = at + width + 9
    BY <1>1
  <2>2. s[at + (width + 9)] = part[width + 9]
    <3>1. Has(s, at, part)
      BY <1>0
    <3> DEFINE k == width + 9
    <3>2. k \in 1..Len(part)
      BY <2>1
    <3> HIDE DEF k
    <3>3. s[at + k] = part[k]
      BY <3>1, <3>2, HasAt
    <3> QED
      BY <3>3 DEF k
  <2> QED
    BY <1>1, <2>1, <2>2
<1> QED
  BY <1>9, <1>13, <1>14, <1>15 DEF AngleIs

(* Where the parts of what was measured are, and of a line.                *)
HoldsMeasured(s, lat, lon, h) ==
    /\ s \in Seq(Int) /\ Len(s) = 48 + Len(h)
    /\ Has(s, 1, lat) /\ Has(s, 13, lon) /\ Has(s, 26, h)

HoldsParts(s, lat, lon, h) ==
    /\ s \in Seq(Int) /\ Len(s) = 70 + Len(h)
    /\ Has(s, 20, lat) /\ Has(s, 32, lon) /\ Has(s, 45, h)

LEMMA MeasuredParts ==
    ASSUME NEW lat \in Seq(Int), Len(lat) = 12, NEW lon \in Seq(Int), Len(lon) = 13,
           NEW h \in Seq(Int)
    PROVE  HoldsMeasured(<<Code.comma>> \o lat \o lon \o h \o <<Code.comma>> \o Skipped(21),
                         lat, lon, h)
<1> DEFINE s == <<Code.comma>> \o lat \o lon \o h \o <<Code.comma>> \o Skipped(21)
           comma == <<Code.comma>>
           last == Skipped(21)
           s1 == comma \o lat
           s2 == s1 \o lon
           s3 == s2 \o h
           s4 == s3 \o comma
<1>3. last \in Seq(Int) /\ Len(last) = 21
  <2>1. 21 \in Nat
    OBVIOUS
  <2> QED
    BY <2>1, SkippedSeq
<1>4. comma \in Seq(Int) /\ Len(comma) = 1
  BY DEF Code
<1>5. s = s4 \o last
  OBVIOUS
<1> HIDE DEF s, comma, last, s1, s2, s3, s4
<1>9. s1 \in Seq(Int) /\ Len(s1) = 13 /\ Has(s1, 1, lat)
  <2>1. Joined(s1, comma, lat)
    BY <1>4, Joins DEF s1
  <2> QED
    BY <1>4, <2>1 DEF Joined
<1>10. 1 + Len(lat) <= 13 /\ 1 \in Nat /\ 13 + Len(lon) <= 26 /\ 13 \in Nat /\ 26 \in Nat
  OBVIOUS
<1>11. s2 \in Seq(Int) /\ Len(s2) = 26 /\ Has(s2, 1, lat) /\ Has(s2, 13, lon)
  <2>1. Joined(s2, s1, lon)
    BY <1>9, Joins DEF s2
  <2>2. s2 \in Seq(Int) /\ Len(s2) = 26 /\ Has(s2, 13, lon)
    BY <1>9, <2>1 DEF Joined
  <2>3. 1 + Len(lat) <= Len(s1)
    BY <1>9, <1>10
  <2>4. Has(s2, 1, lat)
    BY <1>9, <1>10, <2>1, <2>3, JoinedKeeps
  <2> QED
    BY <2>2, <2>4
<1>12. Len(h) \in Nat
  BY LenProperties
<1>13. s3 \in Seq(Int) /\ Len(s3) = 26 + Len(h) /\ Has(s3, 1, lat) /\ Has(s3, 13, lon) /\ Has(s3, 26, h)
  <2>1. Joined(s3, s2, h)
    BY <1>11, Joins DEF s3
  <2>2. s3 \in Seq(Int) /\ Len(s3) = 26 + Len(h) /\ Has(s3, 26, h)
    BY <1>11, <2>1 DEF Joined
  <2>3. 1 + Len(lat) <= Len(s2)
    BY <1>10, <1>11
  <2>4. 13 + Len(lon) <= Len(s2)
    BY <1>10, <1>11
  <2>5. Has(s3, 1, lat)
    BY <1>10, <1>11, <2>1, <2>3, JoinedKeeps
  <2>6. Has(s3, 13, lon)
    BY <1>10, <1>11, <2>1, <2>4, JoinedKeeps
  <2> QED
    BY <2>2, <2>5, <2>6
<1>14. s4 \in Seq(Int) /\ Len(s4) = 27 + Len(h) /\ Has(s4, 1, lat) /\ Has(s4, 13, lon) /\ Has(s4, 26, h)
  <2>1. Joined(s4, s3, comma)
    BY <1>4, <1>13, Joins DEF s4
  <2>2. s4 \in Seq(Int) /\ Len(s4) = 27 + Len(h)
    BY <1>4, <1>12, <1>13, <2>1 DEF Joined
  <2>3. 1 + Len(lat) <= Len(s3)
    BY <1>10, <1>12, <1>13
  <2>4. 13 + Len(lon) <= Len(s3)
    BY <1>10, <1>12, <1>13
  <2>5. 26 + Len(h) <= Len(s3)
    BY <1>12, <1>13
  <2>6. Has(s4, 1, lat)
    BY <1>10, <1>13, <2>1, <2>3, JoinedKeeps
  <2>7. Has(s4, 13, lon)
    BY <1>10, <1>13, <2>1, <2>4, JoinedKeeps
  <2>8. Has(s4, 26, h)
    BY <1>10, <1>13, <2>1, <2>5, JoinedKeeps
  <2> QED
    BY <2>2, <2>6, <2>7, <2>8
<1> QED
  <2>1. Joined(s, s4, last)
    BY <1>3, <1>5, <1>14, Joins
  <2>2. s \in Seq(Int) /\ Len(s) = 48 + Len(h)
    BY <1>3, <1>12, <1>14, <2>1 DEF Joined
  <2>3. 1 + Len(lat) <= Len(s4)
    BY <1>10, <1>12, <1>14
  <2>4. 13 + Len(lon) <= Len(s4)
    BY <1>10, <1>12, <1>14
  <2>5. 26 + Len(h) <= Len(s4)
    BY <1>12, <1>14
  <2>6. Has(s, 1, lat)
    BY <1>10, <1>14, <2>1, <2>3, JoinedKeeps
  <2>7. Has(s, 13, lon)
    BY <1>10, <1>14, <2>1, <2>4, JoinedKeeps
  <2>8. Has(s, 26, h)
    BY <1>10, <1>14, <2>1, <2>5, JoinedKeeps
  <2>9. HoldsMeasured(s, lat, lon, h)
    BY <2>2, <2>6, <2>7, <2>8 DEF HoldsMeasured
  <2> QED
    BY <2>9 DEF s

LEMMA SentenceParts ==
    ASSUME NEW lat \in Seq(Int), Len(lat) = 12, NEW lon \in Seq(Int), Len(lon) = 13,
           NEW h \in Seq(Int), NEW measured, HoldsMeasured(measured, lat, lon, h)
    PROVE  HoldsParts(Skipped(1) \o ToFlag("A") \o measured \o Skipped(3), lat, lon, h)
<1> DEFINE one == Skipped(1)
           five == Skipped(5)
           comma == <<Code.comma>>
           ten == Skipped(10)
           flag == <<Code.comma, Code["A"]>>
           f1 == five \o comma
           f2 == f1 \o ten
           to == f2 \o flag
           before == one \o to
           s1 == before \o measured
           last == Skipped(3)
           s == s1 \o last
<1>1. one \in Seq(Int) /\ Len(one) = 1 /\ five \in Seq(Int) /\ Len(five) = 5
  <2>1. 1 \in Nat /\ 5 \in Nat
    OBVIOUS
  <2> QED
    BY <2>1, SkippedSeq
<1>2. ten \in Seq(Int) /\ Len(ten) = 10 /\ last \in Seq(Int) /\ Len(last) = 3
  <2>1. 10 \in Nat /\ 3 \in Nat
    OBVIOUS
  <2> QED
    BY <2>1, SkippedSeq
<1>3. comma \in Seq(Int) /\ Len(comma) = 1 /\ flag \in Seq(Int) /\ Len(flag) = 2
  BY DEF Code
<1>4. to = ToFlag("A")
  BY Zenon DEF ToFlag
<1>5. /\ measured \in Seq(Int) /\ Len(measured) = 48 + Len(h)
      /\ Has(measured, 1, lat) /\ Has(measured, 13, lon) /\ Has(measured, 26, h)
  BY DEF HoldsMeasured
<1>6. Len(h) \in Nat
  BY LenProperties
<1> HIDE DEF one, five, comma, ten, flag, f1, f2, to, before, s1, last, s
<1>7. f1 \in Seq(Int) /\ Len(f1) = 6
  <2>1. Joined(f1, five, comma)
    BY <1>1, <1>3, Joins DEF f1
  <2> QED
    BY <1>1, <1>3, <2>1 DEF Joined
<1>8. f2 \in Seq(Int) /\ Len(f2) = 16
  <2>1. Joined(f2, f1, ten)
    BY <1>2, <1>7, Joins DEF f2
  <2> QED
    BY <1>2, <1>7, <2>1 DEF Joined
<1>9. to \in Seq(Int) /\ Len(to) = 18
  <2>1. Joined(to, f2, flag)
    BY <1>3, <1>8, Joins DEF to
  <2> QED
    BY <1>3, <1>8, <2>1 DEF Joined
<1>10. before \in Seq(Int) /\ Len(before) = 19
  <2>1. Joined(before, one, to)
    BY <1>1, <1>9, Joins DEF before
  <2> QED
    BY <1>1, <1>9, <2>1 DEF Joined
<1>11. s1 \in Seq(Int) /\ Len(s1) = 67 + Len(h) /\ Has(s1, 19, measured)
  <2>1. Joined(s1, before, measured)
    BY <1>5, <1>10, Joins DEF s1
  <2> QED
    BY <1>5, <1>6, <1>10, <2>1 DEF Joined
<1>12. s \in Seq(Int) /\ Len(s) = 70 + Len(h) /\ Has(s, 19, measured)
  <2>1. Joined(s, s1, last)
    BY <1>2, <1>11, Joins DEF s
  <2>2. 19 \in Nat /\ 19 + Len(measured) <= Len(s1)
    BY <1>5, <1>6, <1>11
  <2>3. Has(s, 19, measured)
    BY <1>5, <1>11, <2>1, <2>2, JoinedKeeps
  <2> QED
    BY <1>2, <1>6, <1>11, <2>1, <2>3 DEF Joined
<1>13. Has(s, 20, lat)
  <2>1. 19 \in Nat /\ 1 \in Nat /\ 1 + Len(lat) <= Len(measured) /\ 19 + 1 = 20
    BY <1>5, <1>6
  <2>2. Has(s, 19 + 1, lat)
    BY <1>5, <1>12, <2>1, HasPart
  <2> QED
    BY <2>1, <2>2
<1>14. Has(s, 32, lon)
  <2>1. 19 \in Nat /\ 13 \in Nat /\ 13 + Len(lon) <= Len(measured) /\ 19 + 13 = 32
    BY <1>5, <1>6
  <2>2. Has(s, 19 + 13, lon)
    BY <1>5, <1>12, <2>1, HasPart
  <2> QED
    BY <2>1, <2>2
<1>15. Has(s, 45, h)
  <2>1. 19 \in Nat /\ 26 \in Nat /\ 26 + Len(h) <= Len(measured) /\ 19 + 26 = 45
    BY <1>5, <1>6
  <2>2. Has(s, 19 + 26, h)
    BY <1>5, <1>12, <2>1, HasPart
  <2> QED
    BY <2>1, <2>2
<1>16. HoldsParts(s, lat, lon, h)
  BY <1>12, <1>13, <1>14, <1>15 DEF HoldsParts
<1> QED
  BY <1>4, <1>16, Zenon DEF s, s1, before, one, last

(* atof of four characters, one of which is the point.                     *)
PointAt(t, p) ==
    /\ t \in Seq(Int) /\ Len(t) = 4
    /\ t[p] = Code.point /\ \A k \in 1..4 : k # p => t[k] # Code.point

Splits(t, p) ==
    \E after \in Seq(Int) :
        /\ Len(after) = 4 - p /\ \A i \in 1..4 - p : after[i] = t[p + i]
        /\ Thousandths(t) = 1000 * Value(t) + 10 ^ (p - 1) * Value(after)

LEMMA ThousandthsRead ==
    ASSUME NEW t, NEW p \in 2..4, PointAt(t, p)
    PROVE  Splits(t, p)
<1> DEFINE point == {k \in 1..Len(t) : t[k] = Code.point}
           after == SubSeq(t, p + 1, Len(t))
<1>0. t \in Seq(Int) /\ Len(t) = 4
  BY DEF PointAt
<1>1. point = {p}
  BY DEF PointAt
<1>2. point # {} /\ (CHOOSE k \in point : TRUE) = p
  BY <1>1
<1>3. after \in Seq(Int) /\ Len(after) = 4 - p /\ \A i \in 1..4 - p : after[i] = t[p + i]
  <2>1. \A i \in p + 1..4 : t[i] \in Int
    <3>1. \A i \in p + 1..4 : i \in 1..Len(t)
      BY <1>0
    <3>2. \A i \in 1..Len(t) : t[i] \in Int
      BY <1>0, ElementOfSeq
    <3> QED
      BY <3>1, <3>2
  <2>2. /\ SubSeq(t, p + 1, 4) \in Seq(Int)
        /\ Len(SubSeq(t, p + 1, 4)) = IF p + 1 <= 4 THEN 4 - (p + 1) + 1 ELSE 0
        /\ \A i \in 1..4 - (p + 1) + 1 : SubSeq(t, p + 1, 4)[i] = t[(p + 1) + i - 1]
    BY <2>1, SubSeqProperties
  <2>3. (IF p + 1 <= 4 THEN 4 - (p + 1) + 1 ELSE 0) = 4 - p /\ 4 - (p + 1) + 1 = 4 - p
    OBVIOUS
  <2>4. \A i \in 1..4 - p : (p + 1) + i - 1 = p + i
    OBVIOUS
  <2> QED
    BY <1>0, <2>2, <2>3, <2>4
<1>4. 3 - Len(after) = p - 1
  BY <1>3
<1>5. Thousandths(t) = 1000 * Value(t) + 10 ^ (3 - Len(after)) * Value(after)
  BY <1>2, ZenonT(40) DEF Thousandths
<1> HIDE DEF after
<1> QED
  BY <1>3, <1>4, <1>5 DEF Splits

HoldsHundredths(h, a, b, w) ==
    /\ h \in Seq(Int) /\ Len(h) = w + 3
    /\ \A i \in 1..w : h[i] = Zero + Digit(a, w - i)
    /\ h[w + 1] = Code.point
    /\ h[w + 2] = Zero + Digit(b, 1) /\ h[w + 3] = Zero + Digit(b, 0)

LEMMA HundredthsParts ==
    ASSUME NEW a \in Nat, a < 1000, NEW b \in Nat, b < 100, NEW w \in {1, 2, 3}
    PROVE  HoldsHundredths(Digits(a, w) \o <<Code.point>> \o Digits(b, 2), a, b, w)
<1> DEFINE h == Digits(a, w) \o <<Code.point>> \o Digits(b, 2)
           da == Digits(a, w)
           point == <<Code.point>>
           db == Digits(b, 2)
           ap == da \o point
<1>1. Spells(da, a, w)
  <2>1. a < 10000 /\ w \in 1..4
    OBVIOUS
  <2> QED
    BY <2>1, DigitsSeq
<1>2. Spells(db, b, 2)
  <2>1. b < 10000 /\ 2 \in 1..4
    OBVIOUS
  <2> QED
    BY <2>1, DigitsSeq
<1>3. point \in Seq(Int) /\ Len(point) = 1 /\ point[1] = Code.point
  BY DEF Code
<1>4. h = ap \o db
  OBVIOUS
<1> HIDE DEF da, point, db, ap, h
<1>5. da \in Seq(Int) /\ Len(da) = w /\ \A i \in 1..w : da[i] = Zero + Digit(a, w - i)
  BY <1>1 DEF Spells
<1>6. db \in Seq(Int) /\ Len(db) = 2 /\ db[1] = Zero + Digit(b, 1) /\ db[2] = Zero + Digit(b, 0)
  BY <1>2 DEF Spells
<1>7. /\ ap \in Seq(Int) /\ Len(ap) = w + 1
      /\ \A i \in 1..w : ap[i] = da[i]
      /\ ap[w + 1] = point[1]
  <2>1. Joined(ap, da, point)
    BY <1>3, <1>5, Joins DEF ap
  <2>2. ap \in Seq(Int) /\ Len(ap) = w + 1 /\ Has(ap, 0, da) /\ Has(ap, w, point)
    BY <1>3, <1>5, <2>1 DEF Joined
  <2>3. \A i \in 1..w : ap[0 + i] = da[i] /\ 0 + i = i
    BY <1>5, <2>2 DEF Has
  <2>4. ap[w + 1] = point[1]
    BY <1>3, <2>2 DEF Has
  <2> QED
    BY <2>2, <2>3, <2>4
<1>8. /\ h \in Seq(Int) /\ Len(h) = w + 3
      /\ \A i \in 1..w + 1 : h[i] = ap[i]
      /\ h[w + 2] = db[1] /\ h[w + 3] = db[2]
  <2>1. Joined(h, ap, db)
    BY <1>4, <1>6, <1>7, Joins
  <2> DEFINE e == w + 1
  <2>2. e \in Nat /\ Len(ap) = e /\ e + 1 = w + 2 /\ e + 2 = w + 3
    BY <1>7
  <2> HIDE DEF e
  <2>3. h \in Seq(Int) /\ Len(h) = w + 3 /\ Has(h, 0, ap) /\ Has(h, e, db)
    BY <1>6, <1>7, <2>1, <2>2 DEF Joined
  <2>4. \A i \in 1..e : h[i] = ap[i]
    <3>1. \A i \in 1..e : h[0 + i] = ap[i]
      BY <2>2, <2>3 DEF Has
    <3>2. \A i \in 1..e : 0 + i = i
      OBVIOUS
    <3> QED
      BY <3>1, <3>2
  <2>5. h[e + 1] = db[1] /\ h[e + 2] = db[2]
    <3>1. 1 \in 1..Len(db) /\ 2 \in 1..Len(db)
      BY <1>6
    <3> QED
      BY <2>3, <3>1 DEF Has
  <2>6. h[w + 2] = db[1] /\ h[w + 3] = db[2]
    BY <2>2, <2>5
  <2> QED
    BY <2>3, <2>4, <2>6 DEF e
<1> QED
  <2>1. \A i \in 1..w : i \in 1..w + 1
    OBVIOUS
  <2>2. w + 1 \in 1..w + 1
    OBVIOUS
  <2> QED
    <3>1. HoldsHundredths(h, a, b, w)
      BY <1>3, <1>5, <1>6, <1>7, <1>8, <2>1, <2>2 DEF HoldsHundredths
    <3> QED
      BY <3>1 DEF h

LEMMA HundredthsHeld ==
    ASSUME NEW n \in Nat, n \div 100 < 1000
    PROVE  HoldsHundredths(Hundredths(n), n \div 100, n % 100, Wide(n \div 100))
<1> DEFINE a == n \div 100
           b == n % 100
           w == Wide(a)
           h == Hundredths(n)
<1>1. a \in Nat /\ a < 1000 /\ b \in Nat /\ b < 100
  OBVIOUS
<1>2. h = Digits(a, w) \o <<Code.point>> \o Digits(b, 2)
  BY DEF Hundredths
<1>3. w \in {1, 2, 3}
  BY DEF Wide
<1> HIDE DEF a, b, w, h
<1>4. HoldsHundredths(h, a, b, w)
  BY <1>1, <1>2, <1>3, HundredthsParts
<1> QED
  BY <1>4 DEF a, b, w, h

(* A speed is read up to the fourth character.                             *)
SpeedIs(v, n) == 10 * n - v >= 0 /\ 10 * n - v < IF n < 10000 THEN 100 ELSE 1000

LEMMA SpeedRead ==
    ASSUME NEW n \in Nat, n \div 100 < 1000,
           NEW s \in Seq(Int), NEW at \in Nat, at + Len(Hundredths(n)) <= Len(s),
           Has(s, at, Hundredths(n))
    PROVE  SpeedIs(Thousandths(Chars(s, at, 4)), n)
<1> DEFINE a == n \div 100
           b == n % 100
           w == Wide(a)
           h == Hundredths(n)
           t == Chars(s, at, 4)
           v == Thousandths(t)
           a2 == Digit(a, 2)
           a1 == Digit(a, 1)
           a0 == Digit(a, 0)
           b1 == Digit(b, 1)
           b0 == Digit(b, 0)
<1>1. a \in Nat /\ a < 1000 /\ b \in Nat /\ b < 100
  OBVIOUS
<1>2. n = 100 * a + b
  OBVIOUS
<1>3. HoldsHundredths(h, a, b, w)
  BY HundredthsHeld
<1> HIDE DEF a, b, h, t, v
<1>4. /\ w \in {1, 2, 3} /\ (w = 1 => a < 10) /\ (w = 2 => a < 100)
      /\ (w = 3 => a >= 100)
  BY <1>1 DEF Wide
<1> HIDE DEF w
<1>5. /\ h \in Seq(Int) /\ Len(h) = w + 3
      /\ \A i \in 1..w : h[i] = Zero + Digit(a, w - i)
      /\ h[w + 1] = Code.point
      /\ h[w + 2] = Zero + b1 /\ h[w + 3] = Zero + b0
  BY <1>3 DEF HoldsHundredths
<1>6. /\ a = 100 * a2 + 10 * a1 + a0
      /\ a2 \in 0..9 /\ a1 \in 0..9 /\ a0 \in 0..9
      /\ a < 100 => a = 10 * a1 + a0
      /\ a < 10 => a = a0
  BY <1>1, SmallNumber
<1>7. b = 10 * b1 + b0 /\ b1 \in 0..9 /\ b0 \in 0..9
  BY <1>1, SmallNumber
<1>8. t \in Seq(Int) /\ Len(t) = 4 /\ \A i \in 1..4 : t[i] = h[i]
  <2>0. Len(h) = w + 3 /\ w \in Nat /\ w >= 1 /\ at + Len(h) <= Len(s) /\ Len(s) \in Nat
    BY <1>4, <1>5, LenProperties DEF h
  <2>1. at + 4 <= Len(s) /\ \A i \in 1..4 : i \in 1..Len(h)
    BY <2>0
  <2>2. Taken(t, s, at, 4)
    BY <2>1, CharsTaken DEF t
  <2>3. \A i \in 1..4 : s[at + i] = h[i]
    BY <2>1 DEF Has, h
  <2> QED
    BY <2>2, <2>3 DEF Taken
<1>9. /\ w = 1 => h[1] = Zero + a0
      /\ w = 2 => h[1] = Zero + a1 /\ h[2] = Zero + a0
      /\ w = 3 => h[1] = Zero + a2 /\ h[2] = Zero + a1 /\ h[3] = Zero + a0
  <2>1. CASE w = 1
    <3>1. h[1] = Zero + Digit(a, 1 - 1)
      BY <1>5, <2>1
    <3> QED
      BY <2>1, <3>1
  <2>2. CASE w = 2
    <3>1. h[1] = Zero + Digit(a, 2 - 1) /\ h[2] = Zero + Digit(a, 2 - 2)
      BY <1>5, <2>2
    <3> QED
      BY <2>2, <3>1
  <2>3. CASE w = 3
    <3>1. /\ h[1] = Zero + Digit(a, 3 - 1) /\ h[2] = Zero + Digit(a, 3 - 2)
          /\ h[3] = Zero + Digit(a, 3 - 3)
      BY <1>5, <2>3
    <3> QED
      BY <2>3, <3>1
  <2> QED
    BY <1>4, <2>1, <2>2, <2>3
<1> HIDE DEF a2, a1, a0, b1, b0
<1>10. \A k \in 1..4 : k = 1 \/ k = 2 \/ k = 3 \/ k = 4
  OBVIOUS
<1>11. CASE w = 1
  <2>1. t[1] = Zero + a0 /\ t[2] = Code.point /\ t[3] = Zero + b1 /\ t[4] = Zero + b0
    BY <1>5, <1>8, <1>9, <1>11
  <2>2. /\ IsDigit(t[1]) /\ ~ IsDigit(t[2]) /\ IsDigit(t[3]) /\ IsDigit(t[4])
        /\ t[1] - Zero = a0 /\ t[3] - Zero = b1 /\ t[4] - Zero = b0
    BY <1>6, <1>7, <2>1 DEF IsDigit, Zero, Code
  <2>3. t[1] # Code.point /\ t[3] # Code.point /\ t[4] # Code.point
    BY <2>2, DigitCode
  <2>4. Splits(t, 2)
    <3>1. PointAt(t, 2) /\ 2 \in 2..4
      BY <1>8, <1>10, <2>1, <2>3 DEF PointAt
    <3> QED
      BY <3>1, ThousandthsRead
  <2>5. PICK after \in Seq(Int) :
            /\ Len(after) = 4 - 2 /\ \A i \in 1..4 - 2 : after[i] = t[2 + i]
            /\ v = 1000 * Value(t) + 10 ^ (2 - 1) * Value(after)
    BY <2>4, Zenon DEF Splits, v
  <2>6. Len(after) \in 2..6 /\ ~ Len(after) > 2 /\ after[1] = t[3] /\ after[2] = t[4]
    BY <2>5
  <2>7. Value(after) = 10 * b1 + b0
    <3>1. IsDigit(after[1]) /\ IsDigit(after[2]) /\ (Len(after) > 2 => ~ IsDigit(after[3]))
      BY <2>2, <2>6
    <3>2. Value(after) = 10 * (after[1] - Zero) + (after[2] - Zero)
      BY <2>6, <3>1, ValueOfTwo
    <3> QED
      BY <2>2, <2>6, <3>2
  <2>8. Value(t) = a0
    <3>1. Len(t) \in 1..6 /\ (Len(t) > 1 => ~ IsDigit(t[2]))
      BY <1>8, <2>2
    <3>2. Value(t) = t[1] - Zero
      BY <2>2, <3>1, ValueOfOne
    <3> QED
      BY <2>2, <3>2
  <2>9. v = 1000 * a0 + 10 * (10 * b1 + b0)
    <3>1. 10 ^ (2 - 1) = 10
      OBVIOUS
    <3> QED
      BY <2>5, <2>7, <2>8, <3>1
  <2>10. v = 10 * n
    BY <1>1, <1>2, <1>4, <1>6, <1>7, <1>11, <2>9
  <2>11. 10 * n - v = 0
    BY <2>10
  <2> QED
    BY <2>11 DEF v, t, SpeedIs
<1>12. CASE w = 2
  <2>1. t[1] = Zero + a1 /\ t[2] = Zero + a0 /\ t[3] = Code.point /\ t[4] = Zero + b1
    BY <1>5, <1>8, <1>9, <1>12
  <2>2. /\ IsDigit(t[1]) /\ IsDigit(t[2]) /\ ~ IsDigit(t[3]) /\ IsDigit(t[4])
        /\ t[1] - Zero = a1 /\ t[2] - Zero = a0 /\ t[4] - Zero = b1
    BY <1>6, <1>7, <2>1 DEF IsDigit, Zero, Code
  <2>3. t[1] # Code.point /\ t[2] # Code.point /\ t[4] # Code.point
    BY <2>2, DigitCode
  <2>4. Splits(t, 3)
    <3>1. PointAt(t, 3) /\ 3 \in 2..4
      BY <1>8, <1>10, <2>1, <2>3 DEF PointAt
    <3> QED
      BY <3>1, ThousandthsRead
  <2>5. PICK after \in Seq(Int) :
            /\ Len(after) = 4 - 3 /\ \A i \in 1..4 - 3 : after[i] = t[3 + i]
            /\ v = 1000 * Value(t) + 10 ^ (3 - 1) * Value(after)
    BY <2>4, Zenon DEF Splits, v
  <2>6. Len(after) \in 1..6 /\ ~ Len(after) > 1 /\ after[1] = t[4]
    BY <2>5
  <2>7. Value(after) = b1
    <3>1. IsDigit(after[1]) /\ (Len(after) > 1 => ~ IsDigit(after[2]))
      BY <2>2, <2>6
    <3>2. Value(after) = after[1] - Zero
      BY <2>6, <3>1, ValueOfOne
    <3> QED
      BY <2>2, <2>6, <3>2
  <2>8. Value(t) = 10 * a1 + a0
    <3>1. Len(t) \in 2..6 /\ (Len(t) > 2 => ~ IsDigit(t[3]))
      BY <1>8, <2>2
    <3>2. Value(t) = 10 * (t[1] - Zero) + (t[2] - Zero)
      BY <2>2, <3>1, ValueOfTwo
    <3> QED
      BY <2>2, <3>2
  <2>9. v = 1000 * (10 * a1 + a0) + 100 * b1
    <3>1. 10 ^ (3 - 1) = 100
      OBVIOUS
    <3> QED
      BY <2>5, <2>7, <2>8, <3>1
  <2>10. 10 * n - v = 10 * b0
    BY <1>1, <1>2, <1>4, <1>6, <1>7, <1>12, <2>9
  <2>11. 10 * n - v >= 0 /\ 10 * n - v < 100
    BY <1>7, <2>10
  <2>12. 10 * n - v >= 0 /\ 10 * n - v < IF n < 10000 THEN 100 ELSE 1000
    BY <1>7, <2>10, <2>11
  <2> QED
    BY <2>12 DEF v, t, SpeedIs
<1>13. CASE w = 3
  <2>1. t[1] = Zero + a2 /\ t[2] = Zero + a1 /\ t[3] = Zero + a0 /\ t[4] = Code.point
    BY <1>5, <1>8, <1>9, <1>13
  <2>2. /\ IsDigit(t[1]) /\ IsDigit(t[2]) /\ IsDigit(t[3]) /\ ~ IsDigit(t[4])
        /\ t[1] - Zero = a2 /\ t[2] - Zero = a1 /\ t[3] - Zero = a0
    BY <1>6, <1>7, <2>1 DEF IsDigit, Zero, Code
  <2>3. t[1] # Code.point /\ t[2] # Code.point /\ t[3] # Code.point
    BY <2>2, DigitCode
  <2>4. Splits(t, 4)
    <3>1. PointAt(t, 4) /\ 4 \in 2..4
      BY <1>8, <1>10, <2>1, <2>3 DEF PointAt
    <3> QED
      BY <3>1, ThousandthsRead
  <2>5. PICK after \in Seq(Int) :
            /\ Len(after) = 4 - 4 /\ \A i \in 1..4 - 4 : after[i] = t[4 + i]
            /\ v = 1000 * Value(t) + 10 ^ (4 - 1) * Value(after)
    BY <2>4, Zenon DEF Splits, v
  <2>6. Value(after) = 0
    <3>1. Len(after) = 0
      BY <2>5
    <3> QED
      BY <3>1, ValueOfNone
  <2>7. Value(t) = 100 * a2 + 10 * a1 + a0
    <3>1. Len(t) \in 3..6 /\ (Len(t) > 3 => ~ IsDigit(t[4]))
      BY <1>8, <2>2
    <3>2. Value(t) = 100 * (t[1] - Zero) + 10 * (t[2] - Zero) + (t[3] - Zero)
      BY <2>2, <3>1, ValueOfThree
    <3> QED
      BY <2>2, <3>2
  <2>8. v = 1000 * a
    <3>1. 10 ^ (4 - 1) = 1000
      OBVIOUS
    <3> QED
      BY <1>6, <2>5, <2>6, <2>7, <3>1
  <2>9. 10 * n - v = 10 * b
    BY <1>1, <1>2, <2>8
  <2>10. 10 * b >= 0 /\ 10 * b < 1000 /\ ~ n < 10000
    BY <1>1, <1>2, <1>4, <1>13
  <2>11. 10 * n - v >= 0 /\ 10 * n - v < IF n < 10000 THEN 100 ELSE 1000
    BY <2>9, <2>10
  <2> QED
    BY <2>11 DEF v, t, SpeedIs
<1> QED
  BY <1>4, <1>11, <1>12, <1>13

(* What the numbers of a line are, as the lemmas need it.                  *)
InBounds(r) ==
    /\ r.latDegrees \in Nat /\ r.latDegrees < 100
    /\ r.lonDegrees \in Nat /\ r.lonDegrees < 1000
    /\ r.latMinutes \in Nat /\ r.latMinutes < 100
    /\ r.lonMinutes \in Nat /\ r.lonMinutes < 100
    /\ r.latFraction \in Nat /\ r.latFraction < 10000
    /\ r.lonFraction \in Nat /\ r.lonFraction < 10000
    /\ r.speed \in Nat /\ r.speed \div 100 < 1000
    /\ r.ns \in {"N", "S"} /\ r.ew \in {"E", "W"}

LEMMA LineNumbers ==
    ASSUME NEW r \in Reading
    PROVE  InBounds(r)
<1>1. /\ r.latDegrees \in 0..90 /\ r.latMinutes \in 0..59 /\ r.latFraction \in Fraction
      /\ r.lonDegrees \in 0..180 /\ r.lonMinutes \in 0..59 /\ r.lonFraction \in Fraction
      /\ r.ns \in {"N", "S"} /\ r.ew \in {"E", "W"} /\ r.speed \in Speed
  BY DEF Reading
<1>2. \A n \in Fraction : n \in Nat /\ n < 10000
  BY DEF Fraction
<1>3. \A n \in Speed : n \in Nat /\ n \div 100 < 1000
  BY DEF Speed
<1> QED
  BY <1>1, <1>2, <1>3 DEF InBounds

(* The hemisphere gives the sign.                                          *)
LEMMA SignRead ==
    ASSUME NEW u \in Int, NEW positive \in {"N", "E"}, NEW negative \in {"S", "W"},
           NEW hemisphere \in {positive, negative}
    PROVE  Signed(u, Code[hemisphere], negative)
                = (IF hemisphere = negative THEN -1 ELSE 1) * u
<1>1. positive # negative /\ Code[positive] # Code[negative]
  BY DEF Code
<1>2. CASE hemisphere = negative
  <2>1. Signed(u, Code[hemisphere], negative) = -u
    BY <1>2 DEF Signed
  <2>2. (IF hemisphere = negative THEN -1 ELSE 1) = -1
    BY <1>2
  <2>3. (-1) * u = -u
    OBVIOUS
  <2> QED
    BY <2>1, <2>2, <2>3
<1>3. CASE hemisphere = positive
  <2>1. Signed(u, Code[hemisphere], negative) = u
    BY <1>1, <1>3 DEF Signed
  <2>2. (IF hemisphere = negative THEN -1 ELSE 1) = 1
    BY <1>1, <1>3
  <2>3. 1 * u = u
    OBVIOUS
  <2> QED
    BY <2>1, <2>2, <2>3
<1> QED
  BY <1>2, <1>3

(* One line, with the parts that it is made of.                            *)
LEMMA LineRead ==
    ASSUME NEW r \in Reading
    PROVE  ReadAs(gps_parse(Sentence(r)), r)
<1> DEFINE s == Sentence(r)
           lat == Angled(r.latDegrees, 2, r.latMinutes, r.latFraction, r.ns)
           lon == Angled(r.lonDegrees, 3, r.lonMinutes, r.lonFraction, r.ew)
           h == Hundredths(r.speed)
           latitude == Units(r.latDegrees, r.latMinutes, r.latFraction)
           longitude == Units(r.lonDegrees, r.lonMinutes, r.lonFraction)
           data == gps_parse(s)
<1>1. /\ r.latDegrees \in Nat /\ r.latDegrees < 100
      /\ r.lonDegrees \in Nat /\ r.lonDegrees < 1000
      /\ r.latMinutes \in Nat /\ r.latMinutes < 100
      /\ r.lonMinutes \in Nat /\ r.lonMinutes < 100
      /\ r.latFraction \in Nat /\ r.latFraction < 10000
      /\ r.lonFraction \in Nat /\ r.lonFraction < 10000
      /\ r.speed \in Nat /\ r.speed \div 100 < 1000
  BY LineNumbers DEF InBounds
<1>2. r.ns \in {"N", "S"} /\ r.ew \in {"E", "W"}
  BY LineNumbers DEF InBounds
<1>3. /\ s = Skipped(1) \o ToFlag("A") \o Measured(r) \o Skipped(3)
      /\ Measured(r) = <<Code.comma>> \o lat \o lon \o h \o <<Code.comma>> \o Skipped(21)
  BY Zenon DEF Sentence, Measured
<1>4. /\ data.latitude = Signed(Angle(s, 20, 2), s[31], "S")
      /\ data.longitude = Signed(Angle(s, 32, 3), s[44], "W")
      /\ data.speed = Thousandths(Chars(s, 45, 4))
  BY DEF gps_parse, LATITUDE_OFFSET, NS_OFFSET, LONGITUDE_OFFSET, EW_OFFSET, SPEED_OFFSET
<1>5. Position(r) = [latitude |-> (IF r.ns = "S" THEN -1 ELSE 1) * latitude,
                     longitude |-> (IF r.ew = "W" THEN -1 ELSE 1) * longitude]
  BY DEF Position
<1>6. /\ HoldsAngle(lat, r.latDegrees, 2, r.latMinutes, r.latFraction, r.ns)
      /\ HoldsAngle(lon, r.lonDegrees, 3, r.lonMinutes, r.lonFraction, r.ew)
  <2>1. r.latDegrees < 1000 /\ 2 \in {2, 3} /\ 3 \in {2, 3}
    BY <1>1
  <2>2. r.ns \in {"N", "S", "E", "W"} /\ r.ew \in {"N", "S", "E", "W"}
    BY <1>2
  <2> QED
    BY <1>1, <2>1, <2>2, AngledParts
<1>7. h \in Seq(Int)
  <2>1. HoldsHundredths(h, r.speed \div 100, r.speed % 100, Wide(r.speed \div 100))
    BY <1>1, HundredthsHeld
  <2> QED
    BY <2>1 DEF HoldsHundredths
<1> HIDE DEF s, lat, lon, h, data
<1>8. /\ lat \in Seq(Int) /\ Len(lat) = 12 /\ lon \in Seq(Int) /\ Len(lon) = 13
  BY <1>6 DEF HoldsAngle
<1>9. /\ s \in Seq(Int) /\ Len(s) = 70 + Len(h)
      /\ Has(s, 20, lat) /\ Has(s, 32, lon) /\ Has(s, 45, h)
  <2>1. HoldsParts(s, lat, lon, h)
    <3>1. HoldsMeasured(Measured(r), lat, lon, h)
      BY <1>3, <1>7, <1>8, MeasuredParts
    <3> QED
      BY <1>3, <1>7, <1>8, <3>1, SentenceParts
  <2> QED
    BY <2>1 DEF HoldsParts
<1>10. /\ 20 \in Nat /\ 20 + 13 <= Len(s) /\ 32 \in Nat /\ 32 + 13 <= Len(s)
       /\ 45 \in Nat /\ 45 + Len(h) <= Len(s)
  <2>1. Len(h) \in Nat
    BY <1>7, LenProperties
  <2> QED
    BY <1>9, <2>1
<1>11. Angle(s, 20, 2) = latitude /\ s[31] = Code[r.ns]
  <2>1. r.ns \in {"N", "S", "E", "W"}
    BY <1>2
  <2>2. 2 \in {2, 3} /\ r.latDegrees < 1000 /\ (2 = 2 => r.latDegrees < 100)
    BY <1>1
  <2>3. s \in Seq(Int) /\ Has(s, 20, Angled(r.latDegrees, 2, r.latMinutes, r.latFraction, r.ns))
    BY <1>9 DEF lat
  <2>4. AngleIs(s, 20, 2, r.latDegrees, r.latMinutes, r.latFraction, r.ns)
    <3> DEFINE degrees == r.latDegrees
               minutes == r.latMinutes
               fraction == r.latFraction
               hemisphere == r.ns
               at == 20
               width == 2
    <3>1. /\ degrees \in Nat /\ degrees < 1000 /\ width \in {2, 3} /\ (width = 2 => degrees < 100)
          /\ minutes \in Nat /\ minutes < 100 /\ fraction \in Nat /\ fraction < 10000
          /\ hemisphere \in {"N", "S", "E", "W"}
      BY <1>1, <2>1, <2>2
    <3>2. s \in Seq(Int) /\ at \in Nat /\ at + 13 <= Len(s)
      BY <1>10, <2>3
    <3>3. Has(s, at, Angled(degrees, width, minutes, fraction, hemisphere))
      BY <2>3
    <3> HIDE DEF degrees, minutes, fraction, hemisphere, at, width
    <3>4. AngleIs(s, at, width, degrees, minutes, fraction, hemisphere)
      BY <3>1, <3>2, <3>3, AngleRead, SMTT(40)
    <3> QED
      BY <3>4 DEF degrees, minutes, fraction, hemisphere, at, width
  <2>5. 600000 * r.latDegrees + (10000 * r.latMinutes + r.latFraction) = latitude
    BY <1>1, SMT DEF Units
  <2>6. 20 + 2 + 9 = 31
    OBVIOUS
  <2> QED
    BY <2>4, <2>5, <2>6, SMT DEF AngleIs
<1>12. Angle(s, 32, 3) = longitude /\ s[44] = Code[r.ew]
  <2>1. r.ew \in {"N", "S", "E", "W"}
    BY <1>2
  <2>2. 3 \in {2, 3} /\ r.lonDegrees < 1000 /\ (3 = 2 => r.lonDegrees < 100)
    BY <1>1
  <2>3. s \in Seq(Int) /\ Has(s, 32, Angled(r.lonDegrees, 3, r.lonMinutes, r.lonFraction, r.ew))
    BY <1>9 DEF lon
  <2>4. AngleIs(s, 32, 3, r.lonDegrees, r.lonMinutes, r.lonFraction, r.ew)
    <3> DEFINE degrees == r.lonDegrees
               minutes == r.lonMinutes
               fraction == r.lonFraction
               hemisphere == r.ew
               at == 32
               width == 3
    <3>1. /\ degrees \in Nat /\ degrees < 1000 /\ width \in {2, 3} /\ (width = 2 => degrees < 100)
          /\ minutes \in Nat /\ minutes < 100 /\ fraction \in Nat /\ fraction < 10000
          /\ hemisphere \in {"N", "S", "E", "W"}
      BY <1>1, <2>1, <2>2
    <3>2. s \in Seq(Int) /\ at \in Nat /\ at + 13 <= Len(s)
      BY <1>10, <2>3
    <3>3. Has(s, at, Angled(degrees, width, minutes, fraction, hemisphere))
      BY <2>3
    <3> HIDE DEF degrees, minutes, fraction, hemisphere, at, width
    <3>4. AngleIs(s, at, width, degrees, minutes, fraction, hemisphere)
      BY <3>1, <3>2, <3>3, AngleRead, SMTT(40)
    <3> QED
      BY <3>4 DEF degrees, minutes, fraction, hemisphere, at, width
  <2>5. 600000 * r.lonDegrees + (10000 * r.lonMinutes + r.lonFraction) = longitude
    BY <1>1, SMT DEF Units
  <2>6. 32 + 3 + 9 = 44
    OBVIOUS
  <2> QED
    BY <2>4, <2>5, <2>6, SMT DEF AngleIs
<1>13. latitude \in Int /\ longitude \in Int
  BY <1>1, SMT DEF Units
<1> HIDE DEF latitude, longitude
<1>14. data.latitude = (IF r.ns = "S" THEN -1 ELSE 1) * latitude
  BY <1>2, <1>4, <1>11, <1>13, SignRead
<1>15. data.longitude = (IF r.ew = "W" THEN -1 ELSE 1) * longitude
  BY <1>2, <1>4, <1>12, <1>13, SignRead
<1>16. [latitude |-> data.latitude, longitude |-> data.longitude] = Position(r)
  BY <1>5, <1>14, <1>15
<1>17. /\ 10 * r.speed - data.speed >= 0
       /\ 10 * r.speed - data.speed < IF r.speed < 10000 THEN 100 ELSE 1000
  <2>1. s \in Seq(Int) /\ Has(s, 45, Hundredths(r.speed)) /\ 45 + Len(Hundredths(r.speed)) <= Len(s)
    BY <1>9, <1>10 DEF h
  <2>2. SpeedIs(Thousandths(Chars(s, 45, 4)), r.speed)
    <3> DEFINE n == r.speed
               at == 45
    <3>1. n \in Nat /\ n \div 100 < 1000 /\ at \in Nat
      BY <1>1
    <3>2. s \in Seq(Int) /\ Has(s, at, Hundredths(n)) /\ at + Len(Hundredths(n)) <= Len(s)
      BY <2>1
    <3> HIDE DEF n, at
    <3>3. SpeedIs(Thousandths(Chars(s, at, 4)), n)
      BY <3>1, <3>2, SpeedRead
    <3> QED
      BY <3>3 DEF n, at
  <2> QED
    BY <1>4, <2>2 DEF SpeedIs
<1> QED
  BY <1>16, <1>17 DEF ReadAs, data, s

(* gps.cpp:167: for every line that the GPS can send, what gps_parse takes *)
(* from the fixed offsets is the position that the line says, and its      *)
(* speed but for the digits after the fourth character.                    *)
THEOREM EveryLineIsRead == \A r \in Reading : ReadAs(gps_parse(Sentence(r)), r)
  BY LineRead

(* What the line buffer holds when it is found valid: one line, whole.     *)
LEMMA BufferedIsSentence ==
    ASSUME NEW l \in Line, Valid(l), NEW said \in Sayings
    PROVE  Buffered(said) = Sentence(said[l])
<1>1. \A i \in 1..3 : nmea[i] = [line |-> l, part |-> i + 1]
  BY DEF Valid, ChecksumGood, Star
<1>2. l \in Fix
  BY DEF Valid, DataValid
<1>3. /\ nmea[1] = [line |-> l, part |-> 2]
      /\ nmea[2] = [line |-> l, part |-> 3]
      /\ nmea[3] = [line |-> l, part |-> 4]
  BY <1>1
<1>4. /\ Characters(nmea[1], said) = ToFlag("A")
      /\ Characters(nmea[2], said) = Measured(said[l])
      /\ Characters(nmea[3], said) = Skipped(3)
  BY <1>2, <1>3 DEF Characters, Flag, Star
<1> QED
  BY <1>4, Zenon DEF Buffered, Sentence

(* gps.cpp:167: and so it is of the line that is in the buffer when that   *)
(* is found valid, whatever it and the others say.                         *)
THEOREM PositionsAreRead == Spec => []PositionIsRead
<1>1. PositionIsRead
  <2> SUFFICES ASSUME NEW l \in Line, Valid(l), NEW said \in Sayings
               PROVE  ReadAs(gps_parse(Buffered(said)), said[l])
    BY Zenon DEF PositionIsRead
  <2>1. said[l] \in Reading
    BY ReceiverAssumption
  <2> QED
    BY <2>1, BufferedIsSentence, EveryLineIsRead, Zenon
<1> QED
  BY <1>1, PTL

=============================================================================
