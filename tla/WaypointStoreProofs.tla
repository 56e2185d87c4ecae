------------------------- MODULE WaypointStoreProofs -------------------------
(***************************************************************************)
(* Proofs about WaypointStore: for any number of waypoints that fits the   *)
(* count byte, any message texts, and any sequence of sessions and power   *)
(* failures.                                                               *)
(***************************************************************************)
EXTENDS WaypointStore, SequenceTheorems, TLAPS

(* The invariant the proofs go by: where a session stands is only          *)
(* preserved together with the types, and the other way around.            *)
Inv == TypeOK /\ SessionConsistent

(* A count is a byte, and an accepted one is at most MaxWaypoints.         *)
LEMMA CountIsByte ==
    ASSUME NEW t \in Text
    PROVE  CountOf(t) \in Byte /\ (~ TooMany(t) => CountOf(t) \in 0..MaxWaypoints)
BY ConstantsAssumption DEF CountOf, TooMany, Byte

(* The address of the i-th float of a path there is room for is a word.    *)
LEMMA WordAddress ==
    ASSUME NEW i \in 1..2 * MaxWaypoints
    PROVE  FloatSize * i \in Word
<1>1. i - 1 \in 0..(2 * MaxWaypoints - 1)
  BY ConstantsAssumption
<1>2. FloatSize * i = PathBase + FloatSize * (i - 1)
  BY DEF FloatSize, PathBase
<1> QED BY <1>1, <1>2 DEF Word, WordAddresses

(* What Conclude makes of k floats written out of 2 * n.                   *)
LEMMA ConcludeStatus ==
    ASSUME NEW n \in 0..MaxWaypoints, NEW k \in 0..2 * n, NEW w,
           w.ptr = PathBase + FloatSize * k, w.count = n, Conclude(w)
    PROVE  /\ writer' = w
           /\ pc' = IF k = 2 * n THEN "validate" ELSE "ready"
           /\ result' = result
<1>1. (w.ptr - PathBase) \div 8 = k \div 2
  BY ConstantsAssumption DEF PathBase, FloatSize
<1>2. k \div 2 \in 0..n /\ (k \div 2 = n <=> k = 2 * n) /\ n \in 0..255
  BY ConstantsAssumption
<1>3. Written(w) = k \div 2
  BY <1>1, <1>2, ConstantsAssumption DEF Written
<1> QED BY <1>2, <1>3 DEF Conclude

(* Init establishes the invariant.                                         *)
LEMMA InitInv == Init => Inv
<1> SUFFICES ASSUME Init PROVE Inv
  OBVIOUS
<1>1. TypeOK
  BY ConstantsAssumption DEF Init, Blank, TypeOK, Byte, INVALID, PathBase
<1>2. SessionConsistent
  BY DEF Init, SessionConsistent, InSession, Storing
<1> QED BY <1>1, <1>2 DEF Inv

-----------------------------------------------------------------------------
(* One lemma for each step that changes the EEPROM or the session          *)

LEMMA StartInv == Inv /\ Start => Inv'
<1> SUFFICES ASSUME Inv, Start PROVE Inv'
  OBVIOUS
<1>1. TypeOK'
  BY DEF Inv, TypeOK, Start
<1>2. SessionConsistent'
  BY DEF Start, SessionConsistent, InSession, Storing, Inv, TypeOK
<1> QED BY <1>1, <1>2 DEF Inv

LEMMA RejectCountInv == ASSUME NEW t \in Text PROVE Inv /\ RejectCount(t) => Inv'
<1> SUFFICES ASSUME Inv, RejectCount(t) PROVE Inv'
  OBVIOUS
<1>1. TypeOK'
  BY DEF Inv, TypeOK, RejectCount
<1>2. SessionConsistent'
  BY DEF RejectCount, SessionConsistent, InSession, Storing
<1> QED BY <1>1, <1>2 DEF Inv

LEMMA AcceptCountInv == ASSUME NEW t \in Text PROVE Inv /\ AcceptCount(t) => Inv'
<1> SUFFICES ASSUME Inv, AcceptCount(t) PROVE Inv'
  OBVIOUS
<1>1. TypeOK'
  BY DEF Inv, TypeOK, AcceptCount
<1>2. received = <<>>
  BY DEF Inv, AcceptCount, SessionConsistent
<1>3. Len(received') = 1 /\ Field' = t
  BY <1>2 DEF AcceptCount, Field, Inv, TypeOK
<1>4. SessionConsistent'
  BY <1>3 DEF AcceptCount, SessionConsistent, InSession, Storing, TooMany, CountOf
<1> QED BY <1>1, <1>4 DEF Inv

LEMMA AcceptCoordinateInv ==
    ASSUME NEW t \in Text PROVE Inv /\ AcceptCoordinate(t) => Inv'
<1> SUFFICES ASSUME Inv, AcceptCoordinate(t) PROVE Inv'
  OBVIOUS
<1>1. writer.ptr \in Word
  <2>1. /\ Storing /\ pc = "ready" /\ received \in Seq(Text) /\ Len(received) >= 1
        /\ writer.count = CountOf(received[1]) /\ ~ TooMany(received[1])
        /\ Stored \in 0..2 * writer.count /\ Stored # 2 * writer.count
        /\ writer.ptr = PathBase + FloatSize * Stored
    BY DEF AcceptCoordinate, Storing, Inv, TypeOK, SessionConsistent
  <2>2. writer.count \in 0..MaxWaypoints
    BY <2>1, ElementOfSeq, CountIsByte
  <2>3. Stored + 1 \in 1..2 * MaxWaypoints /\ writer.ptr = FloatSize * (Stored + 1)
    BY <2>1, <2>2, ConstantsAssumption DEF PathBase, FloatSize
  <2> QED BY <2>3, WordAddress
<1>2. TypeOK'
  BY <1>1 DEF Inv, TypeOK, AcceptCoordinate
<1>3. Storing /\ Storing'
  BY DEF AcceptCoordinate, Storing
<1>4. Stored' = Stored
  BY DEF AcceptCoordinate, Stored, Inv, TypeOK
<1>5. \A i \in 1..Len(received) : received'[i] = received[i]
  BY DEF AcceptCoordinate, Inv, TypeOK
<1>6. SessionConsistent'
  BY <1>3, <1>4, <1>5 DEF AcceptCoordinate, SessionConsistent, InSession, Inv, TypeOK,
     TooMany, CountOf, Stored
<1> QED BY <1>2, <1>6 DEF Inv

LEMMA WriteInvalidInv == Inv /\ WriteInvalid => Inv'
<1> SUFFICES ASSUME Inv, WriteInvalid PROVE Inv'
  OBVIOUS
<1>1. TypeOK'
  <2>1. eeprom' \in [valid : Byte, count : Byte, word : [Word -> Float \cup {Garbage}]]
    <3>1. INVALID \in Byte
      BY DEF INVALID, Byte
    <3> QED BY <3>1 DEF Inv, TypeOK, WriteInvalid
  <2> QED BY <2>1 DEF Inv, TypeOK, WriteInvalid
<1>2. SessionConsistent'
  BY DEF WriteInvalid, SessionConsistent, InSession, Storing, Inv, TypeOK, TooMany,
     CountOf, Field
<1> QED BY <1>1, <1>2 DEF Inv

LEMMA WriteCountInv == Inv /\ WriteCount => Inv'
<1> SUFFICES ASSUME Inv, WriteCount PROVE Inv'
  OBVIOUS
<1> DEFINE n == CountOf(received[1])
           w == [field |-> "LATITUDE", count |-> n, ptr |-> PathBase]
<1>1. Len(received) = 1 /\ received[1] \in Text /\ Field = received[1]
  <2>1. received \in Seq(Text) /\ Len(received) = 1
    BY DEF Inv, TypeOK, SessionConsistent, WriteCount
  <2>2. received[1] \in Text
    BY <2>1, ElementOfSeq
  <2> QED BY <2>1, <2>2 DEF Field
<1>2. n \in 0..MaxWaypoints /\ n \in Byte /\ ~ TooMany(received[1])
  BY <1>1, CountIsByte DEF Inv, SessionConsistent, WriteCount
<1>3. /\ writer' = w
      /\ pc' = IF 0 = 2 * n THEN "validate" ELSE "ready"
      /\ result' = result
  <2>1. w.ptr = PathBase + FloatSize * 0 /\ w.count = n /\ 0 \in 0..2 * n /\ Conclude(w)
    BY <1>1, <1>2, ConstantsAssumption DEF WriteCount, PathBase, FloatSize
  <2> QED BY <2>1, <1>2, ConcludeStatus
<1>4. received' = received /\ eeprom' = [eeprom EXCEPT !.count = n]
  BY <1>1 DEF WriteCount
<1>5. TypeOK'
  BY <1>2, <1>3, <1>4 DEF Inv, TypeOK, PathBase
<1>6. Stored' = 0 /\ pc' # "count" /\ pc' # "invalidate"
  BY <1>1, <1>3, <1>4 DEF Stored
<1>7. /\ eeprom'.valid = INVALID
      /\ eeprom'.count = n
  BY <1>4 DEF Inv, SessionConsistent, WriteCount, InSession, TypeOK
<1>8. n = CountOf(received[1])' /\ ~ TooMany(received[1])' /\ Len(received') = 1
  BY <1>1, <1>2, <1>4 DEF CountOf, TooMany
<1>9. writer'.ptr = PathBase + FloatSize * 0
  BY <1>3 DEF PathBase, FloatSize
<1>10. SessionConsistent'
  BY <1>2, <1>3, <1>6, <1>7, <1>8, <1>9, ConstantsAssumption DEF SessionConsistent
<1> QED BY <1>5, <1>10 DEF Inv

(* The float that a session is at goes to the next word of the path, and   *)
(* leaves the words before it alone.                                       *)
LEMMA WordStep ==
    ASSUME Inv, WriteWord
    PROVE  LET k == Stored  n == writer.count IN
           /\ n \in 0..MaxWaypoints /\ k \in 0..2 * n - 1 /\ Len(received) = k + 2
           /\ writer.ptr = FloatSize * (k + 1) /\ writer.ptr \in Word
           /\ eeprom' = [eeprom EXCEPT !.word[writer.ptr] = Atof[received[k + 2]]]
           /\ Atof[received[k + 2]] \in Float
           /\ writer' = Advance(writer)
           /\ pc' = IF k + 1 = 2 * n THEN "validate" ELSE "ready"
           /\ result' = result /\ received' = received
<1> DEFINE k == Stored  n == writer.count  w == Advance(writer)
<1>1. /\ received \in Seq(Text) /\ Len(received) >= 1 /\ ~ TooMany(received[1])
      /\ writer.count = CountOf(received[1]) /\ pc = "word"
  BY DEF Inv, TypeOK, SessionConsistent, Storing, WriteWord
<1>2. received[1] \in Text
  BY <1>1, ElementOfSeq
<1>3. n \in 0..MaxWaypoints
  BY <1>1, <1>2, CountIsByte
<1>4. k \in 0..2 * n - 1 /\ Len(received) = k + 2
  <2>1. k = Len(received) - 2
    BY <1>1 DEF Stored
  <2>2. k \in 0..2 * n /\ k # 2 * n
    BY <1>1 DEF Inv, SessionConsistent, Storing
  <2>3. Len(received) \in Nat
    BY <1>1
  <2> HIDE DEF k
  <2> QED BY <2>1, <2>2, <2>3, <1>3, ConstantsAssumption
<1>5. writer.ptr = PathBase + FloatSize * k /\ writer.ptr = FloatSize * (k + 1)
  BY <1>1, <1>4 DEF Inv, SessionConsistent, Storing, PathBase, FloatSize
<1>6. writer.ptr \in Word
  <2>1. k + 1 \in 1..2 * MaxWaypoints
    BY <1>3, <1>4, ConstantsAssumption
  <2> QED BY <2>1, <1>5, WordAddress
<1>7. Field = received[k + 2] /\ Field \in Text
  BY <1>1, <1>4, ElementOfSeq DEF Field
<1>8. writer' = w /\ result' = result
      /\ pc' = IF k + 1 = 2 * n THEN "validate" ELSE "ready"
  <2>1. w.ptr = PathBase + FloatSize * (k + 1) /\ w.count = n
    BY <1>4, <1>5, ConstantsAssumption DEF Advance, Inv, TypeOK, PathBase, FloatSize
  <2>2. Conclude(w) /\ k + 1 \in 0..2 * n
    BY <1>3, <1>4, ConstantsAssumption DEF WriteWord
  <2> HIDE DEF w, k, n
  <2> QED BY <2>1, <2>2, <1>3, ConcludeStatus
<1>9. Atof[Field] \in Float
  BY <1>7, ConstantsAssumption
<1> QED BY <1>3, <1>4, <1>5, <1>6, <1>7, <1>8, <1>9 DEF WriteWord

LEMMA WriteWordInv == Inv /\ WriteWord => Inv'
<1> SUFFICES ASSUME Inv, WriteWord PROVE Inv'
  OBVIOUS
<1> DEFINE k == Stored  n == writer.count  x == Atof[received[k + 2]]
<1>1. /\ n \in 0..MaxWaypoints /\ k \in 0..2 * n - 1 /\ Len(received) = k + 2
      /\ writer.ptr = FloatSize * (k + 1) /\ writer.ptr \in Word
      /\ eeprom' = [eeprom EXCEPT !.word[writer.ptr] = x] /\ x \in Float
      /\ writer' = Advance(writer)
      /\ pc' = IF k + 1 = 2 * n THEN "validate" ELSE "ready"
      /\ result' = result /\ received' = received
  BY WordStep
<1>2. Storing /\ pc = "word"
  BY DEF WriteWord, Storing
<1> HIDE DEF x, n, k
<1>3. /\ eeprom'.word = [eeprom.word EXCEPT ![writer.ptr] = x]
      /\ eeprom'.valid = eeprom.valid /\ eeprom'.count = eeprom.count
      /\ eeprom' \in [valid : Byte, count : Byte, word : [Word -> Float \cup {Garbage}]]
  BY <1>1 DEF Inv, TypeOK
<1>4. /\ writer'.ptr = writer.ptr + FloatSize /\ writer'.count = writer.count
      /\ writer'.field = IF writer.field = "LATITUDE" THEN "LONGITUDE" ELSE "LATITUDE"
      /\ writer' \in [field : {"COUNT", "LATITUDE", "LONGITUDE"}, count : Byte, ptr : Nat]
  <2>1. writer' = Advance(writer)
    BY <1>1
  <2>2. writer \in [field : {"COUNT", "LATITUDE", "LONGITUDE"}, count : Byte, ptr : Nat]
    BY DEF Inv, TypeOK
  <2> QED BY <2>1, <2>2 DEF Advance, NextField, FloatSize
<1>5. TypeOK'
  BY <1>1, <1>3, <1>4 DEF Inv, TypeOK
<1>6. Stored' = k + 1 /\ pc' # "invalidate" /\ pc' # "count"
  BY <1>1 DEF Stored
<1>7. \A i \in 1..k + 1 : eeprom'.word[FloatSize * i] = Atof[received[i + 1]]
  <2> SUFFICES ASSUME NEW i \in 1..k + 1
               PROVE  eeprom'.word[FloatSize * i] = Atof[received[i + 1]]
    OBVIOUS
  <2>1. FloatSize * i \in Word
    <3>1. n \in 0..MaxWaypoints /\ k \in 0..2 * n - 1
      BY <1>1
    <3>2. i \in 1..2 * MaxWaypoints
      BY <3>1, ConstantsAssumption
    <3> QED BY <3>2, WordAddress
  <2>2. CASE i = k + 1
    BY <2>1, <2>2, <1>1, <1>3 DEF Inv, TypeOK, x
  <2>3. CASE i \in 1..k
    <3>1. eeprom.word[FloatSize * i] = Atof[received[i + 1]]
      BY <2>3, <1>2 DEF Inv, SessionConsistent, k
    <3>2. FloatSize * i # writer.ptr
      BY <2>3, <1>1 DEF FloatSize
    <3> QED BY <3>1, <3>2, <2>1, <1>3 DEF Inv, TypeOK
  <2> QED BY <2>2, <2>3, <1>1
<1>8. writer'.field = IF (k + 1) % 2 = 0 THEN "LATITUDE" ELSE "LONGITUDE"
  <2>1. writer.field = IF k % 2 = 0 THEN "LATITUDE" ELSE "LONGITUDE"
    BY <1>2 DEF Inv, SessionConsistent, k
  <2>2. k % 2 = 0 <=> (k + 1) % 2 # 0
    BY <1>1
  <2> QED BY <2>1, <2>2, <1>4
<1>9. /\ ~ TooMany(received[1]) /\ n = CountOf(received[1])
      /\ eeprom.count = n /\ eeprom.valid = INVALID
  BY <1>2 DEF Inv, SessionConsistent, InSession, n
<1>10. writer'.ptr = PathBase + FloatSize * (k + 1) /\ writer'.count = n
  BY <1>1, <1>4 DEF FloatSize, PathBase, n
<1>11. /\ ~ TooMany(received[1])' /\ n = CountOf(received[1])'
  BY <1>9, <1>1 DEF TooMany, CountOf
<1>12. /\ Stored' \in 0..2 * n /\ (Stored' = 2 * n <=> pc' = "validate")
       /\ Len(received') >= 1 /\ writer'.field # "COUNT"
       /\ pc' = "validate" \/ pc' = "ready"
  BY <1>1, <1>6, <1>8
<1>13. \A i \in 1..Stored' : eeprom'.word[FloatSize * i] = Atof[received'[i + 1]]
  BY <1>1, <1>6, <1>7
<1>14. SessionConsistent'
  BY <1>3, <1>6, <1>8, <1>9, <1>10, <1>11, <1>12, <1>13 DEF SessionConsistent
<1> QED BY <1>5, <1>14 DEF Inv

LEMMA WriteValidInv == Inv /\ WriteValid => Inv'
<1> SUFFICES ASSUME Inv, WriteValid PROVE Inv'
  OBVIOUS
<1>1. eeprom' \in [valid : Byte, count : Byte, word : [Word -> Float \cup {Garbage}]]
  <2>1. VALID \in Byte
    BY DEF VALID, Byte
  <2> QED BY <2>1 DEF Inv, TypeOK, WriteValid
<1>2. TypeOK'
  BY <1>1 DEF Inv, TypeOK, WriteValid
<1>3. SessionConsistent'
  BY DEF WriteValid, SessionConsistent, InSession, Storing
<1> QED BY <1>2, <1>3 DEF Inv

LEMMA GiveUpInv == Inv /\ GiveUp => Inv'
<1> SUFFICES ASSUME Inv, GiveUp PROVE Inv'
  OBVIOUS
<1>1. TypeOK'
  BY DEF Inv, TypeOK, GiveUp
<1>2. SessionConsistent'
  BY DEF GiveUp, SessionConsistent, InSession, Storing
<1> QED BY <1>1, <1>2 DEF Inv

(* Losing power changes at most the byte or the float under way.           *)
LEMMA InterruptedType ==
    ASSUME Inv, NEW image \in Interrupted
    PROVE  image \in [valid : Byte, count : Byte, word : [Word -> Float \cup {Garbage}]]
<1>1. INVALID \in Byte /\ VALID \in Byte /\ TornByte \subseteq Byte
  BY ConstantsAssumption DEF INVALID, VALID, Byte
<1>2. CASE pc = "invalidate"
  BY <1>1, <1>2 DEF Interrupted, Inv, TypeOK
<1>3. CASE pc = "count"
  <2>1. received \in Seq(Text) /\ Len(received) = 1
    BY <1>3 DEF Inv, TypeOK, SessionConsistent
  <2>2. Field \in Text
    BY <2>1, ElementOfSeq DEF Field
  <2>3. CountOf(Field) \in Byte
    BY <2>2, CountIsByte
  <2> QED BY <1>1, <1>3, <2>3 DEF Interrupted, Inv, TypeOK
<1>4. CASE pc = "word"
  BY <1>4 DEF Interrupted, Inv, TypeOK
<1>5. CASE pc = "validate"
  BY <1>1, <1>5 DEF Interrupted, Inv, TypeOK
<1>6. CASE pc \notin {"invalidate", "count", "word", "validate"}
  BY <1>6 DEF Interrupted, Inv, TypeOK
<1> QED BY <1>2, <1>3, <1>4, <1>5, <1>6

LEMMA PowerFailInv == Inv /\ PowerFail => Inv'
<1> SUFFICES ASSUME Inv, PowerFail PROVE Inv'
  OBVIOUS
<1>1. eeprom' \in [valid : Byte, count : Byte, word : [Word -> Float \cup {Garbage}]]
  BY InterruptedType DEF PowerFail
<1>2. TypeOK'
  BY <1>1 DEF PowerFail, TypeOK, PathBase, Byte
<1>3. SessionConsistent'
  BY DEF PowerFail, SessionConsistent, InSession, Storing
<1> QED BY <1>2, <1>3 DEF Inv

LEMMA NextInv == Inv /\ [Next]_vars => Inv'
<1> SUFFICES ASSUME Inv, [Next]_vars PROVE Inv'
  OBVIOUS
<1>1. CASE Start
  BY <1>1, StartInv
<1>2. CASE \E t \in Text : RejectCount(t) \/ AcceptCount(t) \/ AcceptCoordinate(t)
  BY <1>2, RejectCountInv, AcceptCountInv, AcceptCoordinateInv
<1>3. CASE WriteInvalid
  BY <1>3, WriteInvalidInv
<1>4. CASE WriteCount
  BY <1>4, WriteCountInv
<1>5. CASE WriteWord
  BY <1>5, WriteWordInv
<1>6. CASE WriteValid
  BY <1>6, WriteValidInv
<1>7. CASE GiveUp
  BY <1>7, GiveUpInv
<1>8. CASE PowerFail
  BY <1>8, PowerFailInv
<1>9. CASE UNCHANGED vars
  <2>1. /\ eeprom' = eeprom /\ writer' = writer /\ pc' = pc
        /\ received' = received /\ result' = result
    BY <1>9 DEF vars
  <2>2. /\ Stored' = Stored /\ Storing' = Storing /\ InSession' = InSession
        /\ TooMany(Field)' = TooMany(Field)
        /\ TooMany(received[1])' = TooMany(received[1])
        /\ CountOf(received[1])' = CountOf(received[1])
    BY <2>1 DEF Stored, Storing, InSession, Field, TooMany, CountOf
  <2>3. TypeOK'
    BY <2>1 DEF Inv, TypeOK
  <2>4. SessionConsistent'
    BY <2>1, <2>2 DEF Inv, SessionConsistent
  <2> QED BY <2>3, <2>4 DEF Inv
<1> QED BY <1>1, <1>2, <1>3, <1>4, <1>5, <1>6, <1>7, <1>8, <1>9 DEF Next

-----------------------------------------------------------------------------
(* Types and the progress of a session                                     *)

LEMMA SpecInv == Spec => []Inv
BY InitInv, NextInv, PTL DEF Spec

(* Every variable keeps its type, in particular the count byte and the     *)
(* addresses of the floats: no session writes outside the path's words.    *)
THEOREM TypeCorrect == Spec => []TypeOK
<1>1. Inv => TypeOK
  BY DEF Inv
<1> QED BY <1>1, SpecInv, PTL

(* RAM, EEPROM and the messages received agree after every EEPROM write.   *)
THEOREM SessionsConsistent == Spec => []SessionConsistent
<1>1. Inv => SessionConsistent
  BY DEF Inv
<1> QED BY <1>1, SpecInv, PTL

-----------------------------------------------------------------------------
(* What is marked valid is whole                                           *)

(* When a session is about to mark its path valid, the path is complete.   *)
LEMMA PathComplete ==
    ASSUME Inv, pc = "validate"
    PROVE  LET n == CountOf(received[1]) IN
           /\ eeprom.count = n /\ n \in 0..MaxWaypoints /\ Len(received) = 2 * n + 1
           /\ \A i \in 1..2 * n :
                 /\ eeprom.word[FloatSize * i] = Atof[received[i + 1]]
                 /\ received[i + 1] \in Text
                 /\ eeprom.word[FloatSize * i] \in Float
<1> DEFINE n == CountOf(received[1])
<1>1. /\ received \in Seq(Text) /\ Len(received) >= 1 /\ ~ TooMany(received[1])
      /\ eeprom.count = n /\ Stored = 2 * n
      /\ \A i \in 1..Stored : eeprom.word[FloatSize * i] = Atof[received[i + 1]]
  BY DEF Inv, TypeOK, SessionConsistent, Storing
<1>2. n \in 0..MaxWaypoints
  <2>1. received[1] \in Text
    BY <1>1, ElementOfSeq
  <2> QED BY <2>1, <1>1, CountIsByte
<1> HIDE DEF n
<1>3. Len(received) = 2 * n + 1
  <2>1. Len(received) - 1 = 2 * n /\ Len(received) \in Nat
    BY <1>1 DEF Stored
  <2> QED BY <2>1, <1>2, ConstantsAssumption
<1>4. ASSUME NEW i \in 1..2 * n
      PROVE  /\ eeprom.word[FloatSize * i] = Atof[received[i + 1]]
             /\ received[i + 1] \in Text
             /\ eeprom.word[FloatSize * i] \in Float
  <2>1. i + 1 \in 1..Len(received)
    BY <1>2, <1>3, ConstantsAssumption
  <2>2. received[i + 1] \in Text
    BY <2>1, <1>1, ElementOfSeq
  <2> QED BY <2>2, <1>1, ConstantsAssumption
<1> QED BY <1>1, <1>2, <1>3, <1>4 DEF n

(* A step of the program leaves what the reader sees whole.                *)
LEMMA NoGarbageStep ==
    ASSUME TornByte = {}, Inv, ReaderSeesNoGarbage, [Next]_vars
    PROVE  ReaderSeesNoGarbage'
<1>1. ASSUME eeprom' = eeprom PROVE ReaderSeesNoGarbage'
  BY <1>1 DEF ReaderSeesNoGarbage
<1>2. ASSUME eeprom'.valid = INVALID PROVE ReaderSeesNoGarbage'
  BY <1>2 DEF ReaderSeesNoGarbage
<1>3. ASSUME pc = "validate", eeprom'.count = eeprom.count, eeprom'.word = eeprom.word
      PROVE  ReaderSeesNoGarbage'
  <2>1. /\ eeprom'.count \in 0..MaxWaypoints
        /\ \A i \in 1..2 * eeprom'.count : eeprom'.word[FloatSize * i] \in Float
    BY <1>3, PathComplete
  <2> QED BY <2>1, ConstantsAssumption DEF ReaderSeesNoGarbage
<1>4. CASE pc \in {"count", "word"} /\ eeprom'.valid = eeprom.valid
  BY <1>2, <1>4 DEF Inv, SessionConsistent, InSession, Storing
<1>5. CASE Start \/ GiveUp \/ UNCHANGED vars
  BY <1>1, <1>5 DEF Start, GiveUp, vars
<1>6. CASE \E t \in Text : RejectCount(t) \/ AcceptCount(t) \/ AcceptCoordinate(t)
  BY <1>1, <1>6 DEF RejectCount, AcceptCount, AcceptCoordinate
<1>7. CASE WriteInvalid
  BY <1>2, <1>7 DEF WriteInvalid, Inv, TypeOK
<1>8. CASE WriteCount
  BY <1>4, <1>8 DEF WriteCount, Inv, TypeOK
<1>9. CASE WriteWord
  BY <1>4, <1>9 DEF WriteWord, Inv, TypeOK
<1>10. CASE WriteValid
  BY <1>3, <1>10 DEF WriteValid, Inv, TypeOK
<1>11. CASE PowerFail
  <2>1. eeprom' \in Interrupted
    BY <1>11 DEF PowerFail
  <2>2. CASE pc = "invalidate"
    <3>1. PICK b \in {eeprom.valid, INVALID} : eeprom' = [eeprom EXCEPT !.valid = b]
      BY <2>1, <2>2 DEF Interrupted
    <3>2. eeprom' = eeprom \/ eeprom'.valid = INVALID
      BY <3>1 DEF Inv, TypeOK
    <3> QED BY <3>2, <1>1, <1>2
  <2>3. CASE pc = "count"
    BY <2>1, <2>3, <1>4 DEF Interrupted, Inv, TypeOK
  <2>4. CASE pc = "word"
    BY <2>1, <2>4, <1>4 DEF Interrupted, Inv, TypeOK
  <2>5. CASE pc = "validate"
    BY <2>1, <2>5, <1>3 DEF Interrupted, Inv, TypeOK
  <2>6. CASE pc \notin {"invalidate", "count", "word", "validate"}
    BY <2>1, <2>6, <1>1 DEF Interrupted
  <2> QED BY <2>2, <2>3, <2>4, <2>5, <2>6
<1> QED BY <1>5, <1>6, <1>7, <1>8, <1>9, <1>10, <1>11 DEF Next

(* If an interrupted write leaves a byte either old or new, the reader     *)
(* never returns a float that was not completely written.                  *)
THEOREM ReaderNeverSeesGarbage ==
    ASSUME TornByte = {} PROVE Spec => []ReaderSeesNoGarbage
<1>1. Init => ReaderSeesNoGarbage
  BY DEF Init, Blank, ReaderSeesNoGarbage
<1>2. Inv /\ ReaderSeesNoGarbage /\ [Next]_vars => ReaderSeesNoGarbage'
  BY NoGarbageStep
<1> QED BY <1>1, <1>2, SpecInv, PTL DEF Spec

-----------------------------------------------------------------------------
(* What a successful session leaves                                        *)

(* Marking a complete path valid makes it the one the reader returns.      *)
LEMMA ValidPath ==
    ASSUME Inv, pc = "validate", eeprom'.valid # 0,
           eeprom'.count = eeprom.count, eeprom'.word = eeprom.word
    PROVE  LET n == CountOf(received[1]) IN
           ReaderPath(eeprom)' =
               [i \in 1..n |-> <<Atof[received[2 * i]], Atof[received[2 * i + 1]]>>]
<1> DEFINE n == CountOf(received[1])
<1>1. /\ eeprom.count = n /\ n \in 0..MaxWaypoints
      /\ \A i \in 1..2 * n : eeprom.word[FloatSize * i] = Atof[received[i + 1]]
  BY PathComplete
<1> HIDE DEF n
<1>2. ReaderCount(eeprom)' = n
  BY <1>1 DEF ReaderCount
<1>3. ASSUME NEW i \in 1..n
      PROVE  /\ Latitude(eeprom, i)' = Atof[received[2 * i]]
             /\ Longitude(eeprom, i)' = Atof[received[2 * i + 1]]
  <2>1. /\ 2 * i - 1 \in 1..2 * n /\ 2 * i \in 1..2 * n
        /\ PathBase + 8 * (i - 1) = FloatSize * (2 * i - 1)
        /\ PathBase + 8 * (i - 1) + FloatSize = FloatSize * (2 * i)
        /\ (2 * i - 1) + 1 = 2 * i
    BY <1>1, ConstantsAssumption DEF PathBase, FloatSize
  <2>2. eeprom.word[FloatSize * (2 * i - 1)] = Atof[received[2 * i]]
    BY <1>1, <2>1
  <2>3. eeprom.word[FloatSize * (2 * i)] = Atof[received[2 * i + 1]]
    BY <1>1, <2>1
  <2> QED BY <2>1, <2>2, <2>3 DEF Latitude, Longitude
<1>4. ReaderPath(eeprom)' =
          [i \in 1..n |-> <<Atof[received[2 * i]], Atof[received[2 * i + 1]]>>]
  BY <1>2, <1>3 DEF ReaderPath
<1> QED BY <1>4 DEF n

LEMMA SuccessStep ==
    ASSUME Inv, SuccessMeansStored, [Next]_vars PROVE SuccessMeansStored'
<1>1. ASSUME pc' # "idle" \/ result' # "success" PROVE SuccessMeansStored'
  BY <1>1 DEF SuccessMeansStored
<1>2. CASE Start
  BY <1>1, <1>2 DEF Start
<1>3. CASE \E t \in Text : RejectCount(t) \/ AcceptCount(t) \/ AcceptCoordinate(t)
  BY <1>1, <1>3 DEF RejectCount, AcceptCount, AcceptCoordinate
<1>4. CASE WriteInvalid
  BY <1>1, <1>4 DEF WriteInvalid
<1>5. CASE WriteCount \/ WriteWord
  <2>1. pc' \notin {"idle"} \/ result' = "failure"
    BY <1>5 DEF WriteCount, WriteWord, Conclude
  <2> QED BY <2>1, <1>1
<1>6. CASE WriteValid
  <2> DEFINE n == CountOf(received[1])
  <2>1. /\ eeprom'.valid = VALID /\ eeprom'.count = eeprom.count
        /\ eeprom'.word = eeprom.word /\ received' = received /\ pc = "validate"
    BY <1>6 DEF WriteValid, Inv, TypeOK
  <2>2. eeprom.count = n /\ Len(received) = 1 + 2 * n
    <3>1. n \in 0..MaxWaypoints /\ Len(received) = 2 * n + 1 /\ eeprom.count = n
      BY <2>1, PathComplete
    <3> QED BY <3>1, ConstantsAssumption
  <2>3. ReaderPath(eeprom)' =
            [i \in 1..n |-> <<Atof[received[2 * i]], Atof[received[2 * i + 1]]>>]
    BY <2>1, ValidPath DEF VALID
  <2>4. CountOf(received[1])' = n
    BY <2>1 DEF CountOf
  <2> QED BY <2>1, <2>2, <2>3, <2>4 DEF SuccessMeansStored
<1>7. CASE GiveUp
  BY <1>1, <1>7 DEF GiveUp
<1>8. CASE PowerFail
  BY <1>1, <1>8 DEF PowerFail
<1>9. CASE UNCHANGED vars
  BY <1>9 DEF vars, SuccessMeansStored, CountOf, ReaderPath, ReaderCount, Latitude, Longitude
<1> QED BY <1>2, <1>3, <1>4, <1>5, <1>6, <1>7, <1>8, <1>9 DEF Next

(* A session that reports success has received count points, and the       *)
(* reader returns exactly those, whatever an interrupted write may leave.  *)
THEOREM SuccessIsTrue == Spec => []SuccessMeansStored
<1>1. Init => SuccessMeansStored
  BY DEF Init, SuccessMeansStored
<1>2. Inv /\ SuccessMeansStored /\ [Next]_vars => SuccessMeansStored'
  BY SuccessStep
<1> QED BY <1>1, <1>2, SpecInv, PTL DEF Spec

-----------------------------------------------------------------------------
(* Refinement: every step of the program is a step of WaypointPath         *)

(* A session sees nothing of the stored path but that there is none, and   *)
(* has a count there is room for.                                          *)
LEMMA SessionView ==
    ASSUME Inv, InSession
    PROVE  /\ StoredPath = NoPath
           /\ received \in Seq(Text) /\ Len(received) >= 1
           /\ Expected = CountOf(received[1]) /\ Expected \in 0..MaxWaypoints
           /\ Expected # NoCount
<1>1. /\ received \in Seq(Text) /\ Len(received) >= 1 /\ ~ TooMany(received[1])
  <2>1. CASE Storing
    BY <2>1 DEF Inv, TypeOK, SessionConsistent
  <2>2. CASE pc = "count"
    <3>1. Len(received) = 1 /\ ~ TooMany(received[1])
      BY <2>2 DEF Inv, SessionConsistent, Field
    <3> QED BY <3>1 DEF Inv, TypeOK
  <2> QED BY <2>1, <2>2 DEF InSession
<1>2. received[1] \in Text
  BY <1>1, ElementOfSeq
<1>3. CountOf(received[1]) \in 0..MaxWaypoints
  BY <1>1, <1>2, CountIsByte
<1>4. CountOf(received[1]) \in Nat
  BY <1>3, ConstantsAssumption
<1>5. Expected = CountOf(received[1]) /\ Expected # NoCount
  BY <1>4, ConstantsAssumption DEF Expected
<1>6. StoredPath = NoPath
  BY DEF StoredPath, Inv, SessionConsistent
<1> QED BY <1>1, <1>3, <1>5, <1>6

(* A coordinate handed to the writer is received.                          *)
LEMMA CoordinateRefines ==
    ASSUME NEW t \in Text, Inv, AcceptCoordinate(t) PROVE Path!Receive(Atof[t])
<1>1. /\ InSession /\ InSession' /\ Storing /\ pc = "ready"
      /\ received' = Append(received, t) /\ eeprom' = eeprom
  BY DEF AcceptCoordinate, InSession, Storing
<1>2. /\ received \in Seq(Text) /\ Len(received) >= 1 /\ Expected # NoCount
      /\ Expected = CountOf(received[1]) /\ Expected \in 0..MaxWaypoints
  BY <1>1, SessionView
<1>3. Incoming = [i \in 1..Len(received) - 1 |-> Atof[received[i + 1]]]
  BY <1>1 DEF Incoming
<1>4. Incoming' = [i \in 1..Len(received') - 1 |-> Atof[received'[i + 1]]]
  BY <1>1 DEF Incoming
<1>5. Len(Incoming) = Len(received) - 1
  BY <1>2, <1>3
<1>6. Len(Incoming) < 2 * Expected
  <2>1. Stored \in 0..2 * Expected /\ Stored # 2 * Expected
    BY <1>1, <1>2 DEF Inv, SessionConsistent
  <2>2. Stored = Len(Incoming)
    BY <1>1, <1>5 DEF Stored
  <2> QED BY <2>1, <2>2, <1>2, ConstantsAssumption
<1>7. Incoming' = Append(Incoming, Atof[t])
  <2>1. /\ Len(received') = Len(received) + 1 /\ received'[Len(received) + 1] = t
        /\ \A i \in 1..Len(received) : received'[i] = received[i]
    BY <1>1, <1>2
  <2>2. Incoming \in Seq(Float) /\ Incoming' \in Seq(Float) /\ Atof[t] \in Float
    <3>1. \A i \in 1..Len(received) - 1 : received[i + 1] \in Text
      BY <1>2, ElementOfSeq
    <3>2. \A i \in 1..Len(received') - 1 : received'[i + 1] \in Text
      BY <3>1, <2>1, <1>2
    <3> QED BY <3>1, <3>2, <2>1, <1>2, <1>3, <1>4, ConstantsAssumption
  <2>3. Len(Incoming') = Len(received) /\ Len(Append(Incoming, Atof[t])) = Len(received)
    BY <1>2, <1>4, <1>5, <2>1, <2>2
  <2>4. ASSUME NEW i \in 1..Len(received)
        PROVE  Incoming'[i] = Append(Incoming, Atof[t])[i]
    <3>1. CASE i = Len(received)
      BY <3>1, <2>1, <2>2, <1>2, <1>4, <1>5, AppendProperties
    <3>2. CASE i \in 1..Len(received) - 1
      BY <3>2, <2>1, <2>2, <1>2, <1>3, <1>4, <1>5, AppendProperties
    <3>3. Len(received) \in Nat
      BY <1>2
    <3>4. i = Len(received) \/ i \in 1..Len(received) - 1
      BY <3>3
    <3> QED BY <3>1, <3>2, <3>4
  <2>5. Append(Incoming, Atof[t]) \in Seq(Float)
    BY <2>2, AppendProperties
  <2> QED BY <2>2, <2>3, <2>4, <2>5, SeqEqual
<1>8. Expected' = Expected
  BY <1>1, <1>2 DEF Expected, CountOf
<1>9. StoredPath' = StoredPath
  BY <1>1 DEF StoredPath, ReaderPath, ReaderCount, Latitude, Longitude
<1> QED BY <1>2, <1>6, <1>7, <1>8, <1>9 DEF Path!Receive

(* Marking a path valid commits the coordinates received.                  *)
LEMMA CommitRefines ==
    ASSUME Inv, pc = "validate", pc' = "idle", eeprom'.valid # 0,
           eeprom'.count = eeprom.count, eeprom'.word = eeprom.word
    PROVE  Path!Commit
<1>1. InSession /\ ~ InSession'
  BY DEF InSession, Storing
<1>2. /\ received \in Seq(Text) /\ Expected # NoCount
      /\ Expected = CountOf(received[1]) /\ Expected \in 0..MaxWaypoints
  BY <1>1, SessionView
<1>3. Len(received) = 2 * Expected + 1
  BY <1>2, PathComplete
<1>4. Incoming = [i \in 1..2 * Expected |-> Atof[received[i + 1]]]
  <2>1. Len(received) - 1 = 2 * Expected
    BY <1>2, <1>3, ConstantsAssumption
  <2> QED BY <1>1, <2>1 DEF Incoming
<1>5. Len(Incoming) = 2 * Expected
  BY <1>2, <1>4, ConstantsAssumption
<1>6. StoredPath' = [i \in 1..Expected |-> <<Incoming[2 * i - 1], Incoming[2 * i]>>]
  <2>1. StoredPath' =
           [i \in 1..Expected |-> <<Atof[received[2 * i]], Atof[received[2 * i + 1]]>>]
    BY <1>2, ValidPath DEF StoredPath, INVALID
  <2>2. ASSUME NEW i \in 1..Expected
        PROVE  /\ Incoming[2 * i - 1] = Atof[received[2 * i]]
               /\ Incoming[2 * i] = Atof[received[2 * i + 1]]
    <3>1. /\ 2 * i - 1 \in 1..2 * Expected /\ 2 * i \in 1..2 * Expected
          /\ (2 * i - 1) + 1 = 2 * i
      BY <1>2, ConstantsAssumption
    <3> QED BY <3>1, <1>4
  <2> QED BY <2>1, <2>2
<1>7. Expected' = NoCount /\ Incoming' = <<>>
  BY <1>1 DEF Expected, Incoming
<1> QED BY <1>2, <1>5, <1>6, <1>7 DEF Path!Commit

(* A session that ends with the EEPROM as it was abandons its transfer, or *)
(* changes nothing if it had not begun to store.                           *)
LEMMA EndRefines ==
    ASSUME Inv, eeprom' = eeprom \/ (InSession /\ eeprom'.valid = INVALID), pc' = "idle"
    PROVE  Path!Abandon \/ UNCHANGED Path!vars
<1>1. ~ InSession' /\ Expected' = NoCount /\ Incoming' = <<>>
  BY DEF InSession, Storing, Expected, Incoming
<1>2. StoredPath' = StoredPath
  <2>1. CASE eeprom' = eeprom
    BY <2>1 DEF StoredPath, ReaderPath, ReaderCount, Latitude, Longitude
  <2>2. CASE InSession /\ eeprom'.valid = INVALID
    BY <2>2, SessionView DEF StoredPath
  <2> QED BY <2>1, <2>2
<1>3. CASE InSession
  BY <1>1, <1>2, <1>3, SessionView DEF Path!Abandon
<1>4. CASE ~ InSession
  BY <1>1, <1>2, <1>4 DEF Expected, Incoming, Path!vars
<1> QED BY <1>3, <1>4

(* Invalidating the old path begins a transfer.                            *)
LEMMA BeginRefines ==
    ASSUME Inv, WriteInvalid PROVE \E n \in 0..MaxWaypoints : Path!Begin(n)
<1> DEFINE n == CountOf(received[1])
<1>1. /\ ~ InSession /\ InSession' /\ Len(received) = 1 /\ received' = received
      /\ eeprom'.valid = INVALID /\ received \in Seq(Text) /\ ~ TooMany(received[1])
  <2>1. pc = "invalidate" /\ Len(received) = 1 /\ ~ TooMany(received[1])
    BY DEF WriteInvalid, Inv, SessionConsistent, Field
  <2> QED BY <2>1 DEF WriteInvalid, InSession, Storing, Inv, TypeOK
<1>2. n \in 0..MaxWaypoints
  <2>1. received[1] \in Text
    BY <1>1, ElementOfSeq
  <2> QED BY <2>1, <1>1, CountIsByte
<1>3. Expected = NoCount /\ Expected' = n /\ StoredPath' = NoPath
  BY <1>1 DEF Expected, CountOf, StoredPath
<1>4. Incoming' = <<>>
  <2>1. Incoming' = [i \in 1..Len(received') - 1 |-> Atof[received'[i + 1]]]
    BY <1>1 DEF Incoming
  <2>2. Len(received') - 1 = 0
    BY <1>1
  <2>3. Incoming' = [i \in 1..0 |-> Atof[received'[i + 1]]]
    BY <2>1, <2>2
  <2> QED BY <2>3
<1>5. Path!Begin(n)
  BY <1>3, <1>4 DEF Path!Begin
<1> QED BY <1>2, <1>5

(* Writing the count or a float is invisible: nothing is marked valid.     *)
LEMMA WriteRefines ==
    ASSUME Inv, WriteCount \/ WriteWord PROVE UNCHANGED Path!vars
<1>1. /\ received' = received /\ InSession /\ eeprom'.valid = eeprom.valid
  BY DEF WriteCount, WriteWord, Inv, TypeOK, InSession, Storing
<1>2. InSession'
  <2>1. CASE WriteWord
    <3>1. writer'.field # "COUNT" /\ pc' \in {"validate", "ready"}
      <4>1. writer' = Advance(writer) /\ pc' \in {"validate", "ready"}
        BY <2>1, WordStep
      <4> QED BY <4>1 DEF Advance, NextField
    <3> QED BY <3>1 DEF InSession, Storing
  <2>2. CASE WriteCount
    <3>1. writer'.field # "COUNT"
      BY <2>2 DEF WriteCount, Conclude
    <3>2. writer'.count \in 0..MaxWaypoints /\ Written(writer') = 0
      <4>1. Len(received) = 1 /\ received \in Seq(Text) /\ ~ TooMany(Field)
        BY <2>2 DEF WriteCount, Inv, TypeOK, SessionConsistent
      <4>2. Field \in Text
        BY <4>1, ElementOfSeq DEF Field
      <4>3. CountOf(Field) \in 0..MaxWaypoints
        BY <4>1, <4>2, CountIsByte
      <4> QED BY <2>2, <4>3 DEF WriteCount, Conclude, Written, PathBase
    <3>3. pc' \in {"validate", "ready"}
      BY <2>2, <3>2, ConstantsAssumption DEF WriteCount, Conclude
    <3> QED BY <3>1, <3>3 DEF InSession, Storing
  <2> QED BY <2>1, <2>2
<1>3. StoredPath = NoPath /\ StoredPath' = NoPath
  BY <1>1, SessionView DEF StoredPath, Inv, SessionConsistent
<1>4. Expected' = Expected /\ Incoming' = Incoming
  BY <1>1, <1>2 DEF Expected, Incoming, CountOf
<1> QED BY <1>3, <1>4 DEF Path!vars

(* Outside a session, steps that leave the EEPROM alone are invisible.     *)
LEMMA QuietRefines ==
    ASSUME eeprom' = eeprom, ~ InSession, ~ InSession' PROVE UNCHANGED Path!vars
BY DEF Path!vars, Expected, Incoming, StoredPath, ReaderPath, ReaderCount, Latitude, Longitude

LEMMA PowerFailRefines ==
    ASSUME TornByte = {}, Inv, PowerFail PROVE [Path!Next]_Path!vars
<1>1. pc' = "idle" /\ eeprom' \in Interrupted
  BY DEF PowerFail
<1>2. ASSUME eeprom' = eeprom \/ (InSession /\ eeprom'.valid = INVALID)
      PROVE  [Path!Next]_Path!vars
  BY <1>1, <1>2, EndRefines DEF Path!Next
<1>3. CASE pc = "invalidate"
  <2>1. eeprom' = eeprom \/ eeprom' = [eeprom EXCEPT !.valid = INVALID]
    BY <1>1, <1>3 DEF Interrupted, Inv, TypeOK
  <2>2. CASE eeprom' = [eeprom EXCEPT !.valid = INVALID]
    <3>1. StoredPath' = NoPath
      BY <2>2 DEF StoredPath, Inv, TypeOK
    <3>2. ~ InSession /\ ~ InSession'
      BY <1>1, <1>3 DEF InSession, Storing
    <3>3. Path!Forget
      BY <3>1, <3>2 DEF Path!Forget, Expected, Incoming
    <3> QED BY <3>3 DEF Path!Next
  <2>3. CASE eeprom' = eeprom
    BY <2>3, <1>2
  <2> QED BY <2>1, <2>2, <2>3
<1>4. CASE pc \in {"count", "word"}
  <2>1. InSession /\ eeprom.valid = INVALID
    BY <1>4 DEF InSession, Storing, Inv, SessionConsistent
  <2>2. eeprom'.valid = eeprom.valid
    BY <1>1, <1>4 DEF Interrupted, Inv, TypeOK
  <2> QED BY <2>1, <2>2, <1>2
<1>5. CASE pc = "validate"
  <2>1. InSession /\ eeprom.valid = INVALID
    BY <1>5 DEF InSession, Storing, Inv, SessionConsistent
  <2>2. /\ eeprom'.valid \in {INVALID, VALID}
        /\ eeprom'.count = eeprom.count /\ eeprom'.word = eeprom.word
    BY <1>1, <1>5, <2>1 DEF Interrupted, Inv, TypeOK
  <2>3. CASE eeprom'.valid = VALID
    <3>1. Path!Commit
      BY <1>1, <1>5, <2>2, <2>3, CommitRefines DEF VALID
    <3> QED BY <3>1 DEF Path!Next
  <2>4. CASE eeprom'.valid = INVALID
    BY <2>1, <2>4, <1>2
  <2> QED BY <2>2, <2>3, <2>4
<1>6. CASE pc \notin {"invalidate", "count", "word", "validate"}
  <2>1. eeprom' = eeprom
    BY <1>1, <1>6 DEF Interrupted
  <2> QED BY <2>1, <1>2
<1> QED BY <1>3, <1>4, <1>5, <1>6

LEMMA NextRefines ==
    ASSUME TornByte = {}, Inv, [Next]_vars PROVE [Path!Next]_Path!vars
<1>1. CASE Start
  BY <1>1, QuietRefines DEF Start, InSession, Storing, Inv, TypeOK
<1>2. ASSUME NEW t \in Text, RejectCount(t) \/ AcceptCount(t)
      PROVE  [Path!Next]_Path!vars
  BY <1>2, QuietRefines DEF RejectCount, AcceptCount, InSession, Storing
<1>3. ASSUME NEW t \in Text, AcceptCoordinate(t) PROVE [Path!Next]_Path!vars
  <2>1. Path!Receive(Atof[t]) /\ Atof[t] \in Float
    BY <1>3, CoordinateRefines, ConstantsAssumption
  <2> QED BY <2>1 DEF Path!Next
<1>4. CASE WriteInvalid
  BY <1>4, BeginRefines DEF Path!Next
<1>5. CASE WriteCount \/ WriteWord
  BY <1>5, WriteRefines
<1>6. CASE WriteValid
  <2>1. /\ pc = "validate" /\ pc' = "idle" /\ eeprom'.valid # 0
        /\ eeprom'.count = eeprom.count /\ eeprom'.word = eeprom.word
    BY <1>6 DEF WriteValid, VALID, Inv, TypeOK
  <2>2. Path!Commit
    BY <2>1, CommitRefines
  <2> QED BY <2>2 DEF Path!Next
<1>7. CASE GiveUp
  <2>1. eeprom' = eeprom /\ pc' = "idle"
    BY <1>7 DEF GiveUp
  <2>2. Path!Abandon \/ UNCHANGED Path!vars
    BY <2>1, EndRefines
  <2> QED BY <2>2 DEF Path!Next
<1>8. CASE PowerFail
  BY <1>8, PowerFailRefines
<1>9. CASE UNCHANGED vars
  <2>1. eeprom' = eeprom /\ received' = received /\ InSession' = InSession
    BY <1>9 DEF vars, InSession, Storing
  <2> QED BY <2>1 DEF Path!vars, Expected, Incoming, StoredPath, ReaderPath, ReaderCount,
             Latitude, Longitude, CountOf
<1> QED BY <1>1, <1>2, <1>3, <1>4, <1>5, <1>6, <1>7, <1>8, <1>9 DEF Next

(* Storing paths is atomic and durable: if an interrupted write leaves a   *)
(* byte either old or new, sessions and power failures implement           *)
(* WaypointPath.                                                           *)
THEOREM StoreImplementsPath == ASSUME TornByte = {} PROVE Spec => StoresPaths
<1>1. Init => Path!Init
  BY DEF Init, Blank, Path!Init, StoredPath, Expected, Incoming, InSession, Storing
<1>2. Inv /\ [Next]_vars => [Path!Next]_Path!vars
  BY NextRefines
<1> QED BY <1>1, <1>2, SpecInv, PTL DEF Spec, StoresPaths, Path!Spec

=============================================================================
