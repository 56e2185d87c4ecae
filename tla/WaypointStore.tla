---------------------------- MODULE WaypointStore ----------------------------
(***************************************************************************)
(* Receiving a waypoint path and writing it to EEPROM: the loop of         *)
(* get_and_store_waypoints (src.ino) that feeds every message to           *)
(* waypoint_writer_write (waypoint_writer.cpp).                            *)
(*                                                                         *)
(* The program is split at its EEPROM writes, because that is where losing *)
(* power shows: a write under way leaves the byte or the float it is       *)
(* writing in an arbitrary state. Whatever the messages, the ways a        *)
(* session ends and the power failures, what the reader finds afterwards   *)
(* is described by WaypointPath.                                           *)
(***************************************************************************)
EXTENDS WaypointLayout

CONSTANTS
    Text,           \* the texts a message may carry
    Float,          \* values of a stored float
    Atoi, Atof,     \* libc: the integer and the float that a text reads as
    MaxWaypoints,   \* MAX_WAYPOINTS
    TornByte,       \* what else than its old or new value an interrupted
                    \* write may leave in a byte: {}, or {255}
    Garbage,        \* a float whose write did not complete, or was never made
    NoPath,         \* nothing valid is stored
    NoCount         \* no session is storing a path

ASSUME ConstantsAssumption ==
    /\ MaxWaypoints \in 1..255
    /\ Atoi \in [Text -> Int]
    /\ Atof \in [Text -> Float]
    /\ TornByte \subseteq Byte
    /\ Garbage \notin Float
    /\ NoCount \notin Nat

VARIABLES
    eeprom,         \* [valid, count, word]: survives a power failure
    writer,         \* waypoint_writer_t
    pc,             \* the EEPROM write the program is at, "ready" for the next
                    \* message, or "idle" outside get_and_store_waypoints
    received,       \* history: the messages the session has passed to the writer
    result          \* what get_and_store_waypoints returned last

vars == <<eeprom, writer, pc, received, result>>

Word == WordAddresses(MaxWaypoints)

(* The types, and: every float is written within the words reserved.       *)
TypeOK ==
    /\ eeprom \in [valid : Byte, count : Byte, word : [Word -> Float \cup {Garbage}]]
    /\ writer \in [field : {"COUNT", "LATITUDE", "LONGITUDE"}, count : Byte, ptr : Nat]
    /\ pc \in {"idle", "ready", "invalidate", "count", "word", "validate"}
    /\ pc = "word" => writer.ptr \in Word
    /\ received \in Seq(Text)
    /\ result \in {"none", "success", "failure"}

(* An EEPROM that holds no path.                                           *)
Blank == [valid |-> INVALID, count |-> 0, word |-> [a \in Word |-> Garbage]]

Init ==
    /\ eeprom = Blank
    /\ writer = [field |-> "COUNT", count |-> 0, ptr |-> PathBase]
    /\ pc = "idle"
    /\ received = <<>>
    /\ result = "none"

-----------------------------------------------------------------------------
(* The writer's arithmetic                                                 *)

(* MUTANT: the number is used without the cast.                            *)
CountUncast(t) == Atoi[t]

(* (uint8_t)atoi(field): the low byte of the number in the text.           *)
CountOf(t) == Atoi[t] % 256

(* MUTANT: the count is checked against one too many.                      *)
TooManyOffByOne(t) == CountOf(t) > MaxWaypoints + 1

TooMany(t) == CountOf(t) > MaxWaypoints

(* MUTANT: a point counts as written once its latitude is.                 *)
WrittenRoundedUp(w) == ((w.ptr + FloatSize - PathBase) \div 8) % 256

(* The number of points written so far, a uint8_t.                         *)
Written(w) == ((w.ptr - PathBase) \div 8) % 256

(* waypoint_writer_write returns IN_PROGRESS, SUCCESS or FAILURE: the loop *)
(* goes on, the path is marked valid first, or the session ends.           *)
Conclude(w) ==
    /\ writer' = w
    /\ pc' = CASE Written(w) = w.count -> "validate"
               [] Written(w) > w.count -> "idle"
               [] OTHER -> "ready"
    /\ result' = IF Written(w) > w.count THEN "failure" ELSE result

-----------------------------------------------------------------------------
(* The steps of a session                                                  *)

(* run_bluetooth calls get_and_store_waypoints, which initialises a writer.*)
Start ==
    /\ pc = "idle"
    /\ pc' = "ready"
    /\ writer' = [writer EXCEPT !.field = "COUNT"]
    /\ received' = <<>>
    /\ UNCHANGED <<eeprom, result>>

(* A message is handed to the writer. A bad count ends the session before  *)
(* anything is written; otherwise the message's first EEPROM write is next.*)
RejectCount(t) ==
    /\ pc = "ready" /\ writer.field = "COUNT"
    /\ TooMany(t)
    /\ received' = Append(received, t)
    /\ pc' = "idle"
    /\ result' = "failure"
    /\ UNCHANGED <<eeprom, writer>>

AcceptCount(t) ==
    /\ pc = "ready" /\ writer.field = "COUNT"
    /\ ~ TooMany(t)
    /\ received' = Append(received, t)
    /\ pc' = "invalidate"
    /\ UNCHANGED <<eeprom, writer, result>>

AcceptCoordinate(t) ==
    /\ pc = "ready" /\ writer.field # "COUNT"
    /\ received' = Append(received, t)
    /\ pc' = "word"
    /\ UNCHANGED <<eeprom, writer, result>>

(* The text the writer is working on.                                      *)
Field == received[Len(received)]

(* MUTANT: the old path is left marked valid while it is overwritten.      *)
WriteInvalidSkipped ==
    /\ pc = "invalidate"
    /\ pc' = "count"
    /\ UNCHANGED <<eeprom, writer, received, result>>

WriteInvalid ==
    /\ pc = "invalidate"
    /\ eeprom' = [eeprom EXCEPT !.valid = INVALID]
    /\ pc' = "count"
    /\ UNCHANGED <<writer, received, result>>

WriteCount ==
    /\ pc = "count"
    /\ eeprom' = [eeprom EXCEPT !.count = CountOf(Field)]
    /\ Conclude([field |-> "LATITUDE", count |-> CountOf(Field), ptr |-> PathBase])
    /\ UNCHANGED received

NextField(w) == IF w.field = "LATITUDE" THEN "LONGITUDE" ELSE "LATITUDE"

(* MUTANT: the pointer only moves on after a longitude.                    *)
AdvanceOnLongitude(w) ==
    [field |-> NextField(w),
     count |-> w.count,
     ptr   |-> IF w.field = "LATITUDE" THEN w.ptr ELSE w.ptr + FloatSize]

Advance(w) ==
    [field |-> NextField(w), count |-> w.count, ptr |-> w.ptr + FloatSize]

WriteWord ==
    /\ pc = "word"
    /\ eeprom' = [eeprom EXCEPT !.word[writer.ptr] = Atof[Field]]
    /\ Conclude(Advance(writer))
    /\ UNCHANGED received

WriteValid ==
    /\ pc = "validate"
    /\ eeprom' = [eeprom EXCEPT !.valid = VALID]
    /\ pc' = "idle"
    /\ result' = "success"
    /\ UNCHANGED <<writer, received>>

(* The loop gives up between two messages: the blue button, a disconnect,  *)
(* or a radio that is neither connected nor advertising.                   *)
GiveUp ==
    /\ pc = "ready"
    /\ pc' = "idle"
    /\ result' = "failure"
    /\ UNCHANGED <<eeprom, writer, received>>

(* The EEPROM after losing power: a byte under way is old, new or torn, a  *)
(* float under way is no float that anyone sent.                           *)
Interrupted ==
    CASE pc = "invalidate" ->
            {[eeprom EXCEPT !.valid = b] : b \in {eeprom.valid, INVALID} \cup TornByte}
      [] pc = "count" ->
            {[eeprom EXCEPT !.count = b] : b \in {eeprom.count, CountOf(Field)} \cup TornByte}
      [] pc = "word" ->
            {[eeprom EXCEPT !.word[writer.ptr] = Garbage]}
      [] pc = "validate" ->
            {[eeprom EXCEPT !.valid = b] : b \in {eeprom.valid, VALID} \cup TornByte}
      [] OTHER -> {eeprom}

PowerFail ==
    \E image \in Interrupted :
        /\ eeprom' = image
        /\ pc' = "idle"
        /\ received' = <<>>
        /\ result' = "none"
        /\ writer' = [field |-> "COUNT", count |-> 0, ptr |-> PathBase]

Next ==
    \/ Start
    \/ \E t \in Text : RejectCount(t) \/ AcceptCount(t) \/ AcceptCoordinate(t)
    \/ WriteInvalid
    \/ WriteCount
    \/ WriteWord
    \/ WriteValid
    \/ GiveUp
    \/ PowerFail

Spec == Init /\ [][Next]_vars

-----------------------------------------------------------------------------
(* Properties                                                              *)

(* A path is being stored: its floats, or from its invalidation on.        *)
Storing ==
    \/ pc \in {"word", "validate"}
    \/ pc = "ready" /\ writer.field # "COUNT"
InSession == Storing \/ pc = "count"

(* How many floats the session has written.                                *)
Stored == IF pc = "word" THEN Len(received) - 2 ELSE Len(received) - 1

(* Where a session stands between two EEPROM writes: what the writer has   *)
(* in RAM, what is in EEPROM and what has been received agree.             *)
SessionConsistent ==
    /\ (pc = "ready" /\ writer.field = "COUNT") => received = <<>>
    /\ pc \in {"invalidate", "count"} =>
          /\ Len(received) = 1
          /\ ~ TooMany(Field)
    /\ InSession => eeprom.valid = INVALID
    /\ Storing =>
          /\ Len(received) >= 1
          /\ ~ TooMany(received[1])
          /\ writer.count = CountOf(received[1])
          /\ eeprom.count = writer.count
          /\ Stored \in 0..2 * writer.count
          /\ (Stored = 2 * writer.count) <=> (pc = "validate")
          /\ writer.ptr = PathBase + FloatSize * Stored
          /\ writer.field = IF Stored % 2 = 0 THEN "LATITUDE" ELSE "LONGITUDE"
          /\ \A i \in 1..Stored : eeprom.word[FloatSize * i] = Atof[received[i + 1]]

(* The reader never returns a float that was not completely written, and   *)
(* never one past the last waypoint there is room for: whatever is marked  *)
(* valid is whole, also after losing power at any point of any session.    *)
ReaderSeesNoGarbage ==
    eeprom.valid # INVALID =>
        /\ eeprom.count <= MaxWaypoints
        /\ \A i \in 1..2 * eeprom.count : eeprom.word[FloatSize * i] \in Float

(* When get_and_store_waypoints returns true, exactly count points were    *)
(* received, and they are the path that the reader returns, in order.      *)
SuccessMeansStored ==
    (pc = "idle" /\ result = "success") =>
        LET n == CountOf(received[1]) IN
        /\ Len(received) = 1 + 2 * n
        /\ eeprom.valid = VALID
        /\ ReaderPath(eeprom) =
               [i \in 1..n |-> <<Atof[received[2 * i]], Atof[received[2 * i + 1]]>>]

(* The stored path and the transfer in progress as WaypointPath sees them. *)
StoredPath == IF eeprom.valid = INVALID THEN NoPath ELSE ReaderPath(eeprom)
Expected == IF InSession THEN CountOf(received[1]) ELSE NoCount
Incoming ==
    IF InSession THEN [i \in 1..Len(received) - 1 |-> Atof[received[i + 1]]] ELSE <<>>

Path == INSTANCE WaypointPath
        WITH path <- StoredPath, expected <- Expected, incoming <- Incoming

(* Storing a path is atomic and durable: every step of every session, and  *)
(* every power failure, is a step of WaypointPath or leaves it unchanged.  *)
StoresPaths == Path!Spec

=============================================================================
