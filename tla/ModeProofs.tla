----------------------------- MODULE ModeProofs -----------------------------
(***************************************************************************)
(* What the main loop and the buttons can be relied on for, proved for     *)
(* every debouncing time and every width of millis(); and that in the mode *)
(* that it starts for the green button the device follows its path, for    *)
(* every path, any places and any distances between them.                  *)
(*                                                                         *)
(* LoopInv says of which phase the press is that a flag stands for. It is  *)
(* what the clearing at the end of a mode is for: without it a flag could  *)
(* still be set, back home, by a press made in the other mode.             *)
(***************************************************************************)
EXTENDS Watch, Tracking, FiniteSetTheorems, TLAPS

(* In a mode, its own flag is set only by a press made in it; at home no   *)
(* flag is set by a press made in the other mode; and once the loop has    *)
(* seen the blue flag nothing but the loop itself clears it.               *)
FlagsMatch ==
    /\ pressed["green"] /\ pc \in TrackingPlace => madeIn["green"] = "tracking"
    /\ pressed["blue"] /\ pc \in BluetoothPlace => madeIn["blue"] = "bluetooth"
    /\ pressed["green"] /\ pc \in HomePlace => madeIn["green"] # "bluetooth"
    /\ pressed["blue"] /\ pc \in HomePlace => madeIn["blue"] # "tracking"
    /\ pc = "takeBlue" => pressed["blue"]

(* A handler has run since the last press it accepted, so that the time it *)
(* looks at is no longer than the time since then.                         *)
SinceLast == \A b \in Button : ago[b] > Debounce \/ since[b] <= ago[b]

LoopInv == LoopTypeOK /\ FlagsMatch /\ SinceLast

Places == TrackingPlace \cup BluetoothPlace \cup HomePlace

LEMMA PhaseIsPhase ==
    ASSUME NEW p \in Places
    PROVE  /\ PhaseOf(p) \in Phase
           /\ p \in TrackingPlace => PhaseOf(p) = "tracking"
           /\ p \in BluetoothPlace => PhaseOf(p) = "bluetooth"
           /\ p \in HomePlace => PhaseOf(p) = "home"
BY DEF Places, PhaseOf, Phase, TrackingPlace, BluetoothPlace, HomePlace

LEMMA LoopInitInv == LoopInit => LoopInv
BY TimeAssumption DEF LoopInit, LoopInv, LoopTypeOK, FlagsMatch, SinceLast, Button, Phase,
   TrackingPlace, BluetoothPlace, HomePlace

LEMMA TickInv == LoopInv /\ Tick => LoopInv'
<1> SUFFICES ASSUME LoopInv, Tick PROVE LoopInv'
  OBVIOUS
<1> USE TimeAssumption
<1>1. LoopTypeOK'
  BY DEF LoopInv, LoopTypeOK, Tick
<1>2. FlagsMatch'
  BY DEF LoopInv, FlagsMatch, Tick
<1>3. SinceLast'
  BY DEF LoopInv, LoopTypeOK, SinceLast, Tick
<1> QED
  BY <1>1, <1>2, <1>3 DEF LoopInv

LEMMA PressInv == ASSUME NEW b \in Button PROVE LoopInv /\ HandlePress(b) => LoopInv'
<1> SUFFICES ASSUME LoopInv, HandlePress(b) PROVE LoopInv'
  OBVIOUS
<1> USE TimeAssumption
<1>1. pc \in Places
  BY DEF LoopInv, LoopTypeOK, Places
<1>2. LoopTypeOK'
  <2>1. PhaseOf(pc) \in Phase
    BY <1>1, PhaseIsPhase
  <2>2. 0 \in 0..Wrap - 1 /\ 0 \in 0..Debounce + 1
    OBVIOUS
  <2>3. since' \in [Button -> 0..Wrap - 1] /\ pc' = pc
    BY <2>2 DEF LoopInv, LoopTypeOK, HandlePress
  <2>4. /\ pressed' \in [Button -> BOOLEAN]
        /\ madeIn' \in [Button -> Phase]
        /\ ago' \in [Button -> 0..Debounce + 1]
    <3>1. CASE since[b] > Debounce
      BY <2>1, <2>2, <3>1 DEF LoopInv, LoopTypeOK, HandlePress
    <3>2. CASE ~ (since[b] > Debounce)
      BY <3>2 DEF LoopInv, LoopTypeOK, HandlePress
    <3> QED
      BY <3>1, <3>2
  <2> QED
    BY <2>3, <2>4 DEF LoopInv, LoopTypeOK
<1>3. FlagsMatch'
  <2>1. CASE since[b] > Debounce
    BY <1>1, <2>1, PhaseIsPhase DEF LoopInv, LoopTypeOK, FlagsMatch, HandlePress, Button
  <2>2. CASE ~ (since[b] > Debounce)
    BY <2>2 DEF LoopInv, FlagsMatch, HandlePress
  <2> QED
    BY <2>1, <2>2
<1>4. SinceLast'
  BY DEF LoopInv, LoopTypeOK, SinceLast, HandlePress
<1> QED
  BY <1>2, <1>3, <1>4 DEF LoopInv

LEMMA ProgramInv == LoopInv /\ Program => LoopInv'
<1> SUFFICES ASSUME LoopInv, Program PROVE LoopInv'
  OBVIOUS
<1>1. UNCHANGED <<since, madeIn, ago>>
  BY DEF Program, Goto, StartTracking, StartBluetooth, Initialized, EndTracking,
     StandBy, ClearBlue, PrintHomeFromTracking, SkipBlue, SeeBlue, TakeBlue, Advertised,
     EndSession, Asleep, EndBluetooth, ClearGreen, PrintHomeFromBluetooth
<1>2. LoopTypeOK'
  BY <1>1 DEF LoopInv, LoopTypeOK, Program, Goto, Take, Clear, Button, StartTracking,
     StartBluetooth, Initialized, EndTracking, StandBy, ClearBlue,
     PrintHomeFromTracking, SkipBlue, SeeBlue, TakeBlue, Advertised, EndSession, Asleep,
     EndBluetooth, ClearGreen, PrintHomeFromBluetooth,
     TrackingPlace, BluetoothPlace, HomePlace
<1>3. SinceLast'
  BY <1>1 DEF LoopInv, SinceLast
<1>4. FlagsMatch'
  <2> USE <1>1 DEF LoopInv, LoopTypeOK, FlagsMatch, Goto, Take, Clear, Button, Phase,
      TrackingPlace, BluetoothPlace, HomePlace
  <2>1. CASE StartTracking  BY <2>1 DEF StartTracking
  <2>2. CASE StartBluetooth  BY <2>2 DEF StartBluetooth
  <2>3. CASE Initialized \/ EndTracking \/ StandBy
    BY <2>3 DEF Initialized, EndTracking, StandBy
  <2>4. CASE ClearBlue  BY <2>4 DEF ClearBlue
  <2>5. CASE PrintHomeFromTracking \/ PrintHomeFromBluetooth
    BY <2>5 DEF PrintHomeFromTracking, PrintHomeFromBluetooth
  <2>6. CASE SkipBlue \/ SeeBlue  BY <2>6 DEF SkipBlue, SeeBlue
  <2>7. CASE TakeBlue  BY <2>7 DEF TakeBlue
  <2>8. CASE Advertised \/ EndSession \/ Asleep \/ EndBluetooth
    BY <2>8 DEF Advertised, EndSession, Asleep, EndBluetooth
  <2>9. CASE ClearGreen  BY <2>9 DEF ClearGreen
  <2> QED
    BY <2>1, <2>2, <2>3, <2>4, <2>5, <2>6, <2>7, <2>8, <2>9 DEF Program
<1> QED
  BY <1>2, <1>3, <1>4 DEF LoopInv

LEMMA LoopInvariance == LoopSpec => []LoopInv
<1>1. LoopInv /\ [LoopNext]_loop_vars => LoopInv'
  <2>1. LoopInv /\ UNCHANGED loop_vars => LoopInv'
    BY DEF loop_vars, LoopInv, LoopTypeOK, FlagsMatch, SinceLast
  <2> QED
    BY <2>1, TickInv, PressInv, ProgramInv DEF LoopNext
<1> QED
  BY <1>1, LoopInitInv, PTL DEF LoopSpec

(* The types of the flags, of the times and of the places in the program.  *)
THEOREM LoopTypeCorrect == LoopSpec => []LoopTypeOK
<1>1. LoopInv => LoopTypeOK
  BY DEF LoopInv
<1> QED
  BY <1>1, LoopInvariance, PTL

(* The main loop starts a mode for a press that has not been made in the   *)
(* other one, whenever that was.                                           *)
THEOREM ModesAreAskedFor == LoopSpec => OnlyAskedFor
<1> DEFINE Asked ==
      /\ pc' = "initialize" /\ pc # pc' => madeIn["green"] # "bluetooth"
      /\ pc' = "advertise" /\ pc # pc' => madeIn["blue"] # "tracking"
<1>1. LoopInv /\ [LoopNext]_loop_vars => [Asked]_loop_vars
  <2> SUFFICES ASSUME LoopInv, Program, pc' # pc PROVE Asked
    BY DEF LoopNext, loop_vars, Tick, HandlePress
  <2> QED
    BY DEF LoopInv, FlagsMatch, HomePlace, Program, Goto, Take, StartTracking,
       StartBluetooth, Initialized, EndTracking, StandBy, ClearBlue,
       PrintHomeFromTracking, SkipBlue, SeeBlue, TakeBlue, Advertised, EndSession,
       Asleep, EndBluetooth, ClearGreen, PrintHomeFromBluetooth
<1> QED
  BY <1>1, LoopInvariance, PTL DEF LoopSpec, OnlyAskedFor

(* A mode is ended by a press made in it, never by one that was already    *)
(* there when it began.                                                    *)
THEOREM ModesEndByOwnPress == LoopSpec => EndedByOwnPress
<1> DEFINE Own ==
      /\ pc = "tracking" /\ pressed' # pressed /\ pc' # pc
           => madeIn["green"] = "tracking"
      /\ pc \in {"session", "result"} /\ pressed' # pressed /\ pc' # pc
           => madeIn["blue"] = "bluetooth"
<1>1. LoopInv /\ [LoopNext]_loop_vars => [Own]_loop_vars
  <2> SUFFICES ASSUME LoopInv, Program, pc' # pc PROVE Own
    BY DEF LoopNext, loop_vars, Tick, HandlePress
  <2> QED
    BY DEF LoopInv, FlagsMatch, TrackingPlace, BluetoothPlace, Program, Goto, Take,
       StartTracking, StartBluetooth, Initialized, EndTracking, StandBy, ClearBlue,
       PrintHomeFromTracking, SkipBlue, SeeBlue, TakeBlue, Advertised, EndSession,
       Asleep, EndBluetooth, ClearGreen, PrintHomeFromBluetooth
<1> QED
  BY <1>1, LoopInvariance, PTL DEF LoopSpec, EndedByOwnPress

(* Two presses of a button that are accepted are more than the debouncing  *)
(* time apart, also when millis() has started over in between.             *)
THEOREM AcceptedPressesApart == LoopSpec => PressesApart
<1> DEFINE Apart ==
      \A b \in Button : (ago'[b] = 0 /\ ago'[b] # ago[b]) => ago[b] > Debounce
<1>1. LoopInv /\ [LoopNext]_loop_vars => [Apart]_loop_vars
  <2> SUFFICES ASSUME LoopInv, LoopNext PROVE Apart
    OBVIOUS
  <2>1. CASE Tick
    BY <2>1, TimeAssumption DEF LoopInv, LoopTypeOK, Tick
  <2>2. ASSUME NEW b \in Button, HandlePress(b) PROVE Apart
    BY <2>2, TimeAssumption DEF LoopInv, LoopTypeOK, SinceLast, HandlePress
  <2>3. CASE Program
    BY <2>3 DEF Program, Goto, StartTracking, StartBluetooth, Initialized, EndTracking,
       StandBy, ClearBlue, PrintHomeFromTracking, SkipBlue, SeeBlue, TakeBlue,
       Advertised, EndSession, Asleep, EndBluetooth, ClearGreen, PrintHomeFromBluetooth
  <2> QED
    BY <2>1, <2>2, <2>3 DEF LoopNext
<1> QED
  BY <1>1, LoopInvariance, PTL DEF LoopSpec, PressesApart

-----------------------------------------------------------------------------
(* Tracking.                                                               *)

(* A fix has been made if and only if the clock and the distance have      *)
(* something to start from.                                                *)
FixKnown ==
    /\ started => current \in Place
    /\ ~ started => numPoints = 0

(* The waypoint to go to is one of the path. All before it can have been   *)
(* visited by the fixes, and not it as well: unless the path is done.      *)
OnRoute ==
    (running /\ Count > 0) =>
        /\ next \in 1..Count
        /\ done => next = Count
        /\ waypoint = eeprom.slot[next]
        /\ Visitable(Visited)
        /\ ~ done => ~ Visitable(next)

Inv == TypeOK /\ FixKnown /\ OnRoute

-----------------------------------------------------------------------------
(* Facts about the operators of the model.                                 *)

(* Max finds the largest.                                                  *)
LEMMA MaxIsLargest ==
    ASSUME NEW S \in SUBSET Nat, NEW m \in S, \A n \in S : m >= n
    PROVE  Max(S) = m
<1>1. \A x \in S : (\A y \in S : x >= y) => x = m
  OBVIOUS
<1> QED BY <1>1 DEF Max

(* A set of numbers that is not empty has a least one.                     *)
LEMMA LeastNumber ==
    ASSUME NEW S \in SUBSET Nat, S # {}
    PROVE  \E n \in S : \A k \in S : n <= k
<1> DEFINE upTo == {0..n : n \in S}
<1>1. upTo \subseteq FiniteSubsetsOf(Nat)
  <2>1. ASSUME NEW n \in S PROVE 0..n \in SUBSET Nat /\ IsFiniteSet(0..n)
    <3>1. 0 \in Int /\ n \in Int
      OBVIOUS
    <3> QED BY <3>1, FS_Interval
  <2> QED BY <2>1 DEF FiniteSubsetsOf
<1>2. upTo # {}
  OBVIOUS
<1>3. PICK I \in upTo : \A J \in upTo : ~ (<<J, I>> \in StrictSubsetOrdering(Nat))
  <2> HIDE DEF upTo
  <2> QED BY <1>1, <1>2, FS_StrictSubsetOrderingWellFounded, WFMin
<1>4. PICK n \in S : I = 0..n
  BY <1>3
<1>5. ASSUME NEW k \in S, k < n PROVE FALSE
  <2>1. 0..k \in upTo /\ 0..k \in SUBSET Nat /\ 0..n \in SUBSET Nat
    OBVIOUS
  <2>2. 0..k \subseteq 0..n /\ n \in 0..n /\ n \notin 0..k
    BY <1>5
  <2>3. <<0..k, 0..n>> \in StrictSubsetOrdering(Nat)
    BY <2>1, <2>2 DEF StrictSubsetOrdering
  <2> QED BY <1>3, <1>4, <2>1, <2>3
<1>6. \A k \in S : n <= k
  BY <1>5
<1> QED BY <1>6

(* What can be visited by the fixes starts at the start.                   *)
LEMMA VisitablePrefix ==
    ASSUME NEW n \in Nat, NEW m \in 0..n, Visitable(n)
    PROVE  Visitable(m)
<1>1. PICK at \in [1..n -> 1..Len(fixes)] :
          /\ \A k \in 1..n : Near(eeprom.slot[k], fixes[at[k]])
          /\ \A k \in 1..n - 1 : at[k] <= at[k + 1]
  BY DEF Visitable
<1> DEFINE front == [k \in 1..m |-> at[k]]
<1>2. front \in [1..m -> 1..Len(fixes)]
  OBVIOUS
<1>3. \A k \in 1..m : Near(eeprom.slot[k], fixes[front[k]])
  BY <1>1
<1>4. \A k \in 1..m - 1 : front[k] <= front[k + 1]
  BY <1>1
<1> QED BY <1>2, <1>3, <1>4 DEF Visitable

(* The loop of update_waypoint ends: past what was written at the latest,  *)
(* where nothing is near. It skips no waypoint that it may not skip.       *)
LEMMA SkipStops ==
    ASSUME TypeOK, NEW p \in Place, Skip(p)
    PROVE  /\ next' \in next..Len(eeprom.slot) + 1
           /\ StopsAt(next', p)
           /\ \A k \in next..next' - 1 : ~ StopsAt(k, p)
<1> DEFINE last == Len(eeprom.slot) + 1
           S == {n \in next..last : StopsAt(n, p)}
<1>1. eeprom.slot \in Seq(Place) /\ last \in Nat /\ next \in 0..last
  BY TrackingAssumption DEF TypeOK
<1>2. last \in S
  BY <1>1, TrackingAssumption DEF StopsAt, Near, Waypoint
<1>3. PICK n \in S : \A k \in S : n <= k
  <2>1. S \in SUBSET Nat
    BY <1>1
  <2> QED BY <2>1, <1>2, LeastNumber
<1>4. \A k \in next..n - 1 : ~ StopsAt(k, p)
  BY <1>1, <1>3
<1>5. n \in next..last /\ StopsAt(n, p)
  BY <1>3
<1>6. \E m \in next..last : StopsAt(m, p) /\ \A k \in next..m - 1 : ~ StopsAt(k, p)
  BY <1>4, <1>5
<1>7. next' = CHOOSE m \in next..last :
          StopsAt(m, p) /\ \A k \in next..m - 1 : ~ StopsAt(k, p)
  BY DEF Skip
<1> QED BY <1>6, <1>7

(* What is in EEPROM is at least as long as its count says.                *)
LEMMA CountIsWritten ==
    ASSUME TypeOK
    PROVE  /\ eeprom.slot \in Seq(Place) /\ Len(eeprom.slot) \in Nat
           /\ Count \in Nat /\ Count <= Len(eeprom.slot)
<1>1. eeprom.slot \in Seq(Place) /\ eeprom.count \in 0..Len(eeprom.slot)
  BY TrackingAssumption DEF TypeOK
<1> QED BY <1>1 DEF Count

-----------------------------------------------------------------------------
(* The first fix, and the ones after it.                                   *)

(* A fix adds to what can be visited the waypoints that it is near, from   *)
(* the first one left on, and nothing else.                                *)
LEMMA FixExtends ==
    ASSUME TypeOK, NEW p \in Place, fixes' = Append(fixes, p), UNCHANGED eeprom,
           NEW v \in Nat, NEW w \in Nat, v <= w, Visitable(v),
           \A k \in v + 1..w : Near(eeprom.slot[k], p)
    PROVE  Visitable(w)'
<1>1. PICK at \in [1..v -> 1..Len(fixes)] :
          /\ \A k \in 1..v : Near(eeprom.slot[k], fixes[at[k]])
          /\ \A k \in 1..v - 1 : at[k] <= at[k + 1]
  BY DEF Visitable
<1> DEFINE now == Len(fixes) + 1
           longer == [k \in 1..w |-> IF k <= v THEN at[k] ELSE now]
<1>2. Len(fixes) \in Nat /\ Len(fixes') = now
  BY DEF TypeOK
<1>3. fixes'[now] = p /\ \A i \in 1..Len(fixes) : fixes'[i] = fixes[i]
  BY DEF TypeOK
<1>4. longer \in [1..w -> 1..Len(fixes')]
  BY <1>2
<1>5. \A k \in 1..w : Near(eeprom.slot[k], fixes'[longer[k]])
  BY <1>1, <1>3
<1>6. \A k \in 1..w - 1 : longer[k] <= longer[k + 1]
  BY <1>1, <1>2
<1>7. \E f \in [1..w -> 1..Len(fixes')] :
          /\ \A k \in 1..w : Near(eeprom.slot[k], fixes'[f[k]])
          /\ \A k \in 1..w - 1 : f[k] <= f[k + 1]
  BY <1>4, <1>5, <1>6
<1> QED BY <1>7 DEF Visitable, Near

LEMMA FixAddsNoMore ==
    ASSUME TypeOK, NEW p \in Place, fixes' = Append(fixes, p), UNCHANGED eeprom,
           NEW v \in Nat, NEW w \in Nat, v <= w, ~ Visitable(v + 1),
           ~ Near(eeprom.slot[w + 1], p)
    PROVE  ~ Visitable(w + 1)'
<1> SUFFICES ASSUME Visitable(w + 1)' PROVE FALSE
  OBVIOUS
<1>1. PICK at \in [1..w + 1 -> 1..Len(fixes')] :
          /\ \A k \in 1..w + 1 : Near(eeprom.slot[k], fixes'[at[k]])
          /\ \A k \in 1..(w + 1) - 1 : at[k] <= at[k + 1]
  <2>1. \E at \in [1..w + 1 -> 1..Len(fixes')] :
          /\ \A k \in 1..w + 1 : Near(eeprom'.slot[k], fixes'[at[k]])
          /\ \A k \in 1..(w + 1) - 1 : at[k] <= at[k + 1]
    BY DEF Visitable, Near
  <2> QED BY <2>1
<1>2. Len(fixes) \in Nat /\ Len(fixes') = Len(fixes) + 1
  BY DEF TypeOK
<1>3. fixes'[Len(fixes) + 1] = p /\ \A i \in 1..Len(fixes) : fixes'[i] = fixes[i]
  BY DEF TypeOK
<1>4. at[w + 1] # Len(fixes) + 1
  BY <1>1, <1>3
<1>5. \A k \in 1..w + 1 : at[k] # Len(fixes) + 1
  <2> DEFINE fromEnd == {j \in 0..w : at[w + 1 - j] = Len(fixes) + 1}
  <2> SUFFICES ASSUME fromEnd # {} PROVE FALSE
    <3>1. ASSUME NEW k \in 1..w + 1, at[k] = Len(fixes) + 1 PROVE w + 1 - k \in fromEnd
      BY <3>1
    <3> QED BY <3>1
  <2>1. fromEnd \in SUBSET Nat
    OBVIOUS
  <2>2. PICK j \in fromEnd : \A i \in fromEnd : j <= i
    BY <2>1, LeastNumber
  <2>3. j # 0
    BY <1>4
  <2>4. at[w + 1 - j] <= at[w + 1 - (j - 1)]
    BY <1>1, <2>3
  <2>5. at[w + 1 - (j - 1)] = Len(fixes) + 1
    <3>1. w + 1 - (j - 1) \in 1..w + 1
      BY <2>3
    <3>2. at[w + 1 - (j - 1)] \in 1..Len(fixes) + 1
      BY <1>1, <1>2, <3>1
    <3> QED BY <1>2, <2>4, <3>2
  <2>6. j - 1 \in fromEnd
    BY <2>3, <2>5
  <2>7. j \in Nat /\ j <= j - 1
    <3> HIDE DEF fromEnd
    <3> QED BY <2>1, <2>2, <2>6
  <2> QED BY <2>7
<1>6. at \in [1..w + 1 -> 1..Len(fixes)]
  <2>1. \A k \in 1..w + 1 : at[k] \in 1..Len(fixes)
    BY <1>1, <1>2, <1>5
  <2> QED BY <2>1
<1>7. \A k \in 1..w + 1 : Near(eeprom.slot[k], fixes[at[k]])
  BY <1>1, <1>3, <1>6
<1>8. Visitable(w + 1)
  <2>1. \A k \in 1..(w + 1) - 1 : at[k] <= at[k + 1]
    BY <1>1
  <2> QED BY <1>6, <1>7, <2>1 DEF Visitable
<1> QED BY <1>8, VisitablePrefix

-----------------------------------------------------------------------------
(* The inductive invariant.                                                *)

LEMMA InitInv == Init => Inv
<1> SUFFICES ASSUME Init PROVE Inv
  OBVIOUS
<1>1. eeprom.slot \in Seq(Place)
  BY TrackingAssumption DEF Init
<1>2. MaxInt \in Nat /\ MaxLines \in Nat
  BY TrackingAssumption
<1>3. TypeOK
  <2>1. running \in BOOLEAN /\ started \in BOOLEAN /\ done \in BOOLEAN
    BY DEF Init
  <2>2. /\ next \in 0..Len(eeprom.slot) + 1 /\ walked \in Nat /\ lines \in 0..MaxLines
        /\ numPoints \in Int16 /\ elapsed \in Int16
    BY <1>1, <1>2 DEF Init, Int16
  <2>3. fixes \in Seq(Place)
    BY DEF Init
  <2> QED BY <2>1, <2>2, <2>3 DEF Init, TypeOK
<1> QED BY <1>3 DEF Init, Inv, FixKnown, OnRoute

(* Nothing is needed to visit no waypoint, and without a fix none is.      *)
LEMMA NoFixNoVisit ==
    ASSUME fixes = <<>>
    PROVE  Visitable(0) /\ ~ Visitable(1)
<1>1. [k \in 1..0 |-> 0] \in [1..0 -> 1..Len(fixes)]
  OBVIOUS
<1>2. Visitable(0)
  <2> DEFINE at == [k \in 1..0 |-> 0]
  <2>1. /\ \A k \in 1..0 : Near(eeprom.slot[k], fixes[at[k]])
        /\ \A k \in 1..0 - 1 : at[k] <= at[k + 1]
    OBVIOUS
  <2> HIDE DEF at
  <2> QED BY <1>1, <2>1 DEF Visitable, at
<1>3. ~ Visitable(1)
  BY DEF Visitable
<1> QED BY <1>2, <1>3

LEMMA BeginInv == Inv /\ Begin => Inv'
<1> SUFFICES ASSUME Inv, Begin PROVE Inv'
  OBVIOUS
<1>1. Count \in Nat /\ Count <= Len(eeprom.slot) /\ eeprom.slot \in Seq(Place)
  BY CountIsWritten DEF Inv
<1>2. waypoint' \in Place \cup {Nowhere}
  BY <1>1 DEF Begin, Waypoint
<1>3. TypeOK'
  <2>1. MaxInt \in Nat /\ MaxLines \in Nat
    BY TrackingAssumption
  <2>2. running' \in BOOLEAN /\ started' \in BOOLEAN /\ done' \in BOOLEAN
    BY DEF Begin
  <2>3. /\ next' \in 0..Len(eeprom.slot) + 1 /\ walked' \in Nat /\ lines' \in 0..MaxLines
        /\ numPoints' \in Int16 /\ elapsed' \in Int16
    BY <1>1, <2>1 DEF Begin, Int16
  <2>4. fixes' \in Seq(Place)
    BY DEF Begin
  <2> QED BY <1>2, <2>2, <2>3, <2>4 DEF Inv, TypeOK, Begin, Int16
<1>4. FixKnown'
  BY DEF Begin, FixKnown
<1>5. ASSUME (running /\ Count > 0)'
      PROVE  /\ next' \in 1..Count'
             /\ waypoint' = eeprom'.slot[next']
             /\ Visitable(Visited)'
             /\ ~ Visitable(next)'
  <2>1. Count' = Count
    BY DEF Begin, Count
  <2>2. waypoint' = eeprom.slot[1]
    BY <1>1, <1>5, <2>1 DEF Begin, Waypoint
  <2>3. (Visitable(0) /\ ~ Visitable(1))'
    <3>1. (fixes = <<>>)'
      BY DEF Begin
    <3>2. (fixes = <<>> => Visitable(0) /\ ~ Visitable(1))'
      BY NoFixNoVisit, PTL
    <3> QED BY <3>1, <3>2
  <2>4. (Visited = 0 /\ next = 1)'
    BY DEF Begin, Visited
  <2> QED BY <1>1, <1>5, <2>1, <2>2, <2>3, <2>4 DEF Begin
<1>6. OnRoute'
  BY <1>5 DEF OnRoute, Begin
<1> QED BY <1>3, <1>4, <1>6 DEF Inv

LEMMA InvalidLineInv == Inv /\ InvalidLine => Inv'
<1> SUFFICES ASSUME Inv, InvalidLine PROVE Inv'
  OBVIOUS
<1>1. TypeOK'
  BY TrackingAssumption DEF Inv, TypeOK, InvalidLine, Increment, Int16
<1>2. FixKnown'
  BY DEF Inv, InvalidLine, FixKnown
<1>3. OnRoute'
  BY DEF Inv, InvalidLine, OnRoute, Count, Visited, Visitable
<1> QED BY <1>1, <1>2, <1>3 DEF Inv

LEMMA FinishInv == Inv /\ Finish => Inv'
<1> SUFFICES ASSUME Inv, Finish PROVE Inv'
  OBVIOUS
<1>1. TypeOK' /\ FixKnown'
  BY DEF Inv, TypeOK, Finish, FixKnown
<1>2. OnRoute'
  BY DEF Finish, OnRoute
<1> QED BY <1>1, <1>2 DEF Inv

(* The waypoints left behind by a fix are those that it is near; the first *)
(* that it is not near, or the last one, is where to go.                   *)
LEMMA FixFollowsRoute ==
    ASSUME Inv, NEW p \in Place, Fix(p), running, Count > 0
    PROVE  OnRoute'
<1>1. /\ Count \in Nat /\ Count <= Len(eeprom.slot)
      /\ eeprom.slot \in Seq(Place) /\ Len(eeprom.slot) \in Nat
  BY CountIsWritten DEF Inv
<1>2. Count' = Count /\ eeprom' = eeprom /\ fixes' = Append(fixes, p)
  BY DEF Fix, Count
<1>3. /\ next \in 1..Count /\ (done => next = Count) /\ waypoint = eeprom.slot[next]
      /\ Visitable(Visited) /\ (~ done => ~ Visitable(next))
  BY DEF Inv, OnRoute
<1>4. CASE done
  <2>1. next' = next /\ waypoint' = waypoint /\ done'
    BY <1>4 DEF Fix, Visit
  <2>2. PICK c \in Nat : c = Count
    BY <1>1
  <2>3. Visited = c /\ Visited' = c
    BY <1>2, <1>3, <1>4, <2>1, <2>2 DEF Visited
  <2>4. Visitable(c)'
    BY <1>2, <1>3, <2>2, <2>3, FixExtends DEF Inv
  <2>5. Visitable(Visited)'
    BY <2>3, <2>4
  <2> QED BY <1>2, <1>3, <1>4, <2>1, <2>5 DEF OnRoute
<1>5. CASE ~ done
  <2>1. Skip(p) /\ waypoint' = Waypoint(next') /\ done' = Near(waypoint', p)
    BY <1>5 DEF Fix, Visit
  <2>2. /\ next' \in next..Len(eeprom.slot) + 1
        /\ StopsAt(next', p)
        /\ \A k \in next..next' - 1 : ~ StopsAt(k, p)
    BY <2>1, SkipStops DEF Inv
  <2>3. PICK n \in Nat, v \in Nat : n = next' /\ v = next - 1
    BY <1>1, <1>3, <2>2
  <2>4. /\ n \in v + 1..Len(eeprom.slot) + 1
        /\ StopsAt(n, p)
        /\ \A k \in v + 1..n - 1 : ~ StopsAt(k, p)
    <3>1. v + 1 = next /\ next \in Nat
      BY <1>1, <1>3, <2>3
    <3> QED BY <2>2, <2>3, <3>1
  <2>5. \A k \in 1..Count : Waypoint(k) = eeprom.slot[k]
    BY <1>1 DEF Waypoint
  <2>6. n \in 1..Count
    <3>1. CASE n > Count
      <4>1. Count \in v + 1..n - 1
        BY <1>1, <1>3, <2>3, <3>1
      <4> QED BY <2>4, <4>1 DEF StopsAt
    <3> QED BY <1>1, <1>3, <2>3, <2>4, <3>1
  <2>7. waypoint' = eeprom.slot[n]
    BY <2>1, <2>3, <2>5, <2>6
  <2>8. \A k \in v + 1..n - 1 : Near(eeprom.slot[k], p)
    <3> SUFFICES ASSUME NEW k \in v + 1..n - 1 PROVE Near(eeprom.slot[k], p)
      OBVIOUS
    <3>1. k \in 1..Count
      <4>1. n <= Count
        BY <2>6
      <4> QED BY <1>1, <4>1
    <3> QED BY <2>4, <2>5, <3>1 DEF StopsAt
  <2>9. Visitable(v) /\ ~ Visitable(v + 1)
    BY <1>3, <1>5, <2>3 DEF Visited
  <2>10. CASE Near(eeprom.slot[n], p)
    <3>1. n = Count /\ done'
      BY <2>1, <2>4, <2>5, <2>6, <2>7, <2>10 DEF StopsAt
    <3>2. Visited' = n
      BY <2>3, <3>1 DEF Visited
    <3>3. \A k \in v + 1..n : Near(eeprom.slot[k], p)
      BY <2>8, <2>10
    <3>4. Visitable(n)'
      BY <1>2, <2>4, <2>9, <3>3, FixExtends DEF Inv
    <3>5. Visitable(Visited)'
      BY <3>2, <3>4
    <3> QED BY <1>2, <2>3, <2>6, <2>7, <3>1, <3>5 DEF OnRoute
  <2>11. CASE ~ Near(eeprom.slot[n], p)
    <3>1. ~ done'
      BY <2>1, <2>7, <2>11
    <3>2. PICK w \in Nat : w + 1 = n
      BY <2>6
    <3>3. Visited' = w
      <4>1. Visited' = next' - 1
        BY <3>1 DEF Visited
      <4>2. Visited' = n - 1
        BY <2>3, <4>1
      <4>3. n - 1 = w
        BY <3>2
      <4> QED BY <4>2, <4>3
    <3>4. v <= w /\ \A k \in v + 1..w : Near(eeprom.slot[k], p)
      BY <2>4, <2>8, <3>2
    <3>5. Visitable(w)'
      BY <1>2, <2>9, <3>4, FixExtends DEF Inv
    <3>6. ~ Visitable(w + 1)'
      BY <1>2, <2>9, <2>11, <3>2, <3>4, FixAddsNoMore DEF Inv
    <3>7. Visitable(Visited)' /\ ~ Visitable(next)'
      BY <2>3, <3>2, <3>3, <3>5, <3>6
    <3> QED BY <1>2, <2>3, <2>6, <2>7, <3>1, <3>7 DEF OnRoute
  <2> QED BY <2>10, <2>11
<1> QED BY <1>4, <1>5

LEMMA FixInv == Inv /\ (\E p \in Place : Fix(p)) => Inv'
<1> SUFFICES ASSUME Inv, NEW p \in Place, Fix(p) PROVE Inv'
  OBVIOUS
<1>1. TypeOK /\ FixKnown
  BY DEF Inv
<1>2. MaxInt \in Nat \ {0} /\ MaxLines \in Nat /\ Distance \in [Place \X Place -> Nat]
  BY TrackingAssumption
<1>3. Len(eeprom.slot) \in Nat
  BY <1>1, CountIsWritten
<1>4. next' \in 0..Len(eeprom.slot) + 1 /\ waypoint' \in Place \cup {Nowhere}
      /\ done' \in BOOLEAN
  <2>1. CASE done
    BY <1>1, <2>1 DEF Fix, Visit, TypeOK
  <2>2. CASE ~ done
    <3>1. Skip(p) /\ waypoint' = Waypoint(next') /\ done' = Near(waypoint', p)
      BY <2>2 DEF Fix, Visit
    <3>2. next' \in next..Len(eeprom.slot) + 1
      BY <1>1, <3>1, SkipStops
    <3>3. waypoint' \in Place \cup {Nowhere}
      BY <1>1, <3>1, CountIsWritten DEF Waypoint
    <3>4. Near(waypoint', p) \in BOOLEAN
      BY DEF Near
    <3>5. next \in 0..Len(eeprom.slot) + 1
      BY <1>1 DEF TypeOK
    <3> QED BY <1>3, <3>1, <3>2, <3>3, <3>4, <3>5
  <2> QED BY <2>1, <2>2
<1>5. walked' \in Nat
  <2>1. numPoints' > 1 => current \in Place
    BY <1>1, <1>2 DEF FixKnown, Fix, Move, Increment, TypeOK, Int16
  <2>2. current \in Place => Distance[<<current, p>>] \in Nat
    BY <1>2
  <2>3. walked \in Nat /\ walked' = IF numPoints' > 1 THEN walked + Distance[<<current, p>>]
                                                      ELSE walked
    BY <1>1 DEF Fix, Move, TypeOK
  <2> QED BY <2>1, <2>2, <2>3
<1>6. numPoints' \in Int16 /\ elapsed' \in Int16 /\ lines' \in 0..MaxLines
  BY <1>1, <1>2 DEF Fix, Move, Increment, TypeOK, Int16
<1>7. running' \in BOOLEAN /\ started' \in BOOLEAN
  BY <1>1 DEF Fix, TypeOK
<1>8. fixes' \in Seq(Place) /\ current' \in Place
  BY <1>1 DEF Fix, Move, TypeOK
<1>9. TypeOK'
  BY <1>1, <1>4, <1>5, <1>6, <1>7, <1>8 DEF Fix, TypeOK, Int16
<1>10. FixKnown'
  BY <1>8 DEF FixKnown, Fix
<1>11. OnRoute'
  <2>1. (running /\ Count > 0)' => running /\ Count > 0
    BY DEF Fix, Count
  <2>2. CASE running /\ Count > 0
    BY <2>2, FixFollowsRoute
  <2> QED BY <2>1, <2>2 DEF OnRoute
<1> QED BY <1>9, <1>10, <1>11 DEF Inv

LEMMA NextInv == Inv /\ [Next]_vars => Inv'
<1> SUFFICES ASSUME Inv, [Next]_vars PROVE Inv'
  OBVIOUS
<1>1. CASE UNCHANGED vars
  BY <1>1 DEF vars, Inv, TypeOK, FixKnown, OnRoute, Count, Visited, Visitable
<1>2. CASE Next
  BY <1>2, BeginInv, InvalidLineInv, FixInv, FinishInv DEF Next
<1> QED BY <1>1, <1>2

(* How far the device has got is as far as its fixes allow.                *)
LEMMA OnRouteIsRouteFollowed == Inv => RouteFollowed
<1> SUFFICES ASSUME Inv, running, Count > 0
             PROVE  /\ Visited = Max({n \in 0..Count : Visitable(n)})
                    /\ done <=> Visited = Count
                    /\ waypoint = eeprom.slot[next]
  BY DEF RouteFollowed
<1> DEFINE S == {n \in 0..Count : Visitable(n)}
<1>1. /\ next \in 1..Count /\ (done => next = Count) /\ waypoint = eeprom.slot[next]
      /\ Visitable(Visited) /\ (~ done => ~ Visitable(next))
  BY DEF Inv, OnRoute
<1>2. Count \in Nat
  BY CountIsWritten DEF Inv
<1>3. Visited \in 0..Count /\ (done <=> Visited = Count) /\ (~ done => next = Visited + 1)
  <2>1. CASE done
    BY <1>1, <1>2, <2>1 DEF Visited
  <2>2. CASE ~ done
    BY <1>1, <1>2, <2>2 DEF Visited
  <2> QED BY <2>1, <2>2
<1>4. Visited \in S
  BY <1>1, <1>3
<1>5. ASSUME NEW n \in S PROVE Visited >= n
  <2>1. CASE done
    BY <1>2, <1>3, <2>1
  <2>2. CASE ~ done
    <3> SUFFICES ASSUME n > Visited PROVE FALSE
      BY <1>2, <1>3
    <3>1. Visited + 1 \in 0..n /\ n \in Nat /\ Visitable(n)
      BY <1>2, <1>3
    <3>2. Visitable(Visited + 1)
      BY <3>1, VisitablePrefix
    <3> QED BY <1>1, <1>3, <2>2, <3>2
  <2> QED BY <2>1, <2>2
<1>6. S \in SUBSET Nat
  BY <1>2
<1>7. Visited = Max(S)
  <2> HIDE DEF S
  <2> QED BY <1>4, <1>5, <1>6, MaxIsLargest
<1> QED BY <1>1, <1>3, <1>7

-----------------------------------------------------------------------------
(* The theorems.                                                           *)

(* tracking_record_t and tracking_data_t hold what their types say; the    *)
(* reader is never more than one past what a transfer has written, however *)
(* short the path is.                                                      *)
THEOREM TrackingTypeCorrect == Spec => []TypeOK
<1>1. Init => Inv
  BY InitInv
<1>2. Inv /\ [Next]_vars => Inv'
  BY NextInv
<1>3. Inv => TypeOK
  BY DEF Inv
<1> QED BY <1>1, <1>2, <1>3, PTL DEF Spec

(* update_waypoint passes the waypoints in order, each with a visit, and   *)
(* gets as far as the fixes allow, for any path, places and distances.     *)
THEOREM RouteIsFollowed == Spec => []RouteFollowed
<1>1. Init => Inv
  BY InitInv
<1>2. Inv /\ [Next]_vars => Inv'
  BY NextInv
<1>3. Inv => RouteFollowed
  BY OnRouteIsRouteFollowed
<1> QED BY <1>1, <1>2, <1>3, PTL DEF Spec

=============================================================================
