------------------------------ MODULE Tracking ------------------------------
(***************************************************************************)
(* Tracking mode, run_tracking of src.ino: it follows the stored path with *)
(* a waypoint reader, one GPS line after another, and keeps the distance   *)
(* covered and the number of the waypoint to go to.                        *)
(*                                                                         *)
(* A place stands for a pair of coordinates, and Distance for haversine.   *)
(* What is in EEPROM does not change while tracking; it is an image that a *)
(* transfer, complete or not, may have left there.                         *)
(***************************************************************************)
EXTENDS Integers, Sequences, FiniteSetsExt

CONSTANTS
    Place,          \* where a waypoint, or the device, may be
    Distance,       \* metres between two places
    Image,          \* what EEPROM may hold: [valid, count, slot]
    Nowhere,        \* what a float that was never written reads as: no place
    MaxInt,         \* the largest int
    MaxLines        \* bound: GPS lines in a session

ASSUME TrackingAssumption ==
    /\ Distance \in [Place \X Place -> Nat]
    /\ \A image \in Image :
          /\ image.valid \in BOOLEAN
          /\ image.slot \in Seq(Place)
          /\ image.count \in 0..Len(image.slot)
    /\ Nowhere \notin Place
    /\ MaxInt \in Nat \ {0}
    /\ MaxLines \in Nat

WAYPOINT_DISTANCE_THRESHOLD == 100

VARIABLES
    eeprom,         \* the image
    running,        \* inside run_tracking
    next,           \* waypoint_reader_t: how many waypoints have been read
    started,        \* a fix has been made
    numPoints,      \* tracking_record_t
    waypoint,
    current,
    elapsed,        \* tracking_data_t
    walked,
    done,
    lines,          \* history: GPS lines of this session
    fixes           \* history: the places of its fixes

vars == <<eeprom, running, next, started, numPoints, waypoint, current,
          elapsed, walked, done, lines, fixes>>

Int16 == -MaxInt - 1..MaxInt

TypeOK ==
    /\ eeprom \in Image
    /\ running \in BOOLEAN /\ started \in BOOLEAN /\ done \in BOOLEAN
    /\ next \in 0..Len(eeprom.slot) + 1 /\ walked \in Nat /\ lines \in 0..MaxLines
    /\ numPoints \in Int16 /\ elapsed \in Int16
    /\ waypoint \in Place \cup {Nowhere} /\ current \in Place \cup {Nowhere}
    /\ fixes \in Seq(Place)

(* One more, in an int.                                                    *)
Increment(n) == IF n = MaxInt THEN -MaxInt - 1 ELSE n + 1

(* waypoint_reader_count, and the n-th waypoint that get_next reads.       *)
Count == IF eeprom.valid THEN eeprom.count ELSE 0
Waypoint(n) == IF n \in DOMAIN eeprom.slot THEN eeprom.slot[n] ELSE Nowhere

(* Any comparison with no number is false.                                 *)
Near(w, p) == w \in Place /\ Distance[<<w, p>>] < WAYPOINT_DISTANCE_THRESHOLD

Init ==
    /\ eeprom \in Image
    /\ running = FALSE /\ started = FALSE /\ done = FALSE
    /\ next = 0 /\ waypoint = Nowhere /\ current = Nowhere
    /\ numPoints = 0 /\ elapsed = 0 /\ walked = 0
    /\ lines = 0 /\ fixes = <<>>

-----------------------------------------------------------------------------

(* The first waypoint is read at once, whatever the count.                 *)
Begin ==
    /\ ~ running
    /\ running' = TRUE
    /\ next' = 1 /\ waypoint' = Waypoint(1)
    /\ started' = FALSE /\ done' = FALSE
    /\ numPoints' = 0 /\ elapsed' = 0 /\ walked' = 0
    /\ lines' = 0 /\ fixes' = <<>>
    /\ current' = Nowhere
    /\ UNCHANGED eeprom

(* A GPS line without a fix, or with a bad checksum, only advances the     *)
(* clock that the display shows.                                           *)
InvalidLine ==
    /\ running /\ lines < MaxLines
    /\ lines' = lines + 1
    /\ elapsed' = IF started THEN Increment(elapsed) ELSE elapsed
    /\ UNCHANGED <<eeprom, running, next, started, numPoints, waypoint, current,
                   walked, done, fixes>>

(* update_tracking_record and update_tracking_data at a fix.               *)
Move(p) ==
    /\ current' = p
    /\ numPoints' = Increment(numPoints)
    /\ walked' = IF numPoints' > 1 THEN walked + Distance[<<current, p>>] ELSE walked

(* MUTANT: the path ends before its last waypoint.                         *)
StopsEarly(n, p) == ~ Near(Waypoint(n), p) \/ n = Count - 1

(* The loop of update_waypoint leaves the waypoints that the fix is near   *)
(* behind, up to the first that it is not near or that is the last one.    *)
StopsAt(n, p) == ~ Near(Waypoint(n), p) \/ n = Count

Skip(p) ==
    next' = CHOOSE n \in next..Len(eeprom.slot) + 1 :
                StopsAt(n, p) /\ \A k \in next..n - 1 : ~ StopsAt(k, p)

(* MUTANT: every fix moves on to the next waypoint.                        *)
VisitEveryFix(p) ==
    /\ next' = next + 1
    /\ waypoint' = Waypoint(next')
    /\ UNCHANGED done

Visit(p) ==
    IF done
    THEN UNCHANGED <<next, waypoint, done>>
    ELSE /\ Skip(p)
         /\ waypoint' = Waypoint(next')
         /\ done' = Near(waypoint', p)

Fix(p) ==
    /\ running /\ lines < MaxLines
    /\ lines' = lines + 1 /\ fixes' = Append(fixes, p)
    /\ started' = TRUE
    /\ Move(p)
    /\ Visit(p)
    /\ elapsed' = Increment(elapsed)
    /\ UNCHANGED <<eeprom, running>>

(* The green button.                                                       *)
Finish ==
    /\ running
    /\ running' = FALSE
    /\ UNCHANGED <<eeprom, next, started, numPoints, waypoint, current,
                   elapsed, walked, done, lines, fixes>>

Next ==
    \/ Begin
    \/ InvalidLine
    \/ \E p \in Place : Fix(p)
    \/ Finish

Spec == Init /\ [][Next]_vars

-----------------------------------------------------------------------------
(* Properties                                                              *)

(* The first n waypoints can be visited, in order, by these fixes: each is *)
(* near one, and no later waypoint needs an earlier fix.                   *)
Visitable(n) ==
    \E at \in [1..n -> 1..Len(fixes)] :
        /\ \A k \in 1..n : Near(eeprom.slot[k], fixes[at[k]])
        /\ \A k \in 1..n - 1 : at[k] <= at[k + 1]

Visited == IF done THEN next ELSE next - 1

(* Along a stored path the device has got as far as its fixes allow: no    *)
(* waypoint is passed without a visit, none is asked for a second time,    *)
(* and the path is done when the last has been visited.                    *)
RouteFollowed ==
    (running /\ Count > 0) =>
        /\ Visited = Max({n \in 0..Count : Visitable(n)})
        /\ done <=> Visited = Count
        /\ waypoint = eeprom.slot[next]

=============================================================================
