---------------------------- MODULE WaypointPath ----------------------------
(***************************************************************************)
(* What waypoint storage promises to the rest of the tracker: at any time  *)
(* it holds one whole path or none, and a path is replaced only by another *)
(* path that has arrived completely, coordinate by coordinate.             *)
(*                                                                         *)
(* The header of waypoint_writer.h gives the promise: "Only one waypoint   *)
(* path can be stored at any given time" and "The path will not be valid   *)
(* until count points have been written."                                  *)
(***************************************************************************)
EXTENDS Naturals, Sequences

CONSTANTS
    Float,          \* values of a latitude or a longitude
    MaxWaypoints,   \* longest path that is accepted
    NoPath,         \* nothing usable is stored
    NoCount         \* no transfer is in progress

VARIABLES
    path,           \* the stored path: a sequence of points, or NoPath
    expected,       \* number of points of the transfer in progress, or NoCount
    incoming        \* coordinates received by the transfer in progress

vars == <<path, expected, incoming>>

Point == Float \X Float

TypeOK ==
    /\ path \in Seq(Point) \cup {NoPath}
    /\ expected \in (0..MaxWaypoints) \cup {NoCount}
    /\ incoming \in Seq(Float)

Init ==
    /\ path = NoPath
    /\ expected = NoCount
    /\ incoming = <<>>

-----------------------------------------------------------------------------

(* A transfer of n points is accepted: the previous path is given up.      *)
Begin(n) ==
    /\ expected = NoCount
    /\ path' = NoPath
    /\ expected' = n
    /\ incoming' = <<>>

(* The next coordinate of the transfer arrives.                            *)
Receive(c) ==
    /\ expected # NoCount
    /\ Len(incoming) < 2 * expected
    /\ incoming' = Append(incoming, c)
    /\ UNCHANGED <<path, expected>>

(* All coordinates are there: they become the stored path.                 *)
Commit ==
    /\ expected # NoCount
    /\ Len(incoming) = 2 * expected
    /\ path' = [i \in 1..expected |-> <<incoming[2 * i - 1], incoming[2 * i]>>]
    /\ expected' = NoCount
    /\ incoming' = <<>>

(* The transfer ends before it is complete, and stores nothing.            *)
Abandon ==
    /\ expected # NoCount
    /\ expected' = NoCount
    /\ incoming' = <<>>
    /\ UNCHANGED path

(* A transfer ends at the moment it has given up the previous path.        *)
Forget ==
    /\ expected = NoCount
    /\ path' = NoPath
    /\ UNCHANGED <<expected, incoming>>

Next ==
    \/ \E n \in 0..MaxWaypoints : Begin(n)
    \/ \E c \in Float : Receive(c)
    \/ Commit
    \/ Abandon
    \/ Forget

Spec == Init /\ [][Next]_vars

=============================================================================
