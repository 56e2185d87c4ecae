------------------------------- MODULE AciLink -------------------------------
(***************************************************************************)
(* What the transport layer promises to the driver above it: a queue of    *)
(* commands to the radio and one of events from it, both bounded and FIFO, *)
(* and transfers that exchange the oldest command for the oldest event the *)
(* radio has, while there is room for one. Nothing is lost, repeated or    *)
(* reordered, and no queue holds more than QueueSize.                      *)
(*                                                                         *)
(* AciTransport, with its bytes, slots, interrupt and handshake, implements *)
(* this; Bluetooth and AciSetup are about drivers that use it.             *)
(***************************************************************************)
EXTENDS Naturals, Sequences

CONSTANTS
    QueueSize,      \* packets that a queue holds
    Command, Event

VARIABLES
    tx, rx,         \* commands to, and events from, the radio
    waiting         \* the events that the radio has yet to hand over

vars == <<tx, rx, waiting>>

(* What t has, s begins with: packets are only added behind.               *)
Extends(s, t) == Len(t) <= Len(s) /\ \A i \in 1..Len(t) : s[i] = t[i]

(* s without its first packet, and the sequence of that packet.            *)
Rest(s) == IF s = <<>> THEN s ELSE Tail(s)
Oldest(s) == IF s = <<>> THEN s ELSE <<Head(s)>>

Init ==
    /\ tx \in Seq(Command) /\ Len(tx) <= QueueSize
    /\ rx = <<>>
    /\ waiting \in Seq(Event)

(* The program queues commands, as many as there is room for.              *)
QueuesCommands == tx' \in Seq(Command) /\ Extends(tx', tx) /\ Len(tx') <= QueueSize

(* The radio has more to report.                                           *)
HasEvents(left) == waiting' \in Seq(Event) /\ Extends(waiting', left)

Send == QueuesCommands /\ UNCHANGED <<rx, waiting>>

(* The program takes an event, and may answer it.                          *)
Take ==
    /\ rx # <<>>
    /\ rx' = Tail(rx)
    /\ QueuesCommands
    /\ UNCHANGED waiting

Report == HasEvents(waiting) /\ UNCHANGED <<tx, rx>>

(* The radio may report at once what it makes of the command.              *)
Transfer ==
    /\ Len(rx) < QueueSize
    /\ tx' = Rest(tx)
    /\ rx' = rx \o Oldest(waiting)
    /\ HasEvents(Rest(waiting))

Next == Send \/ Take \/ Report \/ Transfer

Spec == Init /\ [][Next]_vars

=============================================================================
