------------------------------ MODULE Bluetooth ------------------------------
(***************************************************************************)
(* A Bluetooth session: run_bluetooth and get_and_store_waypoints of       *)
(* src.ino on the driver bluetooth.cpp, from the blue press that starts it *)
(* to the one that dismisses its result.                                   *)
(*                                                                         *)
(* The transport below is what AciTransport provides: a queue of commands  *)
(* and a queue of events, both FIFO, whose transfers exchange a command    *)
(* for an event. The storage above is WaypointPath, which WaypointStore    *)
(* implements. Between them run the program, one poll of the radio at a    *)
(* time; the nRF8001; phones, each of which connects, sends the messages   *)
(* of its path in order, and may hang up at any time; and the user.        *)
(***************************************************************************)
EXTENDS Naturals, Sequences

CONSTANTS
    QueueSize,          \* ACI_QUEUE_SIZE
    MaxLinks,           \* bound: connections that phones make
    MaxUnread,          \* a phone that acts with as many events unread is early
    Points,             \* the number of points of every phone's path
    CoordinateCount,    \* what atoi makes of each coordinate message
    MaxWaypoints,       \* MAX_WAYPOINTS
    NoPath, NoCount,    \* as in WaypointPath
    NoMessage           \* uart_buffer before the first message

ASSUME ParametersAssumption ==
    /\ QueueSize \in Nat \ {0}
    /\ MaxLinks \in Nat
    /\ MaxUnread \in Nat
    /\ Points \in 0..MaxWaypoints
    /\ CoordinateCount \in [2..1 + 2 * Points -> 0..255]
    /\ MaxWaypoints \in 1..255
    /\ NoCount \notin Nat

VARIABLES
    blue,               \* g_blue_button_pressed
    pc,                 \* where the program is
    status,             \* bluetooth_t
    hasMessage,
    buffer,
    timingDone,
    tx, rx,             \* commands to, and events from, the radio
    mode, waiting,      \* the radio, and the events it has yet to hand over
    link, spoken,       \* connections made, messages sent on the latest
    early,              \* history: a phone was early
    before,             \* history: connections made before the radio was last
                        \* told to advertise
    taken,              \* history: messages given to the writer in this session
    path, expected, incoming

driver == <<status, hasMessage, buffer, timingDone>>
radio == <<mode, waiting>>
phone == <<link, spoken, early>>
storage == <<path, expected, incoming>>
vars == <<blue, pc, driver, tx, rx, radio, phone, before, taken, storage>>

(* The k-th message of a connection: first the count, then coordinates.    *)
Length == 1 + 2 * Points
Message == [link : 1..MaxLinks, number : 1..Length]
CountOf(m) == IF m.number = 1 THEN Points ELSE CoordinateCount[m.number]

Store == INSTANCE WaypointPath WITH Float <- Message

Command == {"wakeup", "connect", "disconnect", "radio_reset", "sleep",
            "device_version", "change_timing", "set_local_data"}

EventType == {"started", "wakeup_rsp", "connect_rsp", "version_rsp", "other_rsp",
              "connected", "pipes", "timing", "disconnected", "data"}
Event == [type : EventType, link : 0..MaxLinks, number : 0..Length]

(* Events of these types, about the latest connection.                     *)
Report(types) ==
    [i \in 1..Len(types) |-> [type |-> types[i], link |-> link, number |-> 0]]

TypeOK ==
    /\ blue \in BOOLEAN
    /\ pc \in {"home", "wake", "advertise", "receive", "received", "commit", "sleep",
               "hangup", "result"}
    /\ status \in {"STANDBY", "ADVERTISING", "CONNECTED", "SLEEPING"}
    /\ hasMessage \in BOOLEAN /\ timingDone \in BOOLEAN
    /\ buffer \in Message \cup {NoMessage}
    /\ tx \in Seq(Command) /\ Len(tx) <= QueueSize
    /\ rx \in Seq(Event) /\ Len(rx) <= QueueSize
    /\ mode \in {"asleep", "standby", "advertising", "connected"}
    /\ waiting \in Seq(Event)
    /\ early \in BOOLEAN
    /\ link \in 0..MaxLinks /\ before \in 0..MaxLinks /\ spoken \in 0..Length
    /\ taken \in Seq(Message)
    /\ Store!TypeOK

(* bluetooth_setup has ended with bluetooth_sleep.                         *)
Init ==
    /\ blue = FALSE /\ pc = "home"
    /\ status = "SLEEPING" /\ hasMessage = FALSE /\ buffer = NoMessage
    /\ timingDone = FALSE
    /\ tx = <<"radio_reset", "sleep">> /\ rx = <<>>
    /\ mode = "standby" /\ waiting = <<>>
    /\ link = 0 /\ spoken = 0 /\ early = FALSE /\ before = 0 /\ taken = <<>>
    /\ Store!Init

-----------------------------------------------------------------------------
(* The radio and the phones                                                *)

(* What a command makes of the radio's mode, and the events it answers.    *)
ModeAfter(c) ==
    CASE c = "wakeup" /\ mode = "asleep"         -> "standby"
      [] c = "connect" /\ mode = "standby"       -> "advertising"
      [] c = "disconnect" /\ mode = "connected"  -> "standby"
      [] c = "radio_reset" /\ mode # "asleep"    -> "standby"
      [] c = "sleep" /\ mode = "standby"         -> "asleep"
      [] OTHER                                   -> mode

Answer(c) ==
    CASE c = "wakeup" /\ mode = "asleep"          -> <<"started", "wakeup_rsp">>
      [] c # "wakeup" /\ mode = "asleep"          -> <<>>
      [] c = "sleep" /\ mode = "standby"          -> <<>>
      [] c = "wakeup" /\ mode # "asleep"          -> <<"wakeup_rsp">>
      [] c = "connect" /\ mode # "asleep"         -> <<"connect_rsp">>
      [] c = "device_version" /\ mode # "asleep"  -> <<"version_rsp">>
      [] c = "change_timing" /\ mode = "connected" -> <<"other_rsp", "timing">>
      [] c \in {"disconnect", "radio_reset"} /\ mode = "connected"
                                                  -> <<"other_rsp", "disconnected">>
      [] OTHER                                    -> <<"other_rsp">>

Rest(s) == IF s = <<>> THEN s ELSE Tail(s)

(* A transfer, which exchanges the oldest command for the oldest event. It *)
(* takes place only while there is room for the event.                     *)
CanTransfer == Len(rx) < QueueSize /\ (tx # <<>> \/ waiting # <<>>)

Transfer ==
    /\ CanTransfer
    /\ rx' = IF waiting = <<>> THEN rx ELSE Append(rx, Head(waiting))
    /\ tx' = Rest(tx)
    /\ waiting' = Rest(waiting) \o (IF tx = <<>> THEN <<>> ELSE Report(Answer(Head(tx))))
    /\ mode' = IF tx = <<>> THEN mode ELSE ModeAfter(Head(tx))
    /\ before' = IF tx # <<>> /\ Head(tx) = "connect" THEN link ELSE before
    /\ UNCHANGED <<blue, pc, driver, phone, taken, storage>>

(* What the program has not been told yet.                                 *)
Pending == rx \o waiting
PhoneActs == early' = (early \/ Len(Pending) >= MaxUnread)

PhoneConnects ==
    /\ mode = "advertising" /\ link < MaxLinks /\ PhoneActs
    /\ mode' = "connected"
    /\ link' = link + 1 /\ spoken' = 0
    /\ waiting' = waiting \o [i \in 1..2 |->
           [type |-> <<"connected", "pipes">>[i], link |-> link + 1, number |-> 0]]
    /\ UNCHANGED <<blue, pc, driver, tx, rx, before, taken, storage>>

PhoneSends ==
    /\ mode = "connected" /\ spoken < Length /\ PhoneActs
    /\ spoken' = spoken + 1
    /\ waiting' = Append(waiting, [type |-> "data", link |-> link, number |-> spoken + 1])
    /\ UNCHANGED <<blue, pc, driver, tx, rx, mode, link, before, taken,
                   storage>>

PhoneHangsUp ==
    /\ mode = "connected" /\ PhoneActs
    /\ mode' = "standby"
    /\ waiting' = waiting \o Report(<<"disconnected">>)
    /\ UNCHANGED <<blue, pc, driver, tx, rx, link, spoken, before, taken, storage>>

(* blue_button_handler, which ignores presses that are not 500 ms apart: a *)
(* press that follows a session's finds the radio's transfers done.        *)
PressBlue ==
    /\ ~ blue
    /\ pc \in {"result", "home"} => ~ CanTransfer
    /\ blue' = TRUE
    /\ UNCHANGED <<pc, driver, tx, rx, radio, phone, before, taken, storage>>

-----------------------------------------------------------------------------
(* bluetooth.cpp                                                           *)

(* MUTANT: a command is queued whether or not there is room.               *)
SendUnchecked(commands) == tx' = tx \o commands

(* lib_aci_* in turn: a command that finds the queue full is dropped.      *)
Send(commands) ==
    tx' = LET all == tx \o commands
          IN  IF Len(all) <= QueueSize THEN all ELSE SubSeq(all, 1, QueueSize)

(* MUTANT: losing the connection goes unnoticed.                           *)
StatusDeaf(e) ==
    CASE e.type \in {"started", "wakeup_rsp"} -> "STANDBY"
      [] e.type = "connect_rsp"               -> "ADVERTISING"
      [] e.type = "connected"                 -> "CONNECTED"
      [] OTHER                                -> status

(* The status that an event leaves, and the command that it is answered    *)
(* with.                                                                   *)
StatusAfter(e) ==
    CASE e.type \in {"started", "wakeup_rsp", "disconnected"} -> "STANDBY"
      [] e.type = "connect_rsp"                               -> "ADVERTISING"
      [] e.type = "connected"                                 -> "CONNECTED"
      [] OTHER                                                -> status

Reply(e) ==
    CASE e.type = "connected"                   -> <<"device_version">>
      [] e.type = "pipes" /\ ~ timingDone       -> <<"change_timing">>
      [] e.type \in {"version_rsp", "timing"}   -> <<"set_local_data">>
      [] OTHER                                  -> <<>>

(* bluetooth_poll, when there is an event. A message overwrites one that   *)
(* has not been read.                                                      *)
HandleEvent ==
    LET e == Head(rx) IN
    /\ rx # <<>>
    /\ rx' = Tail(rx)
    /\ status' = StatusAfter(e)
    /\ Send(Reply(e))
    /\ timingDone' = (e.type # "connected" /\ (timingDone \/ e.type = "pipes"))
    /\ hasMessage' = (hasMessage \/ e.type = "data")
    /\ buffer' = IF e.type = "data" THEN [link |-> e.link, number |-> e.number] ELSE buffer

NoEvent ==
    /\ rx = <<>>
    /\ UNCHANGED <<tx, rx, driver>>

(* Where bluetooth_poll is called, and where control goes then: round the  *)
(* loop that waits for a status, or on with the session's loop.            *)
Poll ==
    /\ \/ pc \in {"wake", "hangup"} /\ status # "STANDBY"
       \/ pc = "advertise" /\ status # "ADVERTISING"
       \/ pc = "receive" /\ ~ blue
    /\ HandleEvent \/ NoEvent
    /\ pc' = IF pc = "receive" THEN "received" ELSE pc
    /\ UNCHANGED <<blue, radio, phone, before, taken, storage>>

(* MUTANT: waits for a disconnection that was not asked for.               *)
SleepWaits ==
    /\ pc = "sleep" /\ status = "CONNECTED" /\ Len(tx) < QueueSize
    /\ pc' = "hangup"
    /\ UNCHANGED <<blue, driver, tx, rx, radio, phone, before, taken, storage>>

(* bluetooth_sleep: a connected radio is told to disconnect, and the reset *)
(* waits for that unless the command was dropped.                          *)
SleepDisconnects ==
    /\ pc = "sleep" /\ status = "CONNECTED" /\ Len(tx) < QueueSize
    /\ Send(<<"disconnect">>)
    /\ pc' = "hangup"
    /\ UNCHANGED <<blue, driver, rx, radio, phone, before, taken, storage>>

(* MUTANT: the radio is told to sleep before it is reset.                  *)
SleepThenReset ==
    /\ \/ pc = "sleep" /\ (status # "CONNECTED" \/ Len(tx) = QueueSize)
       \/ pc = "hangup" /\ status = "STANDBY"
    /\ Send(<<"sleep", "radio_reset">>)
    /\ status' = "SLEEPING"
    /\ pc' = "result"
    /\ UNCHANGED <<blue, hasMessage, buffer, timingDone, rx, radio, phone, before, taken,
                   storage>>

SleepResets ==
    /\ \/ pc = "sleep" /\ (status # "CONNECTED" \/ Len(tx) = QueueSize)
       \/ pc = "hangup" /\ status = "STANDBY"
    /\ Send(<<"radio_reset", "sleep">>)
    /\ status' = "SLEEPING"
    /\ pc' = "result"
    /\ UNCHANGED <<blue, hasMessage, buffer, timingDone, rx, radio, phone, before, taken,
                   storage>>

-----------------------------------------------------------------------------
(* run_bluetooth and get_and_store_waypoints                               *)

(* MUTANT: advertising begins without waking the radio up.                 *)
WakeUnsent ==
    /\ pc = "home" /\ blue
    /\ blue' = FALSE
    /\ pc' = "wake"
    /\ taken' = <<>>
    /\ UNCHANGED <<driver, tx, rx, radio, phone, before, storage>>

(* The main loop has a blue press to handle.                               *)
Wake ==
    /\ pc = "home" /\ blue
    /\ blue' = FALSE
    /\ Send(<<"wakeup">>)
    /\ pc' = "wake"
    /\ taken' = <<>>
    /\ UNCHANGED <<driver, rx, radio, phone, before, storage>>

Advertise ==
    /\ pc = "wake" /\ status = "STANDBY"
    /\ Send(<<"connect">>)
    /\ pc' = "advertise"
    /\ UNCHANGED <<blue, driver, rx, radio, phone, before, taken, storage>>

(* MUTANT: receiving begins before the radio says that it advertises.      *)
StartReceivingEarly ==
    /\ pc = "advertise"
    /\ pc' = "receive"
    /\ UNCHANGED <<blue, driver, tx, rx, radio, phone, before, taken, storage>>

StartReceiving ==
    /\ pc = "advertise" /\ status = "ADVERTISING"
    /\ pc' = "receive"
    /\ UNCHANGED <<blue, driver, tx, rx, radio, phone, before, taken, storage>>

(* The session ends, with a path begun or not.                             *)
EndFailed ==
    /\ pc' = "sleep"
    /\ IF expected = NoCount THEN UNCHANGED storage ELSE Store!Abandon

Quit ==
    /\ pc = "receive" /\ blue
    /\ blue' = FALSE
    /\ EndFailed
    /\ UNCHANGED <<driver, tx, rx, radio, phone, before, taken>>

(* There is a message: it is given to the writer. The writer is at its     *)
(* count, or at a coordinate, and knows when it has the last one.          *)
WriteCount(m) ==
    /\ expected = NoCount
    /\ IF CountOf(m) > MaxWaypoints
       THEN EndFailed
       ELSE /\ Store!Begin(CountOf(m))
            /\ pc' = IF CountOf(m) = 0 THEN "commit" ELSE "receive"

WriteCoordinate(m) ==
    /\ Store!Receive(m)
    /\ pc' = IF Len(incoming') = 2 * expected THEN "commit" ELSE "receive"

(* MUTANT: reading a message does not clear has_message.                   *)
TakeMessageAgain ==
    /\ pc = "received" /\ hasMessage
    /\ taken' = Append(taken, buffer)
    /\ WriteCount(buffer) \/ WriteCoordinate(buffer)
    /\ UNCHANGED <<blue, driver, tx, rx, radio, phone, before>>

TakeMessage ==
    /\ pc = "received" /\ hasMessage
    /\ hasMessage' = FALSE
    /\ taken' = Append(taken, buffer)
    /\ WriteCount(buffer) \/ WriteCoordinate(buffer)
    /\ UNCHANGED <<blue, status, buffer, timingDone, tx, rx, radio, phone, before>>

KeepWaiting ==
    /\ pc = "received" /\ ~ hasMessage /\ status \in {"CONNECTED", "ADVERTISING"}
    /\ pc' = "receive"
    /\ UNCHANGED <<blue, driver, tx, rx, radio, phone, before, taken, storage>>

LinkLost ==
    /\ pc = "received" /\ ~ hasMessage /\ status \notin {"CONNECTED", "ADVERTISING"}
    /\ EndFailed
    /\ UNCHANGED <<blue, driver, tx, rx, radio, phone, before, taken>>

Succeed ==
    /\ pc = "commit"
    /\ Store!Commit
    /\ pc' = "sleep"
    /\ UNCHANGED <<blue, driver, tx, rx, radio, phone, before, taken>>

(* The result is shown until the next blue press.                          *)
Dismiss ==
    /\ pc = "result" /\ blue
    /\ blue' = FALSE
    /\ pc' = "home"
    /\ UNCHANGED <<driver, tx, rx, radio, phone, before, taken, storage>>

-----------------------------------------------------------------------------

Program ==
    \/ Wake \/ Advertise \/ StartReceiving \/ Poll
    \/ Quit \/ TakeMessage \/ KeepWaiting \/ LinkLost \/ Succeed
    \/ SleepDisconnects \/ SleepResets
    \/ Dismiss

Next ==
    \/ Program
    \/ Transfer
    \/ PhoneConnects \/ PhoneSends \/ PhoneHangsUp
    \/ PressBlue

Spec == Init /\ [][Next]_vars

(* The program runs, and the radio serves transfers. Phones and the user   *)
(* need not do anything.                                                   *)
FairSpec == Spec /\ WF_vars(Program) /\ WF_vars(Transfer)

-----------------------------------------------------------------------------
(* Properties                                                              *)

(* The transport below, used as AciLink allows.                            *)
Link == INSTANCE AciLink

(* When a session begins to receive, nothing of what the radio reported    *)
(* about earlier connections can reach it: bluetooth_advertise has polled  *)
(* all of it away.                                                         *)
InLoop == pc \in {"receive", "received", "commit"}

NoStaleEvents ==
    InLoop => \A i \in 1..Len(Pending) :
                  Pending[i].type \in {"data", "connected", "disconnected", "timing", "pipes"}
                      => Pending[i].link > before

(* When the program has seen all there is, its status is the radio's mode. *)
StatusIsMode ==
    (InLoop /\ Pending = <<>> /\ tx = <<>>) =>
        mode = CASE status = "STANDBY"     -> "standby"
                 [] status = "ADVERTISING" -> "advertising"
                 [] status = "CONNECTED"   -> "connected"
                 [] OTHER                  -> "asleep"

(* The messages of this session's connection are taken one by one, from    *)
(* the first, whatever may have come before them: each follows the one     *)
(* before it.                                                              *)
MessagesInOrder ==
    \A i \in 1..Len(taken) : taken[i].link > before =>
        /\ taken[i].link = before + 1
        /\ IF taken[i].number = 1
           THEN \A j \in 1..i - 1 : taken[j].link <= before
           ELSE /\ i > 1
                /\ taken[i - 1] = [link |-> before + 1, number |-> taken[i].number - 1]

(* At most one message is from before the session, and it comes first.     *)
OneStaleAtMost == \A i \in 2..Len(taken) : taken[i].link > before

(* Outside a session the radio sleeps, once it is done with transfers,     *)
(* unless a phone was early: bluetooth_sleep ignores what lib_aci_sleep    *)
(* returns.                                                                *)
AsleepAtHome ==
    (pc \in {"result", "home"} /\ ~ CanTransfer /\ ~ early) => mode = "asleep"

(* What the phone of the l-th connection sends.                            *)
PathOf(l) ==
    [i \in 1..Points |-> <<[link |-> l, number |-> 2 * i], [link |-> l, number |-> 2 * i + 1]>>]

(* src.ino:463, "Recieves a list of waypoints from the bluetooth module    *)
(* and stores them": a stored path is one that a phone has sent.           *)
PathWasSent == path # NoPath => \E l \in 1..MaxLinks : path = PathOf(l)

(* It is, unless the session began with a message of an earlier one: then  *)
(* what a session stores is the whole path of its own phone.               *)
FreshPathStored ==
    [][Succeed /\ taken[1].link > before => path' = PathOf(before + 1)]_vars

(* A session that starts gets to receive, and ends when blue is pressed,   *)
(* unless a phone was early: bluetooth_advertise and bluetooth_sleep wait  *)
(* for what they may not have asked for.                                   *)
SessionStarts == pc = "wake" ~> (pc = "receive" \/ early)
SessionEnds == (InLoop /\ blue) ~> (pc = "result" \/ early)

=============================================================================
