------------------------------ MODULE AciSetup ------------------------------
(***************************************************************************)
(* Setting the Bluetooth chip up: bluetooth_setup polls until the chip is  *)
(* in standby, and do_aci_setup (aci_setup.cpp), called by bluetooth_poll  *)
(* while a setup is required, sends it the setup messages. They are more   *)
(* than the command queue holds; the chip answers each, and an attempt     *)
(* that fails is made again, from the first message, by a later poll.      *)
(*                                                                         *)
(* The queues are those that AciTransport provides.                        *)
(***************************************************************************)
EXTENDS Naturals, Sequences

CONSTANTS
    QueueSize,          \* ACI_QUEUE_SIZE
    NumMessages         \* num_setup_msgs

ASSUME SetupAssumption ==
    /\ QueueSize \in Nat \ {0}
    /\ NumMessages \in Nat \ {0}

VARIABLES
    pc,                 \* where the program is
    status,             \* bluetooth_t
    setupRequired,
    offset,             \* setup_offset: messages queued by this attempt
    tx, rx,             \* commands to, and events from, the chip
    mode, waiting,      \* the chip, and the events it has yet to hand over
    accepted,           \* messages of a setup that the chip has accepted
    timedOut            \* history: an attempt has timed out

driver == <<status, setupRequired>>
chip == <<mode, waiting, accepted>>
vars == <<pc, driver, offset, tx, rx, chip, timedOut>>

(* A command is a setup message, or another one with number 0.             *)
Command ==
    [name : {"setup"}, number : 1..NumMessages]
        \cup [name : {"radio_reset", "sleep"}, number : {0}]

Event == {"setup_started", "standby_started",
          "continue_rsp", "complete_rsp", "other_rsp", "error_rsp"}

TypeOK ==
    /\ pc \in {"poll", "try", "fill", "wait", "refill", "done"}
    /\ status \in {"NONE", "STANDBY", "SLEEPING"}
    /\ setupRequired \in BOOLEAN /\ timedOut \in BOOLEAN
    /\ offset \in 0..NumMessages /\ accepted \in 0..NumMessages
    /\ tx \in Seq(Command) /\ Len(tx) <= QueueSize
    /\ rx \in Seq(Event) /\ Len(rx) <= QueueSize
    /\ mode \in {"setup", "standby", "asleep"}
    /\ waiting \in Seq(Event)

(* lib_aci_init has reset the chip, which reports how it has started.      *)
Init ==
    /\ pc = "poll" /\ status = "NONE"
    /\ setupRequired = FALSE /\ timedOut = FALSE
    /\ offset = 0 /\ accepted = 0
    /\ tx = <<>> /\ rx = <<>>
    /\ \/ mode = "setup" /\ waiting = <<"setup_started">>
       \/ mode = "standby" /\ waiting = <<"standby_started">>

-----------------------------------------------------------------------------
(* The chip takes the messages of a setup in order, and one out of order   *)
(* ends the setup.                                                         *)

Expects(c) == mode = "setup" /\ c.number = accepted + 1

AcceptedAfter(c) ==
    CASE Expects(c)     -> c.number
      [] c.number > 0   -> 0
      [] OTHER          -> accepted

ModeAfter(c) ==
    CASE Expects(c) /\ c.number = NumMessages   -> "standby"
      [] c.name = "sleep" /\ mode = "standby"   -> "asleep"
      [] OTHER                                  -> mode

Answer(c) ==
    CASE Expects(c) /\ c.number < NumMessages   -> <<"continue_rsp">>
      [] Expects(c) /\ c.number = NumMessages   -> <<"complete_rsp", "standby_started">>
      [] mode = "asleep"                        -> <<>>
      [] c.name = "sleep" /\ mode = "standby"   -> <<>>
      [] c.name = "radio_reset" /\ mode = "standby" -> <<"other_rsp">>
      [] OTHER                                  -> <<"error_rsp">>

Rest(s) == IF s = <<>> THEN s ELSE Tail(s)

(* A transfer, which exchanges the oldest command for the oldest event     *)
(* while there is room for the event.                                      *)
Transfer ==
    /\ Len(rx) < QueueSize
    /\ tx # <<>> \/ waiting # <<>>
    /\ rx' = IF waiting = <<>> THEN rx ELSE Append(rx, Head(waiting))
    /\ tx' = Rest(tx)
    /\ IF tx = <<>>
       THEN waiting' = Rest(waiting) /\ UNCHANGED <<mode, accepted>>
       ELSE /\ waiting' = Rest(waiting) \o Answer(Head(tx))
            /\ mode' = ModeAfter(Head(tx))
            /\ accepted' = AcceptedAfter(Head(tx))
    /\ UNCHANGED <<pc, driver, offset, timedOut>>

-----------------------------------------------------------------------------
(* bluetooth_poll, in bluetooth_setup's loop: the event, if any, and then  *)
(* the setup, if required.                                                 *)

HandleEvent ==
    /\ rx # <<>>
    /\ rx' = Tail(rx)
    /\ status' = IF Head(rx) = "standby_started" THEN "STANDBY" ELSE status
    /\ setupRequired' = (setupRequired \/ Head(rx) = "setup_started")

NoEvent ==
    /\ rx = <<>>
    /\ UNCHANGED <<rx, driver>>

Poll ==
    /\ pc = "poll" /\ status # "STANDBY"
    /\ HandleEvent \/ NoEvent
    /\ pc' = IF setupRequired' THEN "try" ELSE "poll"
    /\ UNCHANGED <<offset, tx, chip, timedOut>>

(* MUTANT: an attempt begins whatever an earlier one has left behind.      *)
TryUnchecked ==
    /\ pc = "try"
    /\ pc' = "fill" /\ offset' = 0
    /\ UNCHANGED <<driver, tx, rx, chip, timedOut>>

(* do_aci_setup: commands or events that are still queued make it fail     *)
(* before it begins.                                                       *)
Try ==
    /\ pc = "try"
    /\ IF tx = <<>> /\ rx = <<>>
       THEN pc' = "fill" /\ offset' = 0
       ELSE pc' = "poll" /\ UNCHANGED offset
    /\ UNCHANGED <<driver, tx, rx, chip, timedOut>>

(* MUTANT: the queue is taken to have room.                                *)
FitsAlways == offset < NumMessages

Fits == offset < NumMessages /\ Len(tx) < QueueSize

(* aci_setup_fill: one message after another, while the queue has room.    *)
Fill ==
    /\ pc \in {"fill", "refill"} /\ Fits
    /\ tx' = Append(tx, [name |-> "setup", number |-> offset + 1])
    /\ offset' = offset + 1
    /\ UNCHANGED <<pc, driver, rx, chip, timedOut>>

(* An answer leaves the queue only after it has been acted on.             *)
Filled ==
    /\ pc \in {"fill", "refill"} /\ ~ Fits
    /\ rx' = IF pc = "refill" THEN Tail(rx) ELSE rx
    /\ pc' = "wait"
    /\ UNCHANGED <<driver, offset, tx, chip, timedOut>>

(* MUTANT: an answer does not make the program queue more messages.        *)
ContinueUnfilled ==
    /\ pc = "wait" /\ rx # <<>> /\ Head(rx) = "continue_rsp"
    /\ rx' = Tail(rx)
    /\ UNCHANGED <<pc, driver, offset, tx, chip, timedOut>>

Continue ==
    /\ pc = "wait" /\ rx # <<>> /\ Head(rx) = "continue_rsp"
    /\ pc' = "refill"
    /\ UNCHANGED <<driver, offset, tx, rx, chip, timedOut>>

Complete ==
    /\ pc = "wait" /\ rx # <<>> /\ Head(rx) = "complete_rsp"
    /\ rx' = Tail(rx)
    /\ setupRequired' = FALSE
    /\ pc' = "poll"
    /\ UNCHANGED <<status, offset, tx, chip, timedOut>>

(* Any other event is left to bluetooth_poll.                              *)
Fail ==
    /\ pc = "wait" /\ rx # <<>> /\ Head(rx) \notin {"continue_rsp", "complete_rsp"}
    /\ pc' = "poll"
    /\ UNCHANGED <<driver, offset, tx, rx, chip, timedOut>>

(* No answer within 0xFFFFE looks at the queue.                            *)
TimeOut ==
    /\ pc = "wait" /\ rx = <<>>
    /\ timedOut' = TRUE
    /\ pc' = "poll"
    /\ UNCHANGED <<driver, offset, tx, rx, chip>>

(* bluetooth_sleep; a command that finds the queue full is dropped.        *)
Sleep ==
    /\ pc = "poll" /\ status = "STANDBY"
    /\ tx' = LET all == tx \o <<[name |-> "radio_reset", number |-> 0],
                                [name |-> "sleep", number |-> 0]>>
             IN  IF Len(all) <= QueueSize THEN all ELSE SubSeq(all, 1, QueueSize)
    /\ status' = "SLEEPING"
    /\ pc' = "done"
    /\ UNCHANGED <<setupRequired, offset, rx, chip, timedOut>>

-----------------------------------------------------------------------------

Program ==
    \/ Poll \/ Try \/ Fill \/ Filled
    \/ Continue \/ Complete \/ Fail
    \/ Sleep

Next == Program \/ Transfer \/ TimeOut

Spec == Init /\ [][Next]_vars

(* The program runs, and the chip serves transfers.                        *)
FairSpec == Spec /\ WF_vars(Program) /\ WF_vars(Transfer)

-----------------------------------------------------------------------------
(* Properties                                                              *)

(* An attempt begins with nothing of an earlier one in the queues, so that *)
(* the chip is sent the messages from the first in one piece.              *)
AttemptIsWhole ==
    pc \in {"fill", "wait", "refill"} =>
        \A i \in 1..Len(tx) : tx[i].number = offset - Len(tx) + i

(* The setup uses the transport as AciLink allows.                         *)
Link == INSTANCE AciLink

(* Unless an attempt times out, the setup comes to an end, with nothing    *)
(* left to do, and the chip goes to sleep.                                 *)
SetupEnds ==
    <>(timedOut \/ (pc = "done" /\ ~ setupRequired /\ mode = "asleep"))

=============================================================================
