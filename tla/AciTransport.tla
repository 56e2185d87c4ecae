---------------------------- MODULE AciTransport ----------------------------
(***************************************************************************)
(* The transport layer to the nRF8001 Bluetooth chip, hal_aci_tl.cpp: the  *)
(* command queue tx, the event queue rx, and the REQN/RDYN handshake.      *)
(*                                                                         *)
(* Three parties run concurrently. The program calls hal_aci_tl_send and   *)
(* hal_aci_tl_event_get; an interrupt may come between any two of their    *)
(* steps, and only single queue tests are critical sections. The interrupt *)
(* routine m_aci_isr runs one SPI transfer, which exchanges a command for  *)
(* an event. The chip has events of its own to report, and pulls RDYN low  *)
(* when it has one or when REQN asks for a transfer.                       *)
(*                                                                         *)
(* Commands and events are numbered in the order they are first made.      *)
(***************************************************************************)
EXTENDS AciQueue, Sequences

CONSTANTS
    Interfaces,     \* the values of interface_is_interrupt to consider
    Ages,           \* how many packets may have passed each queue before
    MaxCommands,    \* bound: commands the program sends
    MaxEvents       \* bound: events the chip reports

ASSUME BoundsAssumption ==
    /\ Interfaces \subseteq BOOLEAN
    /\ Ages \subseteq Index
    /\ MaxCommands \in Nat
    /\ MaxEvents \in Nat

VARIABLES
    interrupt,      \* interface_is_interrupt; otherwise RDYN is polled
    tx, rx,         \* aci_tx_q and aci_rx_q
    attached,       \* the interrupt routine is attached to RDYN
    reqn, rdyn,     \* the lines REQN (ours) and RDYN (the chip's): is it low?
    pc,             \* the step the program is at in this layer, or "idle"
    wasFull,        \* was_full of hal_aci_tl_event_get
    packet,         \* the packet being dequeued
    spinning,       \* while(1) was entered
    made, fetched,  \* events the chip has made, and has transferred
    sent,           \* commands enqueued
    heard,          \* history: commands the chip received
    delivered       \* history: events the program received

program == <<pc, wasFull, packet>>
chip == <<made, fetched, heard>>
vars == <<interrupt, tx, rx, attached, reqn, rdyn, pc, wasFull, packet, spinning,
          made, fetched, sent, heard, delivered>>

Command == 1..MaxCommands
Event == 1..MaxEvents

TypeOK ==
    /\ IsQueueOf(tx, Command) /\ IsQueueOf(rx, Event)
    /\ interrupt \in Interfaces
    /\ attached \in BOOLEAN /\ reqn \in BOOLEAN /\ rdyn \in BOOLEAN
    /\ pc \in {"idle", "store", "push", "request", "lower", "get", "dequeue",
               "copy", "advance", "attach", "room", "pending"}
    /\ wasFull \in BOOLEAN /\ spinning \in BOOLEAN
    /\ packet \in Event \cup {NoPacket}
    /\ made \in 0..MaxEvents /\ fetched \in 0..MaxEvents /\ sent \in 0..MaxCommands
    /\ heard \in Seq(Command) /\ delivered \in Seq(Event)

(* hal_aci_tl_init, and some packets later.                                *)
Init ==
    /\ \E age \in Ages : tx = EmptyAt(age) /\ rx = EmptyAt(age)
    /\ interrupt \in Interfaces /\ attached = interrupt
    /\ reqn = FALSE /\ rdyn = FALSE
    /\ pc = "idle" /\ wasFull = FALSE /\ packet = NoPacket
    /\ spinning = FALSE
    /\ made = 0 /\ fetched = 0 /\ sent = 0
    /\ heard = <<>> /\ delivered = <<>>

-----------------------------------------------------------------------------
(* The chip                                                                *)

MakeEvent ==
    /\ made < MaxEvents
    /\ made' = made + 1
    /\ UNCHANGED <<interrupt, tx, rx, attached, reqn, rdyn, program, spinning, fetched,
                   sent, heard, delivered>>

RaiseReady ==
    /\ ~ rdyn
    /\ reqn \/ fetched < made
    /\ rdyn' = TRUE
    /\ UNCHANGED <<interrupt, tx, rx, attached, reqn, program, spinning, chip,
                   sent, delivered>>

-----------------------------------------------------------------------------
(* A transfer, as m_aci_isr and m_aci_event_check both make it             *)

(* The oldest command goes out. REQN ends up low again if a further one    *)
(* waits and rx, not yet holding this transfer's event, has room.          *)
TransferCommand ==
    /\ tx' = IF IsEmpty(tx) THEN tx ELSE Pop(tx)
    /\ heard' = IF IsEmpty(tx) THEN heard ELSE Append(heard, First(tx))
    /\ reqn' = (~ IsFull(rx) /\ ~ IsEmpty(tx'))
    /\ rdyn' = FALSE

(* The next event of the chip, if any, comes in. "Receive Buffer full.     *)
(* Should never happen. Spin in a while loop."                             *)
TransferEvent ==
    LET some == fetched < made IN
    /\ fetched' = IF some THEN fetched + 1 ELSE fetched
    /\ rx' = IF some /\ ~ IsFull(rx) THEN Push(Store(rx, fetched + 1)) ELSE rx
    /\ spinning' = (some /\ IsFull(rx))

(* MUTANT: the routine never takes itself off the ready line.              *)
DetachNever == UNCHANGED attached

(* "Disable ready line interrupt until we have room to store incoming      *)
(* messages": looked at only after an event has been stored.               *)
Detach == attached' = (attached /\ ~ (rx' # rx /\ IsFull(rx')))

(* m_aci_isr. Nothing else of the program runs while it does.              *)
Isr ==
    /\ attached /\ rdyn /\ ~ spinning
    /\ TransferCommand
    /\ TransferEvent
    /\ Detach
    /\ UNCHANGED <<interrupt, program, made, sent, delivered>>

-----------------------------------------------------------------------------
(* hal_aci_tl_send                                                         *)

(* The program goes from one of its steps to the next.                     *)
Step(from, to) == pc = from /\ ~ spinning /\ pc' = to

(* A step that only looks at the queues.                                   *)
Looks == UNCHANGED <<interrupt, tx, rx, attached, reqn, rdyn, spinning, chip, sent,
                     delivered>>

(* MUTANT: a full tx does not refuse the command.                          *)
SendUnchecked ==
    /\ Step("idle", "store") /\ sent < MaxCommands
    /\ Looks /\ UNCHANGED <<wasFull, packet>>

(* Refused when tx is full; that changes nothing.                          *)
SendCheck ==
    /\ Step("idle", "store") /\ sent < MaxCommands
    /\ ~ IsFull(tx)
    /\ Looks /\ UNCHANGED <<wasFull, packet>>

SendStore ==
    /\ Step("store", "push")
    /\ tx' = Store(tx, sent + 1)
    /\ UNCHANGED <<interrupt, rx, attached, reqn, rdyn, wasFull, packet, spinning,
                   chip, sent, delivered>>

SendPush ==
    /\ Step("push", "request")
    /\ tx' = Push(tx)
    /\ sent' = sent + 1
    /\ UNCHANGED <<interrupt, rx, attached, reqn, rdyn, wasFull, packet, spinning,
                   chip, delivered>>

(* MUTANT: enqueuing a command does not ask for a transfer.                *)
SendRequestDropped ==
    /\ Step("request", "idle")
    /\ Looks /\ UNCHANGED <<wasFull, packet>>

SendRequest ==
    /\ Step("request", IF IsFull(rx) THEN "idle" ELSE "lower")
    /\ Looks /\ UNCHANGED <<wasFull, packet>>

(* m_aci_reqn_enable, also the end of hal_aci_tl_event_get.                *)
LowerReqn ==
    /\ Step("lower", "idle")
    /\ reqn' = TRUE
    /\ UNCHANGED <<interrupt, tx, rx, attached, rdyn, wasFull, packet, spinning,
                   chip, sent, delivered>>

-----------------------------------------------------------------------------
(* m_aci_event_check, with which hal_aci_tl_event_get and, changing        *)
(* nothing else, hal_aci_tl_event_peek begin in polled mode                *)

CheckSkips ==
    /\ IsFull(rx)
    /\ Looks

CheckRequests ==
    /\ ~ IsFull(rx) /\ ~ rdyn
    /\ reqn' = (reqn \/ ~ IsEmpty(tx))
    /\ UNCHANGED <<interrupt, tx, rx, attached, rdyn, spinning, chip, sent,
                   delivered>>

(* MUTANT: the chip is only served when there is a command for it.         *)
CheckTransfersCommands ==
    /\ ~ IsFull(rx) /\ rdyn /\ ~ IsEmpty(tx)
    /\ TransferCommand
    /\ TransferEvent
    /\ UNCHANGED <<interrupt, attached, made, sent, delivered>>

CheckTransfers ==
    /\ ~ IsFull(rx) /\ rdyn
    /\ TransferCommand
    /\ TransferEvent
    /\ UNCHANGED <<interrupt, attached, made, sent, delivered>>

EventCheck(next) ==
    /\ ~ interrupt
    /\ Step("idle", next)
    /\ CheckSkips \/ CheckRequests \/ CheckTransfers
    /\ UNCHANGED <<wasFull, packet>>

-----------------------------------------------------------------------------
(* hal_aci_tl_event_get                                                    *)

GetWasFull ==
    /\ Step(IF interrupt THEN "idle" ELSE "get", "dequeue")
    /\ wasFull' = IsFull(rx)
    /\ Looks /\ UNCHANGED packet

(* MUTANT: a packet is taken from an empty queue.                          *)
GetUnchecked ==
    /\ Step("dequeue", "copy")
    /\ Looks /\ UNCHANGED <<wasFull, packet>>

GetCheckEmpty ==
    /\ Step("dequeue", IF IsEmpty(rx) THEN "idle" ELSE "copy")
    /\ Looks /\ UNCHANGED <<wasFull, packet>>

GetCopy ==
    /\ Step("copy", "advance")
    /\ packet' = First(rx)
    /\ Looks /\ UNCHANGED wasFull

GetAdvance ==
    /\ Step("advance", "attach")
    /\ rx' = Pop(rx)
    /\ delivered' = Append(delivered, packet)
    /\ UNCHANGED <<interrupt, tx, attached, reqn, rdyn, wasFull, packet, spinning,
                   chip, sent>>

GetAttach ==
    /\ Step("attach", "room")
    /\ attached' = (attached \/ (wasFull /\ interrupt))
    /\ UNCHANGED <<interrupt, tx, rx, reqn, rdyn, wasFull, packet, spinning, chip,
                   sent, delivered>>

GetCheckRoom ==
    /\ Step("room", IF IsFull(rx) THEN "idle" ELSE "pending")
    /\ Looks /\ UNCHANGED <<wasFull, packet>>

GetCheckPending ==
    /\ Step("pending", IF IsEmpty(tx) THEN "idle" ELSE "lower")
    /\ Looks /\ UNCHANGED <<wasFull, packet>>

-----------------------------------------------------------------------------

SendStep == SendStore \/ SendPush \/ SendRequest \/ LowerReqn
GetStep ==
    \/ GetWasFull \/ GetCheckEmpty \/ GetCopy \/ GetAdvance
    \/ GetAttach \/ GetCheckRoom \/ GetCheckPending

Next ==
    \/ MakeEvent \/ RaiseReady
    \/ Isr
    \/ SendCheck \/ SendStep
    \/ EventCheck("idle") \/ EventCheck("get") \/ GetStep

Spec == Init /\ [][Next]_vars

(* The chip answers requests, a pending interrupt is taken, and a program  *)
(* in a Bluetooth session keeps polling (bluetooth_poll in every loop).    *)
FairSpec ==
    /\ Spec
    /\ WF_vars(RaiseReady)
    /\ WF_vars(Isr)
    /\ WF_vars(SendStep \/ EventCheck("get") \/ GetStep)

-----------------------------------------------------------------------------
(* Properties                                                              *)

(* hal_aci_tl.cpp:109, "Receive Buffer full. Should never happen.": no     *)
(* transfer brings in an event that there is no room for.                  *)
NeverSpins == ~ spinning

(* Every event reaches the program, once and in order: what it received,   *)
(* what rx holds and what the chip still has are the events made.          *)
EventsInOrder ==
    /\ delivered = [i \in 1..Len(delivered) |-> i]
    /\ fetched = Len(delivered) + Count(rx)
    /\ \A i \in 0..Count(rx) - 1 : Ahead(rx, i) = Len(delivered) + i + 1
    /\ pc = "advance" => packet = Len(delivered) + 1

(* The chip hears every command, once and in order, and those it has not   *)
(* heard are in tx.                                                        *)
CommandsInOrder ==
    /\ heard = [i \in 1..Len(heard) |-> i]
    /\ sent = Len(heard) + Count(tx)
    /\ \A i \in 0..Count(tx) - 1 : Ahead(tx, i) = Len(heard) + i + 1

(* What the chip has made and not handed over yet, and the transport as    *)
(* the driver above sees it.                                               *)
Unfetched == [i \in 1..made - fetched |-> fetched + i]

Link == INSTANCE AciLink
        WITH QueueSize <- ACI_QUEUE_SIZE,
             tx <- Held(tx), rx <- Held(rx), waiting <- Unfetched

(* To the driver the transport is a pair of bounded FIFO queues, which a   *)
(* packet is in or not, whatever half-done operation an interrupt comes    *)
(* into; until the byte indices wrap, after which a full queue may not be  *)
(* seen as full.                                                           *)
ActsAsLink == Link!Spec

(* hal_aci_tl.cpp:115, "Disable ready line interrupt until we have room":  *)
(* once the program is done with an event, the interrupt is off only if    *)
(* there is no room.                                                       *)
DetachedOnlyWhileFull == (interrupt /\ ~ attached /\ pc = "idle") => IsFull(rx)

(* Every event is delivered and every command heard, eventually, unless    *)
(* the interrupt is off although there is room.                            *)
Lost == ~ DetachedOnlyWhileFull

EventsDelivered == \A k \in Event : made >= k ~> (Len(delivered) >= k \/ Lost)
CommandsHeard == \A k \in Command : sent >= k ~> (Len(heard) >= k \/ Lost)

=============================================================================
