------------------------------- MODULE AciLib -------------------------------
(***************************************************************************)
(* The ACI library, lib_aci.cpp: one function per command, which encodes   *)
(* it into msg_to_send and has it queued, and lib_aci_event_get, which     *)
(* keeps the program's view of the connection: which pipes are open, and   *)
(* its timing. The functions that the program does not call are here too.  *)
(*                                                                         *)
(* The queues are those that AciTransport provides. The nRF8001 reads and  *)
(* writes packets by the structs of AciPackets.                            *)
(*                                                                         *)
(* Left out, since nothing reads them: the flags of pending operations,    *)
(* confirmation_pending, and the data credits.                             *)
(***************************************************************************)
EXTENDS AciPackets, Services

CONSTANTS
    QueueSize,          \* ACI_QUEUE_SIZE
    MaxEvents,          \* bound: events that wait to be read
    Stale,              \* a byte of msg_to_send that an earlier call left there
    RemotePipes,        \* pipes of a peer's services, after those of services.h
    OpenSets,           \* sets of pipes that a link may have open
    Intervals           \* connection intervals that a peer may choose

ACI_DEVICE_MAX_PIPES == 62

ASSUME LibraryAssumption ==
    /\ QueueSize \in Nat \ {0} /\ MaxEvents \in Nat \ {0}
    /\ Stale \notin 0..255
    /\ RemotePipes \in Seq([location : {"REMOTE"}, type : {"RX", "RX_REQ", "RX_ACK", "RX_ACK_AUTO"}])
    /\ Len(services_pipe_type_mapping \o RemotePipes) <= ACI_DEVICE_MAX_PIPES
    /\ \A open \in OpenSets : open \subseteq 1..ACI_DEVICE_MAX_PIPES
    /\ \A interval \in Intervals : interval \in Nat /\ interval < 2^16

VARIABLES
    commands,           \* aci_tx_q: packets, each with the call that queued it
    events,             \* aci_rx_q: packets, each with what the chip reports
    status,             \* bluetooth_t: whether the program takes itself to be
                        \* connected
    bitmaps,            \* pipes_open_bitmap and pipes_closed_bitmap
    timing,             \* connection_interval, slave_latency, supervision_timeout
    adv_pipes,          \* aci_cmd_params_open_adv_pipe.pipes
    link,               \* the chip's link: its open pipes and its interval
    disconnecting       \* history: a disconnect was queued, and no event about
                        \* it has been read

library == <<bitmaps, timing, adv_pipes>>
vars == <<commands, events, status, library, link, disconnecting>>

HAL_ACI_MAX_LENGTH == 31
PIPES_ARRAY_SIZE == 8

(* Bitmaps of pipes, a bit each.                                           *)
NoPipes == [i \in 1..PIPES_ARRAY_SIZE |-> 0]
Bit(n) == <<1, 2, 4, 8, 16, 32, 64, 128>>[n + 1]
HasBit(bitmap, pipe) == (bitmap[pipe \div 8 + 1] \div Bit(pipe % 8)) % 2 = 1
WithBit(bitmap, pipe) ==
    IF HasBit(bitmap, pipe) THEN bitmap
    ELSE [bitmap EXCEPT ![pipe \div 8 + 1] = @ + Bit(pipe % 8)]
Bitmap(pipes) ==
    [i \in 1..PIPES_ARRAY_SIZE |->
        LET bit(n) == IF 8 * (i - 1) + n \in pipes THEN Bit(n) ELSE 0
        IN  bit(0) + bit(1) + bit(2) + bit(3) + bit(4) + bit(5) + bit(6) + bit(7)]

lib_aci_is_pipe_available(pipe) == HasBit(bitmaps.open, pipe)
lib_aci_is_pipe_closed(pipe) == HasBit(bitmaps.closed, pipe)

p_services_pipe_type_map == services_pipe_type_mapping \o RemotePipes
Pipes == 1..Len(p_services_pipe_type_map)
TypeOf(pipe) == p_services_pipe_type_map[pipe].type
LocationOf(pipe) == p_services_pipe_type_map[pipe].location

BothEmpty == [open |-> NoPipes, closed |-> NoPipes]
TimingFields == {ConnectionTiming[i][1] : i \in 1..Len(ConnectionTiming)}

NoLink == [up |-> FALSE, open |-> {}, interval |-> 0]

Report(evt, fields) == [evt |-> evt, cmd |-> "none", fields |-> fields]

(* The chip's packet for a report.                                         *)
PacketOf(r) ==
    LET params == Packed(EvtParams(r.evt, r.cmd), r.fields)
        bytes == <<1 + Len(params), aci_evt_opcode_t[r.evt]>> \o params
    IN  [i \in 0..HAL_ACI_MAX_LENGTH |-> IF i < Len(bytes) THEN bytes[i + 1] ELSE Stale]

TypeOK ==
    /\ Len(commands) <= QueueSize /\ Len(events) <= MaxEvents
    /\ \A i \in 1..Len(commands) :
        commands[i].packet \in [0..HAL_ACI_MAX_LENGTH -> 0..255 \cup {Stale}]
    /\ \A i \in 1..Len(events) :
        events[i].packet \in [0..HAL_ACI_MAX_LENGTH -> 0..255 \cup {Stale}]
    /\ status \in {"STANDBY", "CONNECTED"}
    /\ bitmaps.open \in [1..PIPES_ARRAY_SIZE -> 0..255]
    /\ adv_pipes \in [1..PIPES_ARRAY_SIZE -> 0..255]
    /\ bitmaps.closed \in [1..PIPES_ARRAY_SIZE -> 0..255]
    /\ \A f \in TimingFields : timing[f] \in Seq(0..255)
    /\ link \in [up : BOOLEAN, open : {{}} \cup OpenSets, interval : {0} \cup Intervals]
    /\ disconnecting \in BOOLEAN

Init ==
    /\ commands = <<>> /\ events = <<>>
    /\ status = "STANDBY"
    /\ bitmaps = BothEmpty /\ adv_pipes = NoPipes
    /\ timing = [f \in TimingFields |-> Word(0)]
    /\ link = NoLink
    /\ disconnecting = FALSE

-----------------------------------------------------------------------------
(* Calls, as [cmd, args].                                                  *)

Call(cmd, args) == [cmd |-> cmd, args |-> args]

(* Bytes that differ from one another, so that a misplaced one shows.      *)
Data(n) == [k \in 1..n |-> 100 + k]

(* lib_aci_sleep and the other functions without arguments.                *)
PlainCalls ==
    {Call(cmd, NoArguments) : cmd \in
        {"sleep", "radio_reset", "connect_direct", "get_device_version", "wakeup",
         "get_device_address", "get_temperature", "get_battery_level",
         "bond_security_request", "read_dynamic_data", "change_timing"}}

(* Those that encode their arguments as they are.                          *)
ArgumentCalls ==
    { Call("bond", [timeout |-> Word(\h0102), adv_interval |-> Word(\h0304)]),
      Call("test", [test_mode_change |-> Byte(1)]),
      Call("set_tx_power", [device_power |-> Byte(3)]),
      Call("set_app_latency", [mode |-> Byte(1), latency |-> Word(\h0203)]),
      Call("dtm_cmd", [cmd_msb |-> Byte(1), cmd_lsb |-> Byte(2)]),
      Call("send_data_ack", [pipe_number |-> Byte(11)]),
      Call("send_data_nack", [pipe_number |-> Byte(11), error_code |-> Byte(\h80)]),
      Call("write_dynamic_data", [seq_no |-> Byte(1), dynamic_data |-> Data(27)]),
      Call("change_timing",
           [min_conn_interval |-> Word(\h0102), max_conn_interval |-> Word(\h0304),
            slave_latency |-> Word(\h0506), timeout_mult |-> Word(\h0708)]) }

(* lib_aci_set_key: the key is six bytes, or none to reject.               *)
KeyCalls ==
    { Call("set_key", [key_type |-> Byte(0), key |-> <<>>]),
      Call("set_key", [key_type |-> Byte(1), key |-> Data(6)]) }

Sizes == {0, 1, ACI_PIPE_TX_DATA_MAX_LEN, ACI_PIPE_TX_DATA_MAX_LEN + 1}
Sent(pipe, n) == [pipe_number |-> Byte(pipe), aci_data |-> Data(n)]

(* lib_aci_set_local_data and lib_aci_send_data.                           *)
DataCalls ==
    {Call("set_local_data", Sent(c[1], c[2])) : c \in
        {d \in Pipes \X Sizes : LocationOf(d[1]) = "LOCAL" /\ d[2] <= ACI_PIPE_TX_DATA_MAX_LEN}}
    \cup {Call("send_data", Sent(c[1], c[2])) : c \in
        {d \in Pipes \X Sizes : TypeOf(d[1]) \in {"TX", "TX_ACK"}
                                    /\ d[2] <= ACI_PIPE_TX_DATA_MAX_LEN}}

EchoCalls ==
    {Call("echo", [echo_data |-> Data(n)]) : n \in
        {m \in {0, 1, ACI_ECHO_DATA_MAX_LEN, ACI_ECHO_DATA_MAX_LEN + 2} :
            m <= ACI_ECHO_DATA_MAX_LEN}}

(* lib_aci_request_data, lib_aci_open_remote_pipe, lib_aci_close_remote_pipe. *)
RemoteCalls ==
    LET remote(types) == {p \in Pipes : LocationOf(p) = "REMOTE" /\ TypeOf(p) \in types}
        received == {"RX", "RX_ACK_AUTO", "RX_ACK"}
    IN  {Call("request_data", [pipe_number |-> Byte(p)]) : p \in remote({"RX_REQ"})}
        \cup {Call(cmd, [pipe_number |-> Byte(p)]) :
                cmd \in {"open_remote_pipe", "close_remote_pipe"}, p \in remote(received)}

BroadcastCalls ==
    {Call("broadcast", [timeout |-> Word(c[1]), adv_interval |-> Word(c[2])]) : c \in
        {d \in {0, 16383, 16384} \X {159, 160, 16384, 16385} :
            d[1] <= 16383 /\ 160 <= d[2] /\ d[2] <= 16384}}

SimpleCalls ==
    PlainCalls \cup ArgumentCalls \cup KeyCalls \cup DataCalls \cup EchoCalls
        \cup RemoteCalls \cup BroadcastCalls

-----------------------------------------------------------------------------
(* The library's functions.                                                *)

(* MUTANT: only the length counts.                                         *)
SendsUnlessTooLong(call) == Encode(call.cmd, call.args)[0] <= HAL_ACI_MAX_LENGTH

(* hal_aci_tl_send on msg_to_send, into which a command has been encoded:  *)
(* it is copied into the queue, if it is not too long and there is room.   *)
Sends(call) ==
    LET packet == Encode(call.cmd, call.args)
    IN  packet[0] <= HAL_ACI_MAX_LENGTH /\ Len(commands) < QueueSize

msg_to_send(call) ==
    Over(Encode(call.cmd, call.args), [i \in 0..HAL_ACI_MAX_LENGTH |-> Stale])

hal_aci_tl_send(call) ==
    IF Sends(call) THEN commands' = Append(commands, [packet |-> msg_to_send(call), call |-> call])
                   ELSE UNCHANGED commands

(* Bound: what does not touch the link happens while there is none.        *)
Idle == ~ link.up /\ commands = <<>> /\ events = <<>>

Send ==
    /\ Idle
    /\ \E call \in SimpleCalls : hal_aci_tl_send(call)
    /\ UNCHANGED <<events, status, library, link, disconnecting>>

(* lib_aci_open_adv_pipe adds a pipe to those of earlier calls ...         *)
OpenAdvPipe(pipe) ==
    /\ Idle
    /\ adv_pipes' = WithBit(adv_pipes, pipe)
    /\ hal_aci_tl_send(Call("open_adv_pipe", [pipes |-> adv_pipes']))
    /\ UNCHANGED <<events, status, bitmaps, timing, link, disconnecting>>

(* ... and lib_aci_open_adv_pipes replaces them.                           *)
OpenAdvPipes(pipes) ==
    /\ Idle
    /\ adv_pipes' = Bitmap(pipes)
    /\ hal_aci_tl_send(Call("open_adv_pipe", [pipes |-> adv_pipes']))
    /\ UNCHANGED <<events, status, bitmaps, timing, link, disconnecting>>

Connect ==
    /\ status = "STANDBY"
    /\ hal_aci_tl_send(Call("connect", [timeout |-> Word(0), adv_interval |-> Word(\h0100)]))
    /\ UNCHANGED <<events, status, library, link, disconnecting>>

(* As bluetooth_sleep calls it; the pipes are closed at once if the        *)
(* command is queued.                                                      *)
Disconnect ==
    LET call == Call("disconnect", [reason |-> Byte(1)])
    IN  /\ status = "CONNECTED"
        /\ hal_aci_tl_send(call)
        /\ IF Sends(call) THEN bitmaps' = BothEmpty ELSE UNCHANGED bitmaps
        /\ disconnecting' = (disconnecting \/ Sends(call))
        /\ UNCHANGED <<events, status, timing, adv_pipes, link>>

(* The fields of a struct follow one another; and one of them, the struct  *)
(* of the event being laid over the buffer.                                *)
Offsets(struct) ==
    LET at[i \in 1..Len(struct)] ==
            IF i = 1 THEN OFFSET_PARAMS ELSE at[i - 1] + struct[i - 1][2]
    IN  at

Field(evt, buffer, f) ==
    LET struct == aci_evt_params[evt]
        i == CHOOSE j \in 1..Len(struct) : struct[j][1] = f
    IN  [k \in 1..struct[i][2] |-> buffer[Offsets(struct)[i] + k - 1]]

BothOf(evt, buffer) ==
    [open |-> Field(evt, buffer, "pipes_open_bitmap"),
     closed |-> Field(evt, buffer, "pipes_closed_bitmap")]

(* MUTANT: the end of a connection leaves its pipes to the next one.       *)
bitmaps_kept(evt, buffer) ==
    IF evt = "pipe_status" THEN BothOf(evt, buffer) ELSE bitmaps

(* What an event changes in aci_state_t.                                   *)
bitmaps_after(evt, buffer) ==
    CASE evt = "pipe_status" -> BothOf(evt, buffer)
      [] evt = "disconnected" -> BothEmpty
      [] OTHER -> bitmaps

timing_after(evt, buffer) ==
    IF evt \in {"timing", "connected"}
        THEN [f \in TimingFields |-> Field(evt, buffer, f)] ELSE timing

(* lib_aci_event_get, and what bluetooth_poll then does to its status.     *)
EventGet ==
    /\ events # <<>>
    /\ LET buffer == Head(events).packet
           evt == OpcodeName(aci_evt_opcode_t, buffer[1])
       IN  /\ bitmaps' = bitmaps_after(evt, buffer)
           /\ timing' = timing_after(evt, buffer)
           /\ status' = CASE evt = "connected" -> "CONNECTED"
                          [] evt = "disconnected" -> "STANDBY"
                          [] OTHER -> status
           /\ disconnecting' = (disconnecting /\ evt # "disconnected")
    /\ events' = Tail(events)
    /\ UNCHANGED <<commands, adv_pipes, link>>

-----------------------------------------------------------------------------
(* The nRF8001 and its peer.                                               *)

Reported(r) ==
    /\ Len(events) < MaxEvents
    /\ events' = Append(events, [packet |-> PacketOf(r), report |-> r])

Disconnected == Report("disconnected", [aci_status |-> Byte(3), btle_status |-> Byte(\h13)])

(* What the peer also chooses, alike for each connection.                  *)
PeerLatency == \h0102
PeerTimeout == \h0304

Timing(interval) ==
    Report("timing",
        [conn_rf_interval |-> Word(interval), conn_slave_rf_latency |-> Word(PeerLatency),
         conn_rf_timeout |-> Word(PeerTimeout)])

Connected(interval) ==
    Report("connected",
        [dev_addr_type |-> Byte(1), dev_addr |-> Data(6),
         conn_rf_interval |-> Word(interval), conn_slave_rf_latency |-> Word(PeerLatency),
         conn_rf_timeout |-> Word(PeerTimeout), master_clock_accuracy |-> Byte(2)])

PipeStatus(open) ==
    Report("pipe_status",
        [pipes_open_bitmap |-> Bitmap(open), pipes_closed_bitmap |-> Bitmap(Pipes \ open)])

(* The chip takes a command; those but disconnect leave the link alone.    *)
TakeCommand ==
    /\ commands # <<>>
    /\ commands' = Tail(commands)
    /\ IF commands[1].packet[1] = aci_cmd_opcode_t.disconnect /\ link.up
       THEN link' = NoLink /\ Reported(Disconnected)
       ELSE UNCHANGED <<link, events>>
    /\ UNCHANGED <<status, library, disconnecting>>

(* A peer answers the advertising that a connect has begun.                *)
PeerConnects ==
    /\ commands # <<>> /\ commands[1].packet[1] = aci_cmd_opcode_t.connect
    /\ ~ link.up
    /\ commands' = Tail(commands)
    /\ \E interval \in Intervals :
        /\ link' = [up |-> TRUE, open |-> {}, interval |-> interval]
        /\ Reported(Connected(interval))
    /\ UNCHANGED <<status, library, disconnecting>>

PipesChange ==
    /\ link.up
    /\ \E open \in OpenSets \ {link.open} :
        /\ link' = [link EXCEPT !.open = open]
        /\ Reported(PipeStatus(open))
    /\ UNCHANGED <<commands, status, library, disconnecting>>

TimingChanges ==
    /\ link.up
    /\ \E interval \in Intervals \ {link.interval} :
        /\ link' = [link EXCEPT !.interval = interval]
        /\ Reported(Timing(interval))
    /\ UNCHANGED <<commands, status, library, disconnecting>>

LinkIsLost ==
    /\ link.up
    /\ link' = NoLink
    /\ Reported(Disconnected)
    /\ UNCHANGED <<commands, status, library, disconnecting>>

Fields(struct) ==
    [f \in {struct[i][1] : i \in 1..Len(struct)} |->
        LET i == CHOOSE j \in 1..Len(struct) : struct[j][1] = f
        IN  [k \in 1..struct[i][2] |-> 10 * i + k]]

(* The other events, with bytes that differ, and the longest data.         *)
OtherReports ==
    {Report(evt, Fields(aci_evt_params[evt])) : evt \in
        DOMAIN aci_evt_params \ {"connected", "disconnected", "pipe_status", "timing", "cmd_rsp"}}
    \cup {[evt |-> "cmd_rsp", cmd |-> cmd,
           fields |-> [Fields(EvtParams("cmd_rsp", cmd)) EXCEPT
                            !.cmd_opcode = Byte(aci_cmd_opcode_t[cmd])]] :
            cmd \in DOMAIN aci_cmd_opcode_t}

OtherEvent ==
    /\ Idle
    /\ \E r \in OtherReports : Reported(r)
    /\ UNCHANGED <<commands, status, library, link, disconnecting>>

-----------------------------------------------------------------------------

Next ==
    \/ Send \/ Connect \/ Disconnect \/ EventGet
    \/ \E pipe \in {1, 9} : OpenAdvPipe(pipe)
    \/ \E pipes \in {{}, {8}} : OpenAdvPipes(pipes)
    \/ TakeCommand \/ PeerConnects \/ PipesChange \/ TimingChanges
    \/ LinkIsLost \/ OtherEvent

Spec == Init /\ [][Next]_vars

-----------------------------------------------------------------------------
(* m_aci_spi_transfer: command and event cross, a byte each at a time. The *)
(* event comes two bytes late, with a status byte before its length.       *)

Longer(m, n) == IF m > n THEN m ELSE n
Shorter(m, n) == IF m < n THEN m ELSE n

(* How many bytes follow the first two; one of the command's is then sent. *)
max_bytes(sent, received) ==
    Shorter(HAL_ACI_MAX_LENGTH,
            IF sent[0] = 0 THEN received[0] ELSE Longer(received[0], sent[0] - 1))

(* What the chip gets of a command, and the program of an event.           *)
HeardOf(sent, received) ==
    [i \in 0..HAL_ACI_MAX_LENGTH |-> IF i <= max_bytes(sent, received) + 1 THEN sent[i] ELSE Stale]
ReceivedOf(sent, received) ==
    [i \in 0..HAL_ACI_MAX_LENGTH |-> IF i <= max_bytes(sent, received) THEN received[i] ELSE Stale]

(* What a packet may cross with: nothing, the shortest and the longest.    *)
OtherPackets ==
    {[i \in 0..HAL_ACI_MAX_LENGTH |-> IF i = 0 THEN n ELSE Stale] :
        n \in {0, 1, HAL_ACI_MAX_LENGTH}}

-----------------------------------------------------------------------------
(* Properties                                                              *)

(* What the chip finds, by its structs, in the packet of a command, within *)
(* the length it states, is what the library's function was called with,   *)
(* whatever event crosses with it: the offsets, lengths and sizes of three *)
(* headers and acilib.cpp agree, and no byte that an earlier call left in  *)
(* msg_to_send counts.                                                     *)
CommandIsWhatWasAsked ==
    \A i \in 1..Len(commands), other \in OtherPackets :
        LET packet == HeardOf(commands[i].packet, other)
            call == commands[i].call
            struct == CmdParams(call.cmd)
        IN  /\ SizesFit(struct, call.args)
            /\ [k \in 1..packet[0] |-> packet[k]]
                = <<aci_cmd_opcode_t[call.cmd]>> \o Packed(struct, call.args)

(* The decoders of acilib.cpp find in a packet what the chip reports,      *)
(* whatever command crosses with it; only of dynamic data they take a byte *)
(* that is not part of the packet.                                         *)
EventReadAsSent ==
    \A i \in 1..Len(events), other \in OtherPackets :
        LET packet == ReceivedOf(other, events[i].packet)
            decoded == IF events[i].report.evt = "echo" THEN acil_decode_evt_echo(packet)
                                                        ELSE acil_decode_evt(packet)
            sent == events[i].report.fields
        IN  /\ DOMAIN decoded = DOMAIN sent
            /\ \A f \in DOMAIN sent :
                IF f = "dynamic_data" THEN IsStrictPrefix(sent[f], decoded[f])
                                      ELSE decoded[f] = sent[f]

(* When every event has been read, the program's view of the connection is *)
(* the chip's, whatever the order of events and commands was: the pipes it *)
(* takes to be available are the open ones, and its interval is the link's. *)
ViewCatchesUp ==
    events = <<>> =>
        /\ (status = "CONNECTED") = link.up
        /\ ~ disconnecting =>
            \A p \in Pipes : lib_aci_is_pipe_available(p) <=> p \in link.open
        /\ \A p \in Pipes : lib_aci_is_pipe_closed(p) => p \notin link.open
        /\ link.up => timing.conn_rf_interval = Word(link.interval)

=============================================================================
